---- MODULE Recall_proofs ----
(***************************************************************************)
(* Recall over a store that other threads write, for any facts, rankings,  *)
(* limits and number of writes: what is returned was current, the loop     *)
(* over growing batches finds what one scan would, and a vector search     *)
(* misses nothing.                                                         *)
(***************************************************************************)
EXTENDS Recall, TLAPS, FiniteSetTheorems, WellFoundedInduction

(* Induction over naturals, of a set in place of a predicate. *)
LEMMA LeastElement ==
    ASSUME NEW T \in SUBSET Nat, T # {}
    PROVE  \E x \in T : \A y \in T : x <= y
<1> DEFINE Less == OpToRel(<, Nat)
<1>1. IsWellFoundedOn(Less, Nat)
  BY NatLessThanWellFounded
<1>2. \A x, y \in Nat : <<y, x>> \in Less <=> y < x
  BY DEF OpToRel
<1> HIDE DEF Less
<1>3. PICK x \in T : \A y \in T : ~ (<<y, x>> \in Less)
  BY <1>1, WFMin
<1>4. \A y \in T : ~(y < x)
  BY <1>2, <1>3
<1>5. x \in Nat /\ \A y \in T : y \in Nat
  OBVIOUS
<1>6. \A y \in T : x <= y
  BY <1>4, <1>5
<1> QED
  BY <1>6

LEMMA Induction ==
    ASSUME NEW n \in Nat, NEW T, 0 \in T, \A k \in 0..n : k \in T /\ k < n => k + 1 \in T
    PROVE  \A k \in 0..n : k \in T
<1> DEFINE Out == {k \in 0..n : k \notin T}
<1> SUFFICES ASSUME Out # {} PROVE FALSE
  OBVIOUS
<1>0. Out \in SUBSET Nat
  OBVIOUS
<1> HIDE DEF Out
<1>1. PICK k \in Out : \A m \in Out : k <= m
  BY <1>0, LeastElement
<1>2. k # 0 /\ k - 1 \in 0..n /\ k - 1 < n /\ (k - 1) + 1 = k
  BY <1>1 DEF Out
<1>3. k - 1 \in T
  BY <1>1, <1>2 DEF Out
<1>4. k \notin T
  BY <1>1 DEF Out
<1> QED
  BY <1>2, <1>3, <1>4

-----------------------------------------------------------------------------
(* What a filter keeps. *)
(* The function Keep is defined by exists: the steps of the filter.        *)
LEMMA KeepSteps ==
    ASSUME NEW s, Len(s) \in Nat, NEW S
    PROVE  \E r : /\ r[0] = << >>
                  /\ \A n \in 1..Len(s) :
                       r[n] = IF s[n] \in S THEN Append(r[n - 1], s[n]) ELSE r[n - 1]
                  /\ Keep(s, S) = r[Len(s)]
<1> DEFINE Step(x, n) == IF s[n] \in S THEN Append(x, s[n]) ELSE x
           Good(k, g) == g = [n \in 0..k |-> IF n = 0 THEN << >> ELSE
                                   IF s[n] \in S THEN Append(g[n - 1], s[n]) ELSE g[n - 1]]
           T == {k \in 0..Len(s) : \E g : Good(k, g)}
<1>0. \A k, g : Good(k, g) <=> g = [n \in 0..k |-> IF n = 0 THEN << >> ELSE Step(g[n - 1], n)]
  OBVIOUS
<1>6. Keep(s, S) = (CHOOSE g : Good(Len(s), g))[Len(s)]
  BY Zenon DEF Keep
<1> HIDE DEF Good
<1>1. 0 \in T
  <2>1. [n \in 0..0 |-> << >>]
        = [n \in 0..0 |-> IF n = 0 THEN << >> ELSE Step([m \in 0..0 |-> << >>][n - 1], n)]
    <3> HIDE DEF Step
    <3> QED OBVIOUS
  <2>2. Good(0, [n \in 0..0 |-> << >>])
    BY <1>0, <2>1, Zenon
  <2> QED
    BY <2>2
<1> HIDE DEF Step
<1>2. ASSUME NEW k \in 0..Len(s), k \in T, k < Len(s) PROVE k + 1 \in T
  <2>1. PICK g : Good(k, g)
    BY <1>2
  <2> DEFINE h == [n \in 0..k + 1 |-> IF n = 0 THEN << >> ELSE Step(g[n - 1], n)]
  <2>2. \A n \in 0..k : h[n] = g[n]
    BY <2>1, <1>0
  <2>3. \A n \in 0..k + 1 : n = 0 \/ (n - 1 \in 0..k /\ h[n - 1] = g[n - 1])
    <3> HIDE DEF h
    <3>1. \A n \in 0..k + 1 : n = 0 \/ n - 1 \in 0..k
      OBVIOUS
    <3> QED
      BY <3>1, <2>2
  <2>4. [n \in 0..k + 1 |-> IF n = 0 THEN << >> ELSE Step(h[n - 1], n)] = h
    <3>1. \A n \in 0..k + 1 : (IF n = 0 THEN << >> ELSE Step(h[n - 1], n))
                            = (IF n = 0 THEN << >> ELSE Step(g[n - 1], n))
      <4> HIDE DEF h
      <4> QED
        BY <2>3, Zenon
    <3> QED
      BY <3>1, Zenon
  <2>5. Good(k + 1, h)
    BY <2>4, <1>0
  <2> HIDE DEF h
  <2> QED
    BY <2>5, <1>2
<1> HIDE DEF T
<1>3. Len(s) \in T
  <2>1. \A k \in 0..Len(s) : k \in T /\ k < Len(s) => k + 1 \in T
    BY <1>2
  <2>2. \A k \in 0..Len(s) : k \in T
    BY <1>1, <2>1, Induction
  <2> QED
    BY <2>2
<1>4. \E g : Good(Len(s), g)
  BY <1>3 DEF T
<1> DEFINE r == CHOOSE g : Good(Len(s), g)
<1>5. Good(Len(s), r)
  BY <1>4
<1> HIDE DEF r
<1>7. r[0] = << >>
  BY <1>5, <1>0
<1>8. \A n \in 1..Len(s) : r[n] = Step(r[n - 1], n)
  BY <1>5, <1>0
<1> QED
  BY <1>6, <1>7, <1>8 DEF Step, r

LEMMA KeepPrefix ==
    ASSUME NEW T, NEW s \in Seq(T), NEW S
    PROVE  /\ Keep(SubSeq(s, 1, 0), S) = << >>
           /\ \A n \in 0..Len(s) - 1 :
                Keep(SubSeq(s, 1, n + 1), S)
                  = IF s[n + 1] \in S THEN Append(Keep(SubSeq(s, 1, n), S), s[n + 1])
                    ELSE Keep(SubSeq(s, 1, n), S)
           /\ SubSeq(s, 1, Len(s)) = s
<1>0. Len(s) \in Nat /\ SubSeq(s, 1, Len(s)) = s
  OBVIOUS
<1>1. PICK r : /\ r[0] = << >>
               /\ \A n \in 1..Len(s) :
                    r[n] = IF s[n] \in S THEN Append(r[n - 1], s[n]) ELSE r[n - 1]
               /\ Keep(s, S) = r[Len(s)]
  BY <1>0, KeepSteps
<1>2. ASSUME NEW m \in 0..Len(s) PROVE Keep(SubSeq(s, 1, m), S) = r[m]
  <2>1. Len(SubSeq(s, 1, m)) = m /\ \A n \in 1..m : SubSeq(s, 1, m)[n] = s[n]
    BY <1>0
  <2> DEFINE p == SubSeq(s, 1, m)
  <2> HIDE DEF p
  <2>0. Len(p) = m /\ Len(p) \in Nat
    BY <1>0, <2>1 DEF p
  <2>2. PICK q : /\ q[0] = << >>
                 /\ \A n \in 1..Len(p) :
                      q[n] = IF p[n] \in S THEN Append(q[n - 1], p[n]) ELSE q[n - 1]
                 /\ Keep(p, S) = q[Len(p)]
    BY <2>0, KeepSteps
  <2> DEFINE U == {k \in 0..m : q[k] = r[k]}
  <2>3. 0 \in U
    BY <1>1, <2>2
  <2>4. \A k \in 0..m : k \in U /\ k < m => k + 1 \in U
    <3> SUFFICES ASSUME NEW k \in 0..m, q[k] = r[k], k < m PROVE q[k + 1] = r[k + 1]
      OBVIOUS
    <3>1. k + 1 \in 1..m /\ k + 1 \in 1..Len(s) /\ (k + 1) - 1 = k
      BY <1>0
    <3>2. q[k + 1] = IF p[k + 1] \in S THEN Append(q[k], p[k + 1]) ELSE q[k]
      BY <2>0, <2>2, <3>1
    <3>3. r[k + 1] = IF s[k + 1] \in S THEN Append(r[k], s[k + 1]) ELSE r[k]
      BY <1>1, <3>1
    <3>4. p[k + 1] = s[k + 1]
      BY <2>1, <3>1 DEF p
    <3> QED
      BY <3>2, <3>3, <3>4
  <2> HIDE DEF U
  <2>5. m \in Nat /\ m \in 0..m
    BY <1>0
  <2>6. \A k \in 0..m : k \in U
    BY <2>3, <2>4, <2>5, Induction
  <2> QED
    BY <2>0, <2>2, <2>5, <2>6 DEF U, p
<1>3. ASSUME NEW n \in 0..Len(s) - 1
      PROVE  Keep(SubSeq(s, 1, n + 1), S)
               = IF s[n + 1] \in S THEN Append(Keep(SubSeq(s, 1, n), S), s[n + 1])
                 ELSE Keep(SubSeq(s, 1, n), S)
  <2>1. n \in 0..Len(s) /\ n + 1 \in 0..Len(s) /\ n + 1 \in 1..Len(s) /\ (n + 1) - 1 = n
    BY <1>0
  <2>2. r[n + 1] = IF s[n + 1] \in S THEN Append(r[n], s[n + 1]) ELSE r[n]
    BY <1>1, <2>1
  <2>3. Keep(SubSeq(s, 1, n + 1), S) = r[n + 1] /\ Keep(SubSeq(s, 1, n), S) = r[n]
    BY <1>2, <2>1
  <2> QED
    BY <2>2, <2>3
<1>4. Keep(SubSeq(s, 1, 0), S) = << >>
  BY <1>0, <1>1, <1>2
<1> QED
  BY <1>0, <1>3, <1>4

LEMMA KeepAppend ==
    ASSUME NEW T, NEW s \in Seq(T), NEW e \in T, NEW S
    PROVE  Keep(Append(s, e), S) = IF e \in S THEN Append(Keep(s, S), e) ELSE Keep(s, S)
<1> DEFINE t == Append(s, e)
<1>1. /\ t \in Seq(T) /\ Len(t) = Len(s) + 1 /\ Len(s) \in Nat /\ t[Len(s) + 1] = e
      /\ SubSeq(t, 1, Len(s)) = s
  OBVIOUS
<1> HIDE DEF t
<1>2. Len(s) \in 0..Len(t) - 1
  BY <1>1
<1>3. /\ \A n \in 0..Len(t) - 1 :
             Keep(SubSeq(t, 1, n + 1), S)
               = IF t[n + 1] \in S THEN Append(Keep(SubSeq(t, 1, n), S), t[n + 1])
                 ELSE Keep(SubSeq(t, 1, n), S)
      /\ SubSeq(t, 1, Len(t)) = t
  BY <1>1, KeepPrefix
<1>4. Keep(SubSeq(t, 1, Len(s) + 1), S)
        = IF t[Len(s) + 1] \in S THEN Append(Keep(SubSeq(t, 1, Len(s)), S), t[Len(s) + 1])
          ELSE Keep(SubSeq(t, 1, Len(s)), S)
  BY <1>2, <1>3
<1> QED
  BY <1>1, <1>3, <1>4 DEF t

LEMMA KeepEmpty == \A S : Keep(<< >>, S) = << >>
<1> TAKE S
<1>1. << >> \in Seq({}) /\ SubSeq(<< >>, 1, 0) = << >>
  OBVIOUS
<1>2. Keep(SubSeq(<< >>, 1, 0), S) = << >>
  BY <1>1, KeepPrefix
<1> QED
  BY <1>1, <1>2

-----------------------------------------------------------------------------
(* Sequences and the ids in them. *)
LEMMA AppendIds ==
    ASSUME NEW T, NEW s \in Seq(T), NEW e \in T
    PROVE  /\ Append(s, e) \in Seq(T) /\ IdsOf(Append(s, e)) = IdsOf(s) \cup {e}
           /\ IsInjective(s) /\ e \notin IdsOf(s) => IsInjective(Append(s, e))
<1> DEFINE t == Append(s, e)
<1>1. /\ t \in Seq(T) /\ Len(s) \in Nat /\ DOMAIN s = 1..Len(s) /\ DOMAIN t = 1..Len(s) + 1
      /\ t[Len(s) + 1] = e /\ \A i \in 1..Len(s) : t[i] = s[i]
  OBVIOUS
<1> HIDE DEF t
<1>2. /\ \A i \in 1..Len(s) + 1 : i \in 1..Len(s) \/ i = Len(s) + 1
      /\ \A i \in 1..Len(s) : i \in 1..Len(s) + 1
      /\ Len(s) + 1 \in 1..Len(s) + 1
  BY <1>1
<1>3. IdsOf(t) = IdsOf(s) \cup {e}
  BY <1>1, <1>2 DEF IdsOf
<1>4. ASSUME IsInjective(s), e \notin IdsOf(s), NEW i \in DOMAIN t, NEW j \in DOMAIN t, t[i] = t[j]
      PROVE  i = j
  BY <1>1, <1>2, <1>4 DEF IdsOf, IsInjective
<1> QED
  BY <1>1, <1>3, <1>4 DEF t, IsInjective

LEMMA ConcatIds ==
    ASSUME NEW T, NEW s \in Seq(T), NEW t \in Seq(T)
    PROVE  /\ s \o t \in Seq(T) /\ IdsOf(s \o t) = IdsOf(s) \cup IdsOf(t)
           /\ IsInjective(s) /\ IsInjective(t) /\ IdsOf(s) \cap IdsOf(t) = {} => IsInjective(s \o t)
<1> DEFINE u == s \o t
           m == Len(s)
           n == Len(t)
<1>1. /\ u \in Seq(T) /\ m \in Nat /\ n \in Nat
      /\ DOMAIN s = 1..m /\ DOMAIN t = 1..n /\ DOMAIN u = 1..m + n
      /\ \A i \in 1..m : u[i] = s[i]
      /\ \A i \in m + 1..m + n : u[i] = t[i - m]
  OBVIOUS
<1> HIDE DEF u, m, n
<1>2. /\ \A i \in 1..m + n : i \in 1..m \/ (i \in m + 1..m + n /\ i - m \in 1..n)
      /\ \A i \in 1..m : i \in 1..m + n
      /\ \A i \in 1..n : m + i \in m + 1..m + n /\ m + i \in 1..m + n /\ (m + i) - m = i
  BY <1>1
<1>3. IdsOf(u) \subseteq IdsOf(s) \cup IdsOf(t)
  BY <1>1, <1>2 DEF IdsOf
<1>4. IdsOf(s) \subseteq IdsOf(u)
  BY <1>1, <1>2 DEF IdsOf
<1>5. IdsOf(t) \subseteq IdsOf(u)
  <2> SUFFICES ASSUME NEW i \in 1..n PROVE t[i] \in IdsOf(u)
    BY <1>1 DEF IdsOf
  <2>1. u[m + i] = t[i] /\ m + i \in DOMAIN u
    BY <1>1, <1>2
  <2> QED
    BY <2>1 DEF IdsOf
<1>6. ASSUME IsInjective(s), IsInjective(t), IdsOf(s) \cap IdsOf(t) = {},
             NEW i \in DOMAIN u, NEW j \in DOMAIN u, u[i] = u[j]
      PROVE  i = j
  <2>1. CASE i \in 1..m /\ j \in 1..m
    BY <1>1, <1>6, <2>1 DEF IsInjective
  <2>2. CASE i \in m + 1..m + n /\ j \in m + 1..m + n
    <3>1. t[i - m] = t[j - m] /\ i - m \in DOMAIN t /\ j - m \in DOMAIN t
      BY <1>1, <1>2, <1>6, <2>2
    <3>2. i - m = j - m
      BY <1>6, <3>1 DEF IsInjective
    <3> QED
      BY <1>1, <2>2, <3>2
  <2>3. ASSUME NEW a \in 1..m, NEW b \in m + 1..m + n, u[a] = u[b] PROVE FALSE
    <3>1. u[a] \in IdsOf(s)
      BY <1>1 DEF IdsOf
    <3>2. b - m \in DOMAIN t /\ u[b] = t[b - m]
      BY <1>1
    <3>3. u[b] \in IdsOf(t)
      BY <3>2 DEF IdsOf
    <3> QED
      BY <1>6, <2>3, <3>1, <3>3
  <2> QED
    BY <1>1, <1>2, <1>6, <2>1, <2>2, <2>3
<1> QED
  BY <1>1, <1>3, <1>4, <1>5, <1>6 DEF u, IsInjective

LEMMA PrefixIds ==
    ASSUME NEW T, NEW s \in Seq(T), NEW n \in 0..Len(s)
    PROVE  /\ SubSeq(s, 1, n) \in Seq(T) /\ Len(SubSeq(s, 1, n)) = n
           /\ IdsOf(SubSeq(s, 1, n)) = {s[i] : i \in 1..n}
           /\ IdsOf(SubSeq(s, 1, n)) \subseteq IdsOf(s)
           /\ IsInjective(s) => IsInjective(SubSeq(s, 1, n))
           /\ n < Len(s) => /\ SubSeq(s, 1, n + 1) = Append(SubSeq(s, 1, n), s[n + 1])
                            /\ s[n + 1] \in T
                            /\ IsInjective(s) => s[n + 1] \notin IdsOf(SubSeq(s, 1, n))
<1> DEFINE p == SubSeq(s, 1, n)
<1>1. /\ p \in Seq(T) /\ Len(p) = n /\ DOMAIN p = 1..n /\ \A i \in 1..n : p[i] = s[i]
      /\ Len(s) \in Nat /\ DOMAIN s = 1..Len(s) /\ \A i \in 1..n : i \in 1..Len(s)
  OBVIOUS
<1>2. n < Len(s) => SubSeq(s, 1, n + 1) = Append(p, s[n + 1]) /\ s[n + 1] \in T
  OBVIOUS
<1> HIDE DEF p
<1>3. IdsOf(p) = {s[i] : i \in 1..n} /\ IdsOf(p) \subseteq IdsOf(s)
  BY <1>1 DEF IdsOf
<1>4. IsInjective(s) => IsInjective(p)
  BY <1>1 DEF IsInjective
<1>5. ASSUME n < Len(s), IsInjective(s), s[n + 1] \in IdsOf(p) PROVE FALSE
  <2>1. PICK i \in 1..n : s[n + 1] = s[i]
    BY <1>3, <1>5
  <2>2. n + 1 \in DOMAIN s /\ i \in DOMAIN s /\ i # n + 1
    BY <1>1, <1>5
  <2> QED
    BY <1>5, <2>1, <2>2 DEF IsInjective
<1> QED
  BY <1>1, <1>2, <1>3, <1>4, <1>5 DEF p

LEMMA TruncateIs ==
    ASSUME NEW T, NEW s \in Seq(T), NEW n \in Nat
    PROVE  /\ LeastOf(n, Len(s)) \in 0..Len(s)
           /\ Truncate(s, n) = SubSeq(s, 1, LeastOf(n, Len(s)))
           /\ Len(Truncate(s, n)) = LeastOf(n, Len(s))
           /\ Len(s) <= n => Truncate(s, n) = s
           /\ Len(Truncate(s, n)) < n => Truncate(s, n) = s
           /\ Truncate(s, n) \in Seq(T) /\ IdsOf(Truncate(s, n)) \subseteq IdsOf(s)
           /\ IsInjective(s) => IsInjective(Truncate(s, n))
<1>1. LeastOf(n, Len(s)) \in 0..Len(s) /\ Len(s) \in Nat
  BY DEF LeastOf
<1>2. Truncate(s, n) = SubSeq(s, 1, LeastOf(n, Len(s)))
  BY DEF Truncate
<1>3. \A m \in 0..Len(s) :
        /\ Len(SubSeq(s, 1, m)) = m /\ SubSeq(s, 1, m) \in Seq(T)
        /\ IdsOf(SubSeq(s, 1, m)) \subseteq IdsOf(s)
        /\ IsInjective(s) => IsInjective(SubSeq(s, 1, m))
  BY PrefixIds
<1>4. SubSeq(s, 1, Len(s)) = s
  OBVIOUS
<1>5. Len(s) <= n => LeastOf(n, Len(s)) = Len(s)
  BY <1>1 DEF LeastOf
<1>6. LeastOf(n, Len(s)) < n => LeastOf(n, Len(s)) = Len(s)
  BY <1>1 DEF LeastOf
<1> QED
  BY <1>1, <1>2, <1>3, <1>4, <1>5, <1>6

(* A filter keeps the elements that are in the set, each as often as it is *)
(* there.                                                                  *)
LEMMA KeepIds ==
    ASSUME NEW T, NEW s \in Seq(T), NEW S
    PROVE  /\ Keep(s, S) \in Seq(T) /\ IdsOf(Keep(s, S)) = IdsOf(s) \cap S
           /\ IsInjective(s) => IsInjective(Keep(s, S))
<1>a. /\ Keep(SubSeq(s, 1, 0), S) = << >>
      /\ \A n \in 0..Len(s) - 1 :
           Keep(SubSeq(s, 1, n + 1), S)
             = IF s[n + 1] \in S THEN Append(Keep(SubSeq(s, 1, n), S), s[n + 1])
               ELSE Keep(SubSeq(s, 1, n), S)
      /\ SubSeq(s, 1, Len(s)) = s
  BY KeepPrefix
<1> DEFINE P(n) == SubSeq(s, 1, n)
           K(n) == Keep(P(n), S)
           Good(n) == /\ K(n) \in Seq(T) /\ IdsOf(K(n)) = IdsOf(P(n)) \cap S
                      /\ IsInjective(s) => IsInjective(K(n))
           U == {n \in 0..Len(s) : Good(n)}
<1>0. Len(s) \in Nat /\ P(Len(s)) = s /\ P(0) = << >>
  OBVIOUS
<1>1. \A n \in 0..Len(s) - 1 :
        K(n + 1) = IF s[n + 1] \in S THEN Append(K(n), s[n + 1]) ELSE K(n)
  BY <1>a
<1>2. \A n \in 0..Len(s) :
         n < Len(s) => /\ P(n + 1) = Append(P(n), s[n + 1]) /\ P(n) \in Seq(T)
                       /\ s[n + 1] \in T
                       /\ IsInjective(s) => s[n + 1] \notin IdsOf(P(n))
  BY PrefixIds
<1>3. Good(0)
  <2>1. << >> \in Seq(T) /\ IdsOf(<< >>) = {} /\ IsInjective(<< >>)
    BY DEF IdsOf, IsInjective
  <2>2. K(0) = << >>
    BY <1>0, KeepEmpty
  <2> QED
    BY <1>0, <2>1, <2>2
<1> HIDE DEF P, K
<1>4. ASSUME NEW n \in 0..Len(s), Good(n), n < Len(s) PROVE Good(n + 1)
  <2> DEFINE e == s[n + 1]
  <2>1. n \in 0..Len(s) - 1
    BY <1>0, <1>4
  <2>2. K(n + 1) = IF e \in S THEN Append(K(n), e) ELSE K(n)
    BY <1>1, <2>1
  <2>3. /\ P(n + 1) = Append(P(n), e) /\ P(n) \in Seq(T) /\ e \in T
        /\ IsInjective(s) => e \notin IdsOf(P(n))
    BY <1>2, <1>4
  <2>a. P(n) \in Seq(T) /\ e \in T
    BY <2>3
  <2>b. IdsOf(Append(P(n), e)) = IdsOf(P(n)) \cup {e}
    BY <2>a, AppendIds
  <2>4. IdsOf(P(n + 1)) = IdsOf(P(n)) \cup {e}
    BY <2>3, <2>b
  <2>5. /\ Append(K(n), e) \in Seq(T) /\ IdsOf(Append(K(n), e)) = IdsOf(K(n)) \cup {e}
        /\ IsInjective(K(n)) /\ e \notin IdsOf(K(n)) => IsInjective(Append(K(n), e))
    BY <1>4, <2>3, AppendIds
  <2> HIDE DEF e
  <2>6. CASE e \in S
    BY <1>4, <2>2, <2>3, <2>4, <2>5, <2>6
  <2>7. CASE e \notin S
    BY <1>4, <2>2, <2>4, <2>7
  <2> QED
    BY <2>6, <2>7
<1> HIDE DEF Good
<1>5. 0 \in U /\ \A n \in 0..Len(s) : n \in U /\ n < Len(s) => n + 1 \in U
  BY <1>0, <1>3, <1>4
<1> HIDE DEF U
<1>6. \A n \in 0..Len(s) : n \in U
  BY <1>0, <1>5, Induction
<1>7. Good(Len(s))
  BY <1>0, <1>6 DEF U
<1> QED
  BY <1>0, <1>7 DEF Good, K

LEMMA KeepAll ==
    ASSUME NEW T, NEW s \in Seq(T), NEW S, IdsOf(s) \subseteq S
    PROVE  Keep(s, S) = s
<1>a. /\ Keep(SubSeq(s, 1, 0), S) = << >>
      /\ \A n \in 0..Len(s) - 1 :
           Keep(SubSeq(s, 1, n + 1), S)
             = IF s[n + 1] \in S THEN Append(Keep(SubSeq(s, 1, n), S), s[n + 1])
               ELSE Keep(SubSeq(s, 1, n), S)
      /\ SubSeq(s, 1, Len(s)) = s
  BY KeepPrefix
<1> DEFINE P(n) == SubSeq(s, 1, n)
           U == {n \in 0..Len(s) : Keep(P(n), S) = P(n)}
<1>0. Len(s) \in Nat /\ P(Len(s)) = s /\ P(0) = << >> /\ DOMAIN s = 1..Len(s)
  OBVIOUS
<1>1. \A n \in 0..Len(s) - 1 :
        Keep(P(n + 1), S) = IF s[n + 1] \in S THEN Append(Keep(P(n), S), s[n + 1]) ELSE Keep(P(n), S)
  BY <1>a
<1>2. \A n \in 0..Len(s) : n < Len(s) => P(n + 1) = Append(P(n), s[n + 1])
  BY PrefixIds
<1>3. Keep(P(0), S) = P(0)
  BY <1>0, KeepEmpty
<1> HIDE DEF P
<1>4. ASSUME NEW n \in 0..Len(s), Keep(P(n), S) = P(n), n < Len(s)
      PROVE  n + 1 \in 0..Len(s) /\ Keep(P(n + 1), S) = P(n + 1)
  <2>1. n \in 0..Len(s) - 1 /\ n + 1 \in DOMAIN s /\ n + 1 \in 0..Len(s)
    BY <1>0, <1>4
  <2>2. s[n + 1] \in S
    BY <2>1 DEF IdsOf
  <2> QED
    BY <1>1, <1>2, <1>4, <2>1, <2>2
<1>5. 0 \in U /\ \A n \in 0..Len(s) : n \in U /\ n < Len(s) => n + 1 \in U
  BY <1>0, <1>3, <1>4
<1> HIDE DEF U
<1>6. \A n \in 0..Len(s) : n \in U
  BY <1>0, <1>5, Induction
<1> QED
  BY <1>0, <1>6 DEF U

(* A longer prefix begins with what a shorter one keeps. *)
LEMMA KeepMore ==
    ASSUME NEW T, NEW s \in Seq(T), NEW S, NEW m \in 0..Len(s), NEW n \in m..Len(s)
    PROVE  LET few == Keep(SubSeq(s, 1, m), S)
               many == Keep(SubSeq(s, 1, n), S)
           IN  /\ few \in Seq(T) /\ many \in Seq(T)
               /\ Len(few) <= Len(many) /\ SubSeq(many, 1, Len(few)) = few
<1>a. /\ Keep(SubSeq(s, 1, 0), S) = << >>
      /\ \A k \in 0..Len(s) - 1 :
           Keep(SubSeq(s, 1, k + 1), S)
             = IF s[k + 1] \in S THEN Append(Keep(SubSeq(s, 1, k), S), s[k + 1])
               ELSE Keep(SubSeq(s, 1, k), S)
      /\ SubSeq(s, 1, Len(s)) = s
  BY KeepPrefix
<1> DEFINE K(k) == Keep(SubSeq(s, 1, k), S)
           few == K(m)
           Good(k) == Len(few) <= Len(K(m + k)) /\ SubSeq(K(m + k), 1, Len(few)) = few
           U == {k \in 0..n - m : Good(k)}
<1>0. Len(s) \in Nat /\ n - m \in Nat /\ m + (n - m) = n
  OBVIOUS
<1>1. \A k \in 0..Len(s) - 1 :
        K(k + 1) = IF s[k + 1] \in S THEN Append(K(k), s[k + 1]) ELSE K(k)
  BY <1>a
<1>2. \A k \in 0..Len(s) : K(k) \in Seq(T)
  <2>1. \A k \in 0..Len(s) : SubSeq(s, 1, k) \in Seq(T)
    BY PrefixIds
  <2> QED
    BY <2>1, KeepIds
<1>3. \A k \in 0..Len(s) - 1 : s[k + 1] \in T
  OBVIOUS
<1> HIDE DEF K
<1>4. few \in Seq(T) /\ Len(few) \in Nat
  BY <1>2
<1>5. Good(0)
  <2>1. K(m + 0) = few /\ SubSeq(few, 1, Len(few)) = few
    BY <1>4
  <2> QED
    BY <1>4, <2>1
<1> HIDE DEF few
<1>6. ASSUME NEW k \in 0..n - m, Good(k), k < n - m PROVE k + 1 \in 0..n - m /\ Good(k + 1)
  <2>1. m + k \in 0..Len(s) - 1 /\ m + (k + 1) = (m + k) + 1 /\ m + k \in 0..Len(s)
        /\ k + 1 \in 0..n - m
    BY <1>0, <1>6
  <2> DEFINE a == K(m + k)
             e == s[(m + k) + 1]
  <2>2. K(m + (k + 1)) = (IF e \in S THEN Append(a, e) ELSE a) /\ a \in Seq(T) /\ e \in T
    BY <1>1, <1>2, <1>3, <2>1
  <2>3. Len(few) <= Len(a) /\ SubSeq(a, 1, Len(few)) = few
    BY <1>6
  <2> HIDE DEF a, e
  <2>4. Len(few) <= Len(Append(a, e)) /\ SubSeq(Append(a, e), 1, Len(few)) = SubSeq(a, 1, Len(few))
    BY <1>4, <2>2, <2>3
  <2> QED
    BY <2>1, <2>2, <2>3, <2>4
<1> HIDE DEF Good
<1>7. 0 \in U /\ \A k \in 0..n - m : k \in U /\ k < n - m => k + 1 \in U
  BY <1>0, <1>5, <1>6
<1> HIDE DEF U
<1>8. \A k \in 0..n - m : k \in U
  BY <1>0, <1>7, Induction
<1>9. Good(n - m)
  BY <1>0, <1>8 DEF U
<1> QED
  BY <1>0, <1>2, <1>9 DEF Good, few, K

(* Filtering the part of a prefix that was not seen continues the filter.  *)
LEMMA KeepRest ==
    ASSUME NEW T, NEW s \in Seq(T), NEW V, NEW W, NEW p \in 0..Len(s), NEW f \in p..Len(s),
           \A i \in 1..p : s[i] \notin W, \A i \in p + 1..Len(s) : s[i] \in W
    PROVE  Keep(SubSeq(s, 1, p), V) \o Keep(Keep(SubSeq(s, 1, f), W), V) = Keep(SubSeq(s, 1, f), V)
<1> DEFINE Kw(n) == Keep(SubSeq(s, 1, n), W)
           Kv(n) == Keep(SubSeq(s, 1, n), V)
           Good(n) == /\ n <= p => Kw(n) = << >>
                      /\ n >= p => Kv(p) \o Keep(Kw(n), V) = Kv(n)
           U == {n \in 0..Len(s) : Good(n)}
<1>0. Len(s) \in Nat /\ SubSeq(s, 1, 0) = << >>
  OBVIOUS
<1>1. /\ \A n \in 0..Len(s) - 1 : Kw(n + 1) = IF s[n + 1] \in W THEN Append(Kw(n), s[n + 1]) ELSE Kw(n)
      /\ \A n \in 0..Len(s) - 1 : Kv(n + 1) = IF s[n + 1] \in V THEN Append(Kv(n), s[n + 1]) ELSE Kv(n)
  BY KeepPrefix
<1>2. \A n \in 0..Len(s) : Kw(n) \in Seq(T) /\ Kv(n) \in Seq(T)
  <2>1. \A n \in 0..Len(s) : SubSeq(s, 1, n) \in Seq(T)
    BY PrefixIds
  <2> QED
    BY <2>1, KeepIds
<1>3. \A n \in 0..Len(s) - 1 : s[n + 1] \in T
  OBVIOUS
<1>4. Kw(0) = << >> /\ Kv(0) = << >>
  BY <1>0, KeepEmpty
<1> HIDE DEF Kw, Kv
<1>5. ASSUME Kw(p) = << >> PROVE Kv(p) \o Keep(Kw(p), V) = Kv(p)
  <2>1. Keep(Kw(p), V) = << >> /\ Kv(p) \in Seq(T)
    BY <1>2, <1>5, KeepEmpty
  <2> QED
    BY <2>1
<1>6. Good(0)
  BY <1>4, <1>5
<1>7. ASSUME NEW n \in 0..Len(s), Good(n), n < Len(s) PROVE n + 1 \in 0..Len(s) /\ Good(n + 1)
  <2> DEFINE e == s[n + 1]
  <2>1. n \in 0..Len(s) - 1 /\ n + 1 \in 0..Len(s)
    BY <1>0, <1>7
  <2>2. /\ Kw(n + 1) = IF e \in W THEN Append(Kw(n), e) ELSE Kw(n)
        /\ Kv(n + 1) = IF e \in V THEN Append(Kv(n), e) ELSE Kv(n)
        /\ e \in T /\ Kw(n) \in Seq(T) /\ Kv(n) \in Seq(T) /\ Kv(p) \in Seq(T)
    BY <1>1, <1>2, <1>3, <2>1
  <2>3. CASE n + 1 <= p
    <3>1. e \notin W /\ n <= p
      BY <2>1, <2>3
    <3>2. Kw(n + 1) = << >>
      BY <1>7, <2>2, <3>1
    <3>3. n + 1 >= p => n + 1 = p
      BY <2>1, <2>3
    <3> QED
      BY <1>5, <2>1, <2>3, <3>2, <3>3
  <2>4. CASE ~(n + 1 <= p)
    <3>1. e \in W /\ n >= p
      BY <2>1, <2>4
    <3> DEFINE x == Kw(n)
    <3>2. Kw(n + 1) = Append(x, e) /\ Kv(p) \o Keep(x, V) = Kv(n) /\ x \in Seq(T)
      BY <1>7, <2>2, <3>1
    <3> HIDE DEF x, e
    <3>3. Keep(x, V) \in Seq(T)
      BY <3>2, KeepIds
    <3>4. Keep(Append(x, e), V) = IF e \in V THEN Append(Keep(x, V), e) ELSE Keep(x, V)
      BY <2>2, <3>2, KeepAppend
    <3>5. Kv(p) \o Append(Keep(x, V), e) = Append(Kv(p) \o Keep(x, V), e)
      BY <2>2, <3>3
    <3>6. Kv(p) \o Keep(Kw(n + 1), V) = Kv(n + 1)
      <4>1. CASE e \in V
        BY <4>1, <2>2, <3>2, <3>4, <3>5
      <4>2. CASE e \notin V
        BY <4>2, <2>2, <3>2, <3>4
      <4> QED
        BY <4>1, <4>2
    <3> QED
      BY <2>1, <2>4, <3>6
  <2> QED
    BY <2>3, <2>4
<1> HIDE DEF Good
<1>8. 0 \in U /\ \A n \in 0..Len(s) : n \in U /\ n < Len(s) => n + 1 \in U
  BY <1>0, <1>6, <1>7
<1> HIDE DEF U
<1>9. \A n \in 0..Len(s) : n \in U
  BY <1>0, <1>8, Induction
<1>10. Good(f) /\ f >= p
  BY <1>0, <1>9 DEF U
<1> QED
  BY <1>10 DEF Good, Kw, Kv

-----------------------------------------------------------------------------
(* Ranking: the keys are numbers, and a sort rearranges.                   *)
Hit == [id : Nat, text : Int, vector : Int]
HitIds(hits) == {hits[i].id : i \in DOMAIN hits}
DistinctIds(hits) == \A i, j \in DOMAIN hits : hits[i].id = hits[j].id => i = j

(* The i-th hit has its place: as many hits are ahead of it as places.  No *)
(* two have the same, because Ahead is a strict total order.               *)
LEMMA SortHitsPermutes ==
    ASSUME NEW hits \in Seq(Hit), DistinctIds(hits), NEW key, \A i \in DOMAIN hits : key[i] \in Int
    PROVE  /\ SortHits(hits, key) \in Seq(Hit) /\ Len(SortHits(hits, key)) = Len(hits)
           /\ HitIds(SortHits(hits, key)) = HitIds(hits)
           /\ DistinctIds(SortHits(hits, key))
<1> DEFINE n == Len(hits)
           D == 1..n
           Before(i) == {j \in D : Ahead(hits, key, j, i)}
           rank == [i \in D |-> Cardinality(Before(i)) + 1]
           Place(m) == CHOOSE i \in D : Cardinality(Before(i)) = m - 1
           sorted == SortHits(hits, key)
<1>1. /\ n \in Nat /\ DOMAIN hits = D
      /\ \A i \in D : hits[i] \in Hit /\ hits[i].id \in Nat /\ key[i] \in Int
  <2>1. n \in Nat /\ DOMAIN hits = D /\ \A i \in D : hits[i] \in Hit
    OBVIOUS
  <2>2. \A i \in D : key[i] \in Int
    BY <2>1
  <2>3. \A h \in Hit : h.id \in Nat
    BY DEF Hit
  <2> QED
    BY <2>1, <2>2, <2>3
<1>2. IsFiniteSet(D) /\ Cardinality(D) = n
  BY <1>1, FS_Interval
<1>3. ASSUME NEW i \in D
      PROVE  /\ ~Ahead(hits, key, i, i)
             /\ \A j \in D : i # j => Ahead(hits, key, i, j) \/ Ahead(hits, key, j, i)
             /\ \A j, k \in D : Ahead(hits, key, i, j) /\ Ahead(hits, key, j, k) => Ahead(hits, key, i, k)
  <2>1. \A j \in D : i # j => hits[i].id # hits[j].id
    BY <1>1 DEF DistinctIds
  <2> QED
    BY <1>1, <2>1 DEF Ahead
<1>4. sorted = [m \in D |-> hits[Place(m)]]
  BY <1>1 DEF SortHits
<1> HIDE DEF sorted, n, D
<1>5. ASSUME NEW i \in D
      PROVE  IsFiniteSet(Before(i)) /\ Cardinality(Before(i)) \in 0..n - 1
  <2>1. Before(i) \in SUBSET D /\ i \notin Before(i)
    BY <1>3
  <2>2. /\ IsFiniteSet(Before(i)) /\ Cardinality(Before(i)) <= Cardinality(D)
        /\ Cardinality(D) = Cardinality(Before(i)) => D = Before(i)
    <3> HIDE DEF Before
    <3> QED
      BY <1>2, <2>1, FS_Subset
  <2>3. Cardinality(Before(i)) \in Nat
    BY <2>2, FS_CardinalityType
  <2>4. Cardinality(Before(i)) # n
    BY <1>2, <2>1, <2>2
  <2> HIDE DEF Before
  <2> QED
    BY <1>1, <1>2, <2>2, <2>3, <2>4
<1>6. ASSUME NEW i \in D, NEW j \in D, Ahead(hits, key, i, j)
      PROVE  Cardinality(Before(i)) < Cardinality(Before(j))
  <2>1. Before(i) \in SUBSET Before(j) /\ i \in Before(j) /\ i \notin Before(i)
    BY <1>3, <1>6
  <2>2. IsFiniteSet(Before(j)) /\ Cardinality(Before(i)) \in Nat /\ Cardinality(Before(j)) \in Nat
    <3> HIDE DEF Before
    <3> QED
      BY <1>5, FS_CardinalityType
  <2> HIDE DEF Before
  <2>3. /\ Cardinality(Before(i)) <= Cardinality(Before(j))
        /\ Cardinality(Before(j)) = Cardinality(Before(i)) => Before(j) = Before(i)
    BY <2>1, <2>2, FS_Subset
  <2>4. Before(j) # Before(i)
    BY <2>1
  <2> QED
    BY <2>2, <2>3, <2>4
<1>7. ASSUME NEW i \in D, NEW j \in D, Cardinality(Before(i)) = Cardinality(Before(j)) PROVE i = j
  <2>1. Cardinality(Before(i)) \in Nat
    <3> HIDE DEF Before
    <3> QED
      BY <1>5, FS_CardinalityType
  <2> HIDE DEF Before
  <2>2. ~(Ahead(hits, key, i, j)) /\ ~(Ahead(hits, key, j, i))
    BY <1>6, <1>7, <2>1
  <2> QED
    BY <1>3, <2>2
<1> HIDE DEF Before
<1>8. rank \in Injection(D, D)
  <2>1. \A i \in D : Cardinality(Before(i)) + 1 \in D /\ Cardinality(Before(i)) \in Int
    BY <1>1, <1>5 DEF D
  <2>2. \A i, j \in D : rank[i] = rank[j] => i = j
    BY <1>7, <2>1
  <2> QED
    BY <2>1, <2>2 DEF Injection, IsInjective
<1>9. rank \in Surjection(D, D)
  BY <1>2, <1>8, FS_Injection
<1>10. ASSUME NEW m \in D PROVE Place(m) \in D /\ Cardinality(Before(Place(m))) = m - 1
  <2>1. PICK i \in D : rank[i] = m
    BY <1>9 DEF Surjection
  <2>2. Cardinality(Before(i)) = m - 1
    BY <1>1, <1>5, <2>1
  <2> QED
    BY <2>2
<1>11. ASSUME NEW i \in D PROVE \E m \in D : Place(m) = i
  <2>1. PICK m \in D : m = rank[i]
    BY <1>8 DEF Injection
  <2>2. Cardinality(Before(Place(m))) = Cardinality(Before(i))
    BY <1>1, <1>5, <1>10, <2>1
  <2>3. Place(m) \in D
    BY <1>10
  <2> HIDE DEF Place
  <2> QED
    BY <1>7, <2>2, <2>3
<1> HIDE DEF Place, rank
<1>12. sorted \in Seq(Hit) /\ Len(sorted) = n /\ DOMAIN sorted = D
  <2>1. \A m \in D : hits[Place(m)] \in Hit
    BY <1>1, <1>10
  <2> QED
    BY <1>1, <1>4, <2>1 DEF D
<1>13. HitIds(sorted) = HitIds(hits)
  <2>1. HitIds(sorted) \subseteq HitIds(hits)
    BY <1>1, <1>4, <1>10, <1>12 DEF HitIds
  <2>2. ASSUME NEW i \in D PROVE hits[i].id \in HitIds(sorted)
    <3>1. PICK m \in D : Place(m) = i
      BY <1>11
    <3> QED
      BY <1>4, <1>12, <3>1 DEF HitIds
  <2> QED
    BY <1>1, <2>1, <2>2 DEF HitIds
<1>14. ASSUME NEW i \in D, NEW j \in D, sorted[i].id = sorted[j].id PROVE i = j
  <2>1. hits[Place(i)].id = hits[Place(j)].id /\ Place(i) \in D /\ Place(j) \in D
    BY <1>4, <1>10, <1>14
  <2>2. Place(i) = Place(j)
    BY <1>1, <2>1 DEF DistinctIds
  <2>3. i - 1 = j - 1
    BY <1>10, <2>2
  <2> QED
    BY <1>1, <2>3 DEF D
<1> QED
  BY <1>12, <1>13, <1>14 DEF DistinctIds, sorted, n

(* A part of the hits, in any order. *)
LEMMA PartOfHits ==
    ASSUME NEW hits \in Seq(Hit), DistinctIds(hits)
    PROVE  /\ IsInjective(hits)
           /\ \A part \in Seq(Hit) : IsInjective(part) /\ IdsOf(part) \subseteq IdsOf(hits)
                => DistinctIds(part) /\ HitIds(part) \subseteq HitIds(hits)
<1>1. IsInjective(hits)
  BY DEF IsInjective, DistinctIds
<1>2. ASSUME NEW part \in Seq(Hit), IsInjective(part), IdsOf(part) \subseteq IdsOf(hits)
      PROVE  DistinctIds(part) /\ HitIds(part) \subseteq HitIds(hits)
  <2>1. \A i \in DOMAIN part : \E j \in DOMAIN hits : part[i] = hits[j]
    BY <1>2 DEF IdsOf
  <2>2. ASSUME NEW i \in DOMAIN part, NEW j \in DOMAIN part, part[i].id = part[j].id PROVE i = j
    <3>1. PICK a \in DOMAIN hits : part[i] = hits[a]
      BY <2>1
    <3>2. PICK b \in DOMAIN hits : part[j] = hits[b]
      BY <2>1
    <3>3. a = b
      BY <2>2, <3>1, <3>2 DEF DistinctIds
    <3> QED
      BY <1>2, <3>1, <3>2, <3>3 DEF IsInjective
  <2> QED
    BY <2>1, <2>2 DEF DistinctIds, HitIds
<1> QED
  BY <1>1, <1>2

LEMMA TruncateHits ==
    ASSUME NEW hits \in Seq(Hit), DistinctIds(hits), NEW n \in Nat
    PROVE  /\ Truncate(hits, n) \in Seq(Hit) /\ DistinctIds(Truncate(hits, n))
           /\ HitIds(Truncate(hits, n)) \subseteq HitIds(hits)
<1>1. IsInjective(hits)
  BY PartOfHits
<1>2. /\ Truncate(hits, n) \in Seq(Hit) /\ IdsOf(Truncate(hits, n)) \subseteq IdsOf(hits)
      /\ IsInjective(Truncate(hits, n))
  BY <1>1, TruncateIs
<1> QED
  BY <1>2, PartOfHits

LEMMA AgeDecayIsInt ==
    ASSUME NEW age \in Int, NEW halfLife \in Nat
    PROVE  AgeDecay(age, halfLife) \in Int
<1>1. Len(Halved) = 8 /\ \A i \in 1..8 : Halved[i] \in Int
  <2>1. Len(Halved) = 8
    BY DEF Halved
  <2>2. \A i \in 1..8 : Halved[i] \in Int
    BY DEF Halved
  <2> QED
    BY <2>1, <2>2
<1>2. CASE halfLife # 0
  <2> DEFINE passed == GreatestOf(age, 0) \div halfLife
  <2>1. GreatestOf(age, 0) \in Nat /\ halfLife > 0
    BY <1>2 DEF GreatestOf
  <2>2. passed \in Nat
    <3> HIDE DEF GreatestOf
    <3> QED BY <2>1
  <2> HIDE DEF passed
  <2>3. 1 + LeastOf(passed, Len(Halved) - 1) \in 1..8
    BY <1>1, <2>2 DEF LeastOf
  <2> QED
    BY <1>1, <1>2, <2>3 DEF AgeDecay, passed
<1> QED
  BY <1>2 DEF AgeDecay

LEMMA ClampIsInt ==
    ASSUME NEW x \in Int, NEW low \in Int, NEW high \in Int
    PROVE  Clamp(x, low, high) \in Int
BY DEF Clamp, LeastOf, GreatestOf

LEMMA EffectiveConfidenceIsInt ==
    ASSUME NEW fact \in StoredFact, NEW t \in Int
    PROVE  EffectiveConfidence(fact, t) \in Int
<1>1. /\ fact.confidence \in Nat /\ fact.valid_from \in Int /\ fact.half_life \in Nat
      /\ fact.source_weight \in Nat
  BY DEF StoredFact
<1> DEFINE decay == AgeDecay(t - fact.valid_from, fact.half_life)
<1>2. decay \in Int
  BY <1>1, AgeDecayIsInt
<1> HIDE DEF decay
<1>3. fact.confidence * decay \in Int
  BY <1>1, <1>2
<1>4. fact.confidence * decay * fact.source_weight \in Int
  BY <1>1, <1>3
<1>5. (fact.confidence * decay * fact.source_weight) \div 10000 \in Int
  <2> DEFINE product == fact.confidence * decay * fact.source_weight
  <2>1. product \in Int
    BY <1>4
  <2> HIDE DEF product
  <2>2. product \div 10000 \in Int
    BY <2>1
  <2> QED
    BY <2>2 DEF product
<1> QED
  BY <1>5, ClampIsInt DEF EffectiveConfidence, decay

LEMMA TemporalSignalIsInt ==
    ASSUME NEW fact \in StoredFact, NEW intent \in Intents, NEW op \in Operators, NEW t \in Int
    PROVE  TemporalSignal(fact, intent, op, t) \in Int
<1> DEFINE conf == Clamp(EffectiveConfidence(fact, t), 20, 100)
           recency == AgeDecay(t - fact.valid_from, fact.half_life)
           validity == IF IsCurrentlyValid(fact) THEN 1 ELSE -1
<1>1. conf \in Int
  BY EffectiveConfidenceIsInt, ClampIsInt
<1>2. recency \in Int
  BY AgeDecayIsInt DEF StoredFact
<1>3. validity \in Int
  OBVIOUS
<1> HIDE DEF conf, recency, validity
<1>4. PointSignal(fact, op, t, conf) \in Int
  <2>1. 100 * conf \in Int /\ 110 * conf \in Int /\ 30 * conf \in Int /\ 105 * conf \in Int
        /\ 20 * conf \in Int /\ 90 * conf \in Int
    BY <1>1
  <2> QED
    BY <2>1 DEF PointSignal, Operators
<1>5. validity * (50 + recency \div 2) * conf \in Int
  <2>1. recency \div 2 \in Int
    BY <1>2
  <2>2. validity * (50 + recency \div 2) \in Int
    BY <1>3, <2>1
  <2> QED
    BY <1>1, <2>2
<1>6. 100 * conf \in Int
  BY <1>1
<1>7. TemporalSignal(fact, intent, op, t) =
        CASE intent = "timeless" -> 0
          [] intent = "current" -> validity * (50 + recency \div 2) * conf
          [] intent = "point" -> PointSignal(fact, op, t, conf)
          [] intent = "interval" -> IF Overlaps(fact, t) THEN 100 * conf ELSE -10000
  BY DEF TemporalSignal, conf, recency, validity
<1> QED
  BY <1>4, <1>5, <1>6, <1>7 DEF Intents

LEMMA ContributionIsInt ==
    ASSUME NEW weight \in Nat, NEW ids \in Seq(Nat), NEW id
    PROVE  Contribution(weight, ids, id) \in Int
<1> DEFINE rank == {i \in DOMAIN ids : ids[i] = id}
           i == CHOOSE x \in rank : TRUE
<1>1. rank # {} => i \in 1..Len(ids)
  OBVIOUS
<1>2. Len(ids) \in Nat /\ RankConstant \in Nat /\ RankConstant > 0
  BY RankConstantAssumption
<1>3. Contribution(weight, ids, id) =
        IF rank = {} THEN 0 ELSE (weight * 100000) \div (RankConstant + i)
  BY DEF Contribution
<1> HIDE DEF rank, i
<1>4. ASSUME rank # {} PROVE (weight * 100000) \div (RankConstant + i) \in Int
  <2> DEFINE d == RankConstant + i
             w == weight * 100000
  <2>1. d \in Nat /\ d > 0 /\ w \in Int
    BY <1>1, <1>2, <1>4
  <2> HIDE DEF d, w
  <2>2. w \div d \in Int
    BY <2>1
  <2> QED
    BY <2>2 DEF d, w
<1> QED
  BY <1>3, <1>4

LEMMA HitKeys ==
    ASSUME NEW h \in Hit
    PROVE  Final(h) \in Int /\ SemanticCore(h) \in Int
<1>1. h.text \in Int /\ h.vector \in Int
  BY DEF Hit
<1> QED
  BY <1>1 DEF Final, SemanticCore

(* Fusion gives each candidate once. *)
LEMMA FuseHitsOnce ==
    ASSUME NEW texts \in Seq(Nat), NEW vectors \in Seq(Nat), NEW arrival \in Seq(Nat),
           IsInjective(arrival), NEW n \in Nat
    PROVE  /\ Fuse(texts, vectors, arrival, n) \in Seq(Hit)
           /\ DistinctIds(Fuse(texts, vectors, arrival, n))
           /\ HitIds(Fuse(texts, vectors, arrival, n)) \subseteq IdsOf(arrival)
<1> DEFINE hits == [i \in DOMAIN arrival |->
                      [id |-> arrival[i],
                       text |-> Contribution(TextWeight, texts, arrival[i]),
                       vector |-> Contribution(VectorWeight, vectors, arrival[i])]]
           key == [i \in DOMAIN hits |-> Final(hits[i])]
<1>0. DOMAIN arrival = 1..Len(arrival) /\ Len(arrival) \in Nat
      /\ \A i \in DOMAIN arrival : arrival[i] \in Nat
  OBVIOUS
<1>1. ASSUME NEW i \in DOMAIN arrival PROVE hits[i] \in Hit /\ hits[i].id = arrival[i]
  <2>1. /\ Contribution(TextWeight, texts, arrival[i]) \in Int
        /\ Contribution(VectorWeight, vectors, arrival[i]) \in Int
    BY ContributionIsInt, WeightsAssumption
  <2> QED
    BY <1>0, <2>1 DEF Hit
<1>2. Fuse(texts, vectors, arrival, n) = Truncate(SortHits(hits, key), n)
  BY DEF Fuse
<1>3. DOMAIN hits = DOMAIN arrival
  OBVIOUS
<1>4. hits \in Seq(Hit)
  <2>1. hits = [i \in 1..Len(arrival) |-> hits[i]]
    BY <1>0, <1>3
  <2> HIDE DEF hits
  <2> QED
    BY <1>0, <1>1, <2>1
<1> HIDE DEF hits
<1>5. \A i \in DOMAIN hits : key[i] \in Int
  <2>1. \A i \in DOMAIN hits : Final(hits[i]) \in Int
    BY <1>1, <1>3, HitKeys
  <2> QED
    BY <2>1
<1>6. DistinctIds(hits) /\ HitIds(hits) \subseteq IdsOf(arrival)
  BY <1>1, <1>3 DEF DistinctIds, HitIds, IdsOf, IsInjective
<1> HIDE DEF key
<1>7. /\ SortHits(hits, key) \in Seq(Hit) /\ DistinctIds(SortHits(hits, key))
      /\ HitIds(SortHits(hits, key)) \subseteq HitIds(hits)
  BY <1>4, <1>5, <1>6, SortHitsPermutes
<1>8. /\ Truncate(SortHits(hits, key), n) \in Seq(Hit) /\ DistinctIds(Truncate(SortHits(hits, key), n))
      /\ HitIds(Truncate(SortHits(hits, key), n)) \subseteq HitIds(SortHits(hits, key))
  BY <1>7, TruncateHits
<1> QED
  BY <1>2, <1>6, <1>7, <1>8

(* Any ranking by a key, cut short, gives each of the hits at most once. *)
LEMMA SortedHitsOnce ==
    ASSUME NEW hits \in Seq(Hit), DistinctIds(hits), NEW key, \A i \in DOMAIN hits : key[i] \in Int,
           NEW n \in Nat
    PROVE  /\ Truncate(SortHits(hits, key), n) \in Seq(Hit)
           /\ DistinctIds(Truncate(SortHits(hits, key), n))
           /\ HitIds(Truncate(SortHits(hits, key), n)) \subseteq HitIds(hits)
<1>1. /\ SortHits(hits, key) \in Seq(Hit) /\ DistinctIds(SortHits(hits, key))
      /\ HitIds(SortHits(hits, key)) \subseteq HitIds(hits)
  BY SortHitsPermutes
<1>2. /\ Truncate(SortHits(hits, key), n) \in Seq(Hit) /\ DistinctIds(Truncate(SortHits(hits, key), n))
      /\ HitIds(Truncate(SortHits(hits, key), n)) \subseteq HitIds(SortHits(hits, key))
  BY <1>1, TruncateHits
<1> QED
  BY <1>1, <1>2

LEMMA RerankTimelessOnce ==
    ASSUME NEW hits \in Seq(Hit), DistinctIds(hits), NEW k \in Nat
    PROVE  /\ RerankTimeless(hits, k) \in Seq(Hit) /\ DistinctIds(RerankTimeless(hits, k))
           /\ HitIds(RerankTimeless(hits, k)) \subseteq HitIds(hits)
<1> DEFINE w == TimelessWeights(hits)
           score == [i \in DOMAIN hits |->
                       w[1] * hits[i].vector + w[2] * hits[i].text + 2 * Final(hits[i])]
<1>1. w[1] \in Int /\ w[2] \in Int
  <2>1. w \in {<<90, 10>>, <<75, 25>>, <<60, 40>>}
    BY Zenon DEF TimelessWeights
  <2> HIDE DEF w
  <2> QED
    BY <2>1
<1>2. RerankTimeless(hits, k) = Truncate(SortHits(hits, score), k)
  BY DEF RerankTimeless
<1> HIDE DEF w
<1>3. \A i \in DOMAIN hits : score[i] \in Int
  <2> SUFFICES ASSUME NEW i \in DOMAIN hits PROVE score[i] \in Int
    OBVIOUS
  <2>1. Final(hits[i]) \in Int
    BY HitKeys
  <2>2. hits[i].vector \in Int /\ hits[i].text \in Int
    <3>1. hits[i] \in Hit
      OBVIOUS
    <3> QED
      BY <3>1 DEF Hit
  <2>3. w[1] * hits[i].vector \in Int /\ w[2] * hits[i].text \in Int
    BY <1>1, <2>2
  <2> QED
    BY <2>1, <2>3
<1> HIDE DEF score
<1>4. /\ Truncate(SortHits(hits, score), k) \in Seq(Hit)
      /\ DistinctIds(Truncate(SortHits(hits, score), k))
      /\ HitIds(Truncate(SortHits(hits, score), k)) \subseteq HitIds(hits)
  BY <1>3, SortedHitsOnce
<1> QED
  BY <1>2, <1>4

LEMMA FeasibleHits ==
    ASSUME NEW hits \in Seq(Hit), DistinctIds(hits), NEW signal
    PROVE  /\ Feasible(hits, signal) \in Seq(Hit) /\ DistinctIds(Feasible(hits, signal))
           /\ HitIds(Feasible(hits, signal)) \subseteq HitIds(hits)
<1> DEFINE S == {h \in {hits[i] : i \in DOMAIN hits} : signal[h.id] > 0}
           kept == Keep(hits, S)
<1>1. IsInjective(hits)
  BY PartOfHits
<1>2. /\ kept \in Seq(Hit) /\ IdsOf(kept) = IdsOf(hits) \cap S
      /\ IsInjective(hits) => IsInjective(kept)
  <2> HIDE DEF S
  <2> QED
    BY KeepIds
<1>3. Feasible(hits, signal) = IF kept = <<>> THEN hits ELSE kept
  BY DEF Feasible
<1> HIDE DEF kept
<1>4. IsInjective(kept) /\ IdsOf(kept) \subseteq IdsOf(hits)
  BY <1>1, <1>2
<1>5. DistinctIds(kept) /\ HitIds(kept) \subseteq HitIds(hits)
  BY <1>2, <1>4, PartOfHits
<1> QED
  BY <1>2, <1>3, <1>5

LEMMA RerankTemporalOnce ==
    ASSUME NEW hits \in Seq(Hit), DistinctIds(hits), NEW k \in Nat, NEW intent \in Intents,
           intent # "timeless", NEW signal, \A id \in HitIds(hits) : signal[id] \in Int
    PROVE  /\ RerankTemporal(hits, k, intent, signal) \in Seq(Hit)
           /\ DistinctIds(RerankTemporal(hits, k, intent, signal))
           /\ HitIds(RerankTemporal(hits, k, intent, signal)) \subseteq HitIds(hits)
<1> DEFINE kept == Feasible(hits, signal)
           score == [i \in DOMAIN kept |->
                       SemanticCore(kept[i]) + SignalWeight(intent) * 100 * signal[kept[i].id]]
<1>1. kept \in Seq(Hit) /\ DistinctIds(kept) /\ HitIds(kept) \subseteq HitIds(hits)
  BY FeasibleHits
<1>2. RerankTemporal(hits, k, intent, signal) = Truncate(SortHits(kept, score), k)
  BY DEF RerankTemporal
<1> HIDE DEF kept
<1>3. SignalWeight(intent) \in Int
  BY DEF SignalWeight, Intents
<1>4. \A i \in DOMAIN kept : score[i] \in Int
  <2> SUFFICES ASSUME NEW i \in DOMAIN kept PROVE score[i] \in Int
    OBVIOUS
  <2>1. SemanticCore(kept[i]) \in Int
    BY <1>1, HitKeys
  <2>2. signal[kept[i].id] \in Int
    BY <1>1 DEF HitIds
  <2> HIDE DEF SignalWeight, SemanticCore
  <2>3. SignalWeight(intent) * 100 \in Int
    BY <1>3
  <2>4. SignalWeight(intent) * 100 * signal[kept[i].id] \in Int
    BY <2>2, <2>3
  <2> QED
    BY <2>1, <2>4
<1> HIDE DEF score
<1>5. /\ Truncate(SortHits(kept, score), k) \in Seq(Hit)
      /\ DistinctIds(Truncate(SortHits(kept, score), k))
      /\ HitIds(Truncate(SortHits(kept, score), k)) \subseteq HitIds(kept)
  BY <1>1, <1>4, SortedHitsOnce
<1> QED
  BY <1>1, <1>2, <1>5

(* Reranking drops hits and reorders them; it never invents or repeats one. *)
LEMMA RerankOnce ==
    ASSUME NEW hits \in Seq(Hit), DistinctIds(hits), NEW resolved,
           \A id \in HitIds(hits) : resolved[id] \in StoredFact,
           NEW k \in Nat, NEW intent \in Intents, NEW op \in Operators, NEW t \in Int
    PROVE  /\ Rerank(hits, resolved, k, intent, op, t) \in Seq(Hit)
           /\ DistinctIds(Rerank(hits, resolved, k, intent, op, t))
           /\ HitIds(Rerank(hits, resolved, k, intent, op, t)) \subseteq HitIds(hits)
<1> DEFINE core == [i \in DOMAIN hits |-> SemanticCore(hits[i])]
           n == IF intent = "timeless" THEN StageOneTimeless ELSE StageOneTemporal
           pruned == Truncate(SortHits(hits, core), n)
           signal == [id \in {pruned[i].id : i \in DOMAIN pruned} |->
                        TemporalSignal(resolved[id], intent, op, t)]
<1>0. Rerank(hits, resolved, k, intent, op, t) =
        IF intent = "timeless" THEN RerankTimeless(pruned, k)
        ELSE RerankTemporal(pruned, k, intent, signal)
  BY DEF Rerank
<1>1. n \in Nat
  BY StagesAssumption
<1>2. \A i \in DOMAIN hits : core[i] \in Int
  <2>1. \A i \in DOMAIN hits : SemanticCore(hits[i]) \in Int
    BY HitKeys
  <2> QED
    BY <2>1
<1> HIDE DEF core, n
<1>3. pruned \in Seq(Hit) /\ DistinctIds(pruned) /\ HitIds(pruned) \subseteq HitIds(hits)
  BY <1>1, <1>2, SortedHitsOnce
<1> HIDE DEF pruned
<1>4. \A id \in HitIds(pruned) : signal[id] \in Int
  <2> SUFFICES ASSUME NEW id \in HitIds(pruned) PROVE signal[id] \in Int
    OBVIOUS
  <2>1. TemporalSignal(resolved[id], intent, op, t) \in Int
    BY <1>3, TemporalSignalIsInt
  <2> QED
    BY <2>1 DEF HitIds
<1> HIDE DEF signal
<1>5. /\ RerankTimeless(pruned, k) \in Seq(Hit) /\ DistinctIds(RerankTimeless(pruned, k))
      /\ HitIds(RerankTimeless(pruned, k)) \subseteq HitIds(pruned)
  BY <1>3, RerankTimelessOnce
<1>6. intent # "timeless" =>
        /\ RerankTemporal(pruned, k, intent, signal) \in Seq(Hit)
        /\ DistinctIds(RerankTemporal(pruned, k, intent, signal))
        /\ HitIds(RerankTemporal(pruned, k, intent, signal)) \subseteq HitIds(pruned)
  BY <1>3, <1>4, RerankTemporalOnce
<1> QED
  BY <1>0, <1>3, <1>5, <1>6

-----------------------------------------------------------------------------
(* Every insertion keeps the entries and adds one.                         *)
LEMMA InsertedIds ==
    ASSUME NEW T, NEW s \in Seq(T), IsInjective(s), NEW e \in T, e \notin IdsOf(s),
           NEW k \in 1..Len(s) + 1
    PROVE  /\ InsertAt(s, k, e) \in Seq(T) /\ IsInjective(InsertAt(s, k, e))
           /\ IdsOf(InsertAt(s, k, e)) = IdsOf(s) \cup {e}
<1> DEFINE a == SubSeq(s, 1, k - 1)
           c == SubSeq(s, k, Len(s))
           n == Len(s)
<1>1. /\ n \in Nat /\ DOMAIN s = 1..n
      /\ a \in Seq(T) /\ DOMAIN a = 1..k - 1 /\ \A i \in 1..k - 1 : a[i] = s[i]
      /\ c \in Seq(T) /\ DOMAIN c = 1..n - k + 1 /\ \A i \in 1..n - k + 1 : c[i] = s[k + i - 1]
  OBVIOUS
<1>2. <<e>> \in Seq(T) /\ DOMAIN <<e>> = 1..1 /\ <<e>>[1] = e
  OBVIOUS
<1>3. InsertAt(s, k, e) = a \o <<e>> \o c
  BY DEF InsertAt
<1> HIDE DEF a, c, n
<1>4. /\ \A i \in 1..n : i \in 1..k - 1 \/ (i - k + 1 \in 1..n - k + 1 /\ k + (i - k + 1) - 1 = i)
      /\ \A i \in 1..k - 1 : i \in 1..n
      /\ \A i \in 1..n - k + 1 : k + i - 1 \in 1..n /\ k + i - 1 \notin 1..k - 1
  BY <1>1 DEF n
<1>5. IdsOf(a) \cup IdsOf(c) = IdsOf(s)
  <2>1. IdsOf(a) \subseteq IdsOf(s)
    BY <1>1, <1>4 DEF IdsOf
  <2>2. IdsOf(c) \subseteq IdsOf(s)
    <3> SUFFICES ASSUME NEW i \in 1..n - k + 1 PROVE c[i] \in IdsOf(s)
      BY <1>1 DEF IdsOf
    <3>1. c[i] = s[k + i - 1] /\ k + i - 1 \in DOMAIN s
      BY <1>1, <1>4
    <3> QED
      BY <3>1 DEF IdsOf
  <2>3. ASSUME NEW i \in 1..n PROVE s[i] \in IdsOf(a) \cup IdsOf(c)
    <3>1. CASE i \in 1..k - 1
      BY <1>1, <3>1 DEF IdsOf
    <3>2. CASE i - k + 1 \in 1..n - k + 1 /\ k + (i - k + 1) - 1 = i
      <4>1. c[i - k + 1] = s[i]
        BY <1>1, <3>2
      <4> QED
        BY <1>1, <3>2, <4>1 DEF IdsOf
    <3> QED
      BY <1>4, <3>1, <3>2
  <2>4. IdsOf(s) \subseteq IdsOf(a) \cup IdsOf(c)
    <3> SUFFICES ASSUME NEW i \in 1..n PROVE s[i] \in IdsOf(a) \cup IdsOf(c)
      BY <1>1 DEF IdsOf
    <3> QED
      BY <2>3
  <2> QED
    BY <2>1, <2>2, <2>4
<1>6. IdsOf(a) \cap IdsOf(c) = {}
  <2> SUFFICES ASSUME NEW i \in 1..k - 1, NEW j \in 1..n - k + 1, a[i] = c[j] PROVE FALSE
    BY <1>1 DEF IdsOf
  <2>1. s[i] = s[k + j - 1] /\ i # k + j - 1
    BY <1>1, <1>4
  <2>2. DOMAIN s = 1..n /\ i \in 1..n /\ k + j - 1 \in 1..n
    BY <1>1, <1>4
  <2>3. \A x, y \in DOMAIN s : s[x] = s[y] => x = y
    BY DEF IsInjective
  <2> QED
    BY <2>1, <2>2, <2>3
<1>7. IsInjective(a)
  BY <1>1, <1>4 DEF IsInjective
<1>8. IsInjective(c)
  <2> SUFFICES ASSUME NEW i \in 1..n - k + 1, NEW j \in 1..n - k + 1, c[i] = c[j] PROVE i = j
    BY <1>1 DEF IsInjective
  <2>1. s[k + i - 1] = s[k + j - 1]
    BY <1>1
  <2>2. DOMAIN s = 1..n /\ k + i - 1 \in 1..n /\ k + j - 1 \in 1..n
    BY <1>1, <1>4
  <2>3. \A x, y \in DOMAIN s : s[x] = s[y] => x = y
    BY DEF IsInjective
  <2>4. k + i - 1 = k + j - 1
    BY <2>1, <2>2, <2>3
  <2> QED
    BY <2>4
<1>9. IdsOf(<<e>>) = {e} /\ IsInjective(<<e>>)
  BY <1>2 DEF IdsOf, IsInjective
<1>10. /\ a \o <<e>> \in Seq(T) /\ IdsOf(a \o <<e>>) = IdsOf(a) \cup IdsOf(<<e>>)
       /\ IsInjective(a) /\ IsInjective(<<e>>) /\ IdsOf(a) \cap IdsOf(<<e>>) = {} => IsInjective(a \o <<e>>)
  BY <1>1, <1>2, ConcatIds
<1>11. IsInjective(a \o <<e>>)
  BY <1>5, <1>7, <1>9, <1>10
<1>12. /\ a \o <<e>> \o c \in Seq(T) /\ IdsOf(a \o <<e>> \o c) = IdsOf(a \o <<e>>) \cup IdsOf(c)
       /\ IsInjective(a \o <<e>>) /\ IsInjective(c) /\ IdsOf(a \o <<e>>) \cap IdsOf(c) = {}
            => IsInjective(a \o <<e>> \o c)
  <2> DEFINE b == a \o <<e>>
  <2>1. b \in Seq(T)
    BY <1>10
  <2> HIDE DEF b
  <2>2. /\ b \o c \in Seq(T) /\ IdsOf(b \o c) = IdsOf(b) \cup IdsOf(c)
        /\ IsInjective(b) /\ IsInjective(c) /\ IdsOf(b) \cap IdsOf(c) = {} => IsInjective(b \o c)
    BY <1>1, <2>1, ConcatIds
  <2> QED
    BY <2>2 DEF b
<1> QED
  BY <1>3, <1>5, <1>6, <1>8, <1>9, <1>10, <1>11, <1>12

LEMMA ArrangementsAre ==
    ASSUME NEW S, IsFiniteSet(S), NEW s \in Arrangements(S)
    PROVE  s \in Seq(S) /\ IsInjective(s) /\ IdsOf(s) \subseteq S
<1>1. Cardinality(S) \in Nat
  BY FS_CardinalityType
<1>2. PICK n \in 0..Cardinality(S) : s \in [1..n -> S] /\ \A i, j \in 1..n : i # j => s[i] # s[j]
  BY DEF Arrangements
<1>3. s \in Seq(S)
  BY <1>1, <1>2
<1> QED
  BY <1>2, <1>3 DEF IsInjective, IdsOf

LEMMA SeqWiden ==
    ASSUME NEW S, NEW T, S \subseteq T, NEW s \in Seq(S)
    PROVE  s \in Seq(T)
OBVIOUS

-----------------------------------------------------------------------------
(* The inductive invariant. *)
Gathered ==
    [texts : Seq(Nat), allowed : SUBSET Nat, hits : Seq(Nat), fused : Seq(Hit),
     resolved : UNION {[D -> StoredFact] : D \in SUBSET Nat}]

StoreInv ==
    /\ facts \in Seq(StoredFact) /\ Len(facts) <= MaxFacts
    /\ textRank \in Seq(Nat) /\ IsInjective(textRank) /\ IdsOf(textRank) \subseteq Ids
    /\ similar \in Seq(Nat) /\ IsInjective(similar) /\ IdsOf(similar) \subseteq Ids \ unindexed
    /\ unindexed \subseteq Ids

(* Each path has steps of its own. *)
CallInv ==
    /\ pc \in Steps /\ call \in Calls /\ quiet \in BOOLEAN
    /\ pc = "fetch" => call.path = "text"
    /\ pc \in {"text", "fuse", "resolve"} => call.path = "hybrid"
    /\ pc \in {"allow", "hits"} => call.path # "text"
    /\ pc = "idle" => loop = NoLoop /\ hybrid = NoHybrid /\ answer = <<>>

LoopInv ==
    /\ loop.fetch \in Nat /\ loop.seen \subseteq Ids
    /\ loop.found \in Seq(Nat) /\ IsInjective(loop.found) /\ IdsOf(loop.found) \subseteq loop.seen
    /\ answer \in Seq(Nat) /\ IsInjective(answer) /\ IdsOf(answer) \subseteq Ids

HybridInv ==
    /\ hybrid \in Gathered
    /\ IdsOf(hybrid.texts) \subseteq Ids /\ IdsOf(hybrid.hits) \subseteq Ids
    /\ DistinctIds(hybrid.fused) /\ HitIds(hybrid.fused) \subseteq Ids
    /\ IsFiniteSet(DOMAIN hybrid.resolved) /\ DOMAIN hybrid.resolved \subseteq HitIds(hybrid.fused)
    /\ pc \in {"idle", "allow", "hits", "fuse"} => DOMAIN hybrid.resolved = {}

(* Whatever a step of the call read as current was current then, and what  *)
(* it has found passes the filter.                                         *)
WereCurrent ==
    /\ current \subseteq Ids
    /\ pc # "idle" => Current \subseteq current
    /\ IdsOf(loop.found) \subseteq current /\ hybrid.allowed \subseteq current
    /\ IdsOf(answer) \subseteq current
    /\ IdsOf(loop.found) \subseteq Passing /\ IdsOf(answer) \subseteq Passing
    /\ \A id \in DOMAIN hybrid.resolved : IsCurrentlyValid(hybrid.resolved[id]) => id \in current

(* An entry is never taken out of the index, and a fact that is allowed    *)
(* when the filter is made is missing from it later only if it is new.     *)
IndexInv ==
    /\ indexed \subseteq IdsOf(similar)
    /\ pc = "hits" => indexed \cap Current \subseteq hybrid.allowed
    /\ VectorSearchComplete

(* A text recall that nobody disturbs has scanned a prefix of the ranking, *)
(* shorter than its next batch, and found what passes in it.               *)
Undisturbed ==
    quiet /\ call.path = "text" /\ call.kind # "plain" /\ IdsOf(textRank) \subseteq Current
Scanned(p) ==
    /\ p < loop.fetch
    /\ loop.seen = IdsOf(SubSeq(textRank, 1, p))
    /\ loop.found = Keep(SubSeq(textRank, 1, p), Passing)
ScanInv ==
    Undisturbed =>
        /\ pc = "fetch" => loop.fetch <= Budget(call) /\ \E p \in 0..Len(textRank) : Scanned(p)
        /\ pc = "done" => answer = FilteredAnswer

SafeInv == StoreInv /\ CallInv /\ LoopInv /\ HybridInv /\ WereCurrent /\ IndexInv
RecallInv == SafeInv /\ ScanInv

-----------------------------------------------------------------------------
LEMMA CallTyped ==
    ASSUME call \in Calls
    PROVE  call \in CallOptions
BY ScenariosAssumption DEF Calls

LEMMA IdsAre ==
    ASSUME facts \in Seq(StoredFact)
    PROVE  /\ Ids = 1..Len(facts) /\ Len(facts) \in Nat /\ IsFiniteSet(Ids) /\ Ids \subseteq Nat
           /\ \A id \in Ids : facts[id] \in StoredFact
<1>1. /\ Ids = 1..Len(facts) /\ Len(facts) \in Nat /\ Ids \subseteq Nat
      /\ \A id \in Ids : facts[id] \in StoredFact
  BY DEF Ids
<1> QED
  BY <1>1, FS_Interval

LEMMA Assertion ==
    ASSUME StoreInv, NEW shape \in Shapes, NEW embedded \in BOOLEAN, AssertFact(shape, embedded)
    PROVE  /\ StoreInv'
           /\ Len(facts) + 1 \notin Ids /\ Ids' = Ids \cup {Len(facts) + 1}
           /\ Current' \subseteq Current \cup {Len(facts) + 1}
           /\ Passing \subseteq Passing' /\ UNCHANGED similar
<1> DEFINE id == Len(facts) + 1
<1>1. Ids = 1..Len(facts) /\ Len(facts) \in Nat /\ facts \in Seq(StoredFact)
  BY IdsAre DEF StoreInv
<1>2. /\ id <= MaxFacts /\ facts' = Append(facts, Fact(shape)) /\ textRank' \in Arrangements(1..id)
      /\ unindexed' = (IF embedded THEN unindexed \cup {id} ELSE unindexed) /\ similar' = similar
  BY DEF AssertFact
<1>3. Fact(shape) \in StoredFact
  BY ScenariosAssumption DEF Fact, Shape, StoredFact
<1>4. /\ facts' \in Seq(StoredFact) /\ Len(facts') = id
      /\ \A i \in Ids : facts'[i] = facts[i]
  BY <1>1, <1>2, <1>3
<1>5. Ids' = 1..id /\ 1..id = Ids \cup {id} /\ id \notin Ids
  BY <1>1, <1>4 DEF Ids
<1>6. textRank' \in Seq(Nat) /\ IsInjective(textRank') /\ IdsOf(textRank') \subseteq 1..id
  <2>1. IsFiniteSet(1..id)
    BY <1>1, FS_Interval
  <2>2. textRank' \in Seq(1..id) /\ IsInjective(textRank') /\ IdsOf(textRank') \subseteq 1..id
    BY <1>2, <2>1, ArrangementsAre
  <2> QED
    BY <2>2
<1> HIDE DEF id
<1>7. StoreInv'
  <2>1. IdsOf(similar') \subseteq Ids' \ unindexed' /\ unindexed' \subseteq Ids'
    BY <1>2, <1>5 DEF StoreInv
  <2>2. similar' \in Seq(Nat) /\ IsInjective(similar')
    BY <1>2 DEF StoreInv
  <2> QED
    BY <1>2, <1>4, <1>5, <1>6, <2>1, <2>2 DEF StoreInv
<1>8. Current' \subseteq Current \cup {id}
  BY <1>4, <1>5 DEF Current
<1>9. Passing \subseteq Passing'
  <2>1. UNCHANGED call
    BY DEF AssertFact, Observe, working
  <2>2. \A i \in Ids : Passes(facts[i]) => Passes(facts[i])'
    BY <1>4, <2>1 DEF Passes
  <2> QED
    BY <1>5, <2>2 DEF Passing
<1> QED
  BY <1>2, <1>5, <1>7, <1>8, <1>9 DEF id

LEMMA Ending ==
    ASSUME StoreInv, NEW id \in Ids, EndFact(id)
    PROVE  /\ StoreInv' /\ Ids' = Ids /\ Current' \subseteq Current
           /\ Passing \subseteq Passing' /\ UNCHANGED similar
<1>1. /\ Ids = 1..Len(facts) /\ Len(facts) \in Nat /\ facts \in Seq(StoredFact)
      /\ \A i \in Ids : facts[i] \in StoredFact
  BY IdsAre DEF StoreInv
<1>2. /\ facts' = [facts EXCEPT ![id] = Ended(facts[id])]
      /\ UNCHANGED <<textRank, similar, unindexed>>
  BY DEF EndFact
<1>3. Ended(facts[id]) \in StoredFact /\ Ended(facts[id]).valid_to = Now
  BY <1>1 DEF Ended, StoredFact
<1>4. /\ facts' \in Seq(StoredFact) /\ Len(facts') = Len(facts)
      /\ facts'[id] = Ended(facts[id]) /\ \A i \in Ids : i # id => facts'[i] = facts[i]
  BY <1>1, <1>2, <1>3
<1>5. Ids' = Ids
  BY <1>1, <1>4 DEF Ids
<1>6. Current' \subseteq Current
  <2>1. ~IsCurrentlyValid(facts'[id])
    BY <1>3, <1>4, BoundsAssumption DEF IsCurrentlyValid
  <2> QED
    BY <1>4, <1>5, <2>1 DEF Current
<1>7. StoreInv'
  BY <1>2, <1>4, <1>5 DEF StoreInv
<1>8. Passing \subseteq Passing'
  <2>1. UNCHANGED call
    BY DEF EndFact, Observe, working
  <2>2. facts'[id] = [facts[id] EXCEPT !.valid_to = Now, !.expired_at = Now]
    BY <1>4 DEF Ended
  <2>3. \A field \in {"subject", "confidence", "valid_from", "half_life", "source_weight"} :
          facts'[id][field] = facts[id][field]
    BY <1>1, <2>2 DEF StoredFact
  <2>4. ASSUME NEW a, NEW b, a.subject = b.subject, a.confidence = b.confidence, a.valid_from = b.valid_from,
               a.half_life = b.half_life, a.source_weight = b.source_weight
        PROVE  Passes(a) => Passes(b)
    <3>1. EffectiveConfidence(a, Now) = EffectiveConfidence(b, Now)
      BY <2>4 DEF EffectiveConfidence
    <3> QED
      BY <2>4, <3>1 DEF Passes
  <2>5. \A i \in Ids : Passes(facts[i]) => Passes(facts'[i])
    BY <1>4, <2>3, <2>4
  <2>6. ASSUME NEW i \in Ids PROVE Passes(facts[i])' <=> Passes(facts'[i])
    BY <2>1 DEF Passes, EffectiveConfidence
  <2> QED
    BY <1>5, <2>5, <2>6 DEF Passing
<1> QED
  BY <1>2, <1>5, <1>6, <1>7, <1>8

(* A search without a filter of its own lets everything pass. *)
LEMMA PlainPasses ==
    ASSUME call.kind = "plain" PROVE Passing = Ids
BY DEF Passing, Passes

LEMMA Indexing ==
    ASSUME StoreInv, NEW id \in Ids, InsertVector(id)
    PROVE  /\ StoreInv' /\ IdsOf(similar) \subseteq IdsOf(similar')
           /\ UNCHANGED <<facts, textRank>>
<1>1. id \in unindexed /\ unindexed' = unindexed \ {id} /\ UNCHANGED <<facts, textRank>>
  BY DEF InsertVector
<1>2. PICK i \in 1..Len(similar) + 1 : similar' = InsertAt(similar, i, id)
  BY DEF InsertVector
<1>3. /\ similar \in Seq(Nat) /\ IsInjective(similar) /\ id \in Nat /\ id \notin IdsOf(similar)
  BY <1>1, IdsAre DEF StoreInv
<1>4. /\ similar' \in Seq(Nat) /\ IsInjective(similar') /\ IdsOf(similar') = IdsOf(similar) \cup {id}
  BY <1>2, <1>3, InsertedIds
<1>5. Ids' = Ids
  BY <1>1 DEF Ids
<1>6. IdsOf(similar') \subseteq Ids' \ unindexed' /\ unindexed' \subseteq Ids'
  BY <1>1, <1>4, <1>5 DEF StoreInv
<1>7. facts' \in Seq(StoredFact) /\ Len(facts') <= MaxFacts
  BY <1>1 DEF StoreInv
<1>8. textRank' \in Seq(Nat) /\ IsInjective(textRank') /\ IdsOf(textRank') \subseteq Ids'
  BY <1>1, <1>5 DEF StoreInv
<1> QED
  BY <1>1, <1>4, <1>6, <1>7, <1>8 DEF StoreInv

LEMMA SameFacts ==
    ASSUME UNCHANGED facts
    PROVE  /\ Ids' = Ids /\ Current' = Current
           /\ UNCHANGED call => Passing' = Passing
           /\ UNCHANGED <<call, textRank>> => FilteredAnswer' = FilteredAnswer
<1>1. Ids' = Ids
  BY DEF Ids
<1>2. Current' = Current
  BY <1>1 DEF Current
<1>3. ASSUME UNCHANGED call PROVE Passing' = Passing
  <2>1. \A id \in Ids : Passes(facts[id])' <=> Passes(facts[id])
    BY <1>3 DEF Passes
  <2> QED
    BY <1>1, <2>1 DEF Passing
<1>4. ASSUME UNCHANGED <<call, textRank>> PROVE FilteredAnswer' = FilteredAnswer
  BY <1>3, <1>4 DEF FilteredAnswer
<1> QED
  BY <1>1, <1>2, <1>3, <1>4

(* What a writer adds is new to the call, and nothing else becomes current. *)
LEMMA WriterStep ==
    ASSUME SafeInv, NEW added, Observe(added), StoreInv', Ids \subseteq Ids', added \subseteq Ids',
           added \cap Ids = {}, Current' \subseteq Current \cup added, Passing \subseteq Passing',
           UNCHANGED similar
    PROVE  SafeInv' /\ ScanInv'
<1>1. /\ Working /\ current' = current \cup added /\ quiet' = FALSE
      /\ UNCHANGED <<pc, call, loop, hybrid, answer, indexed>>
  BY DEF Observe, working
<1>2. pc # "idle"
  BY <1>1 DEF Working
<1>3. CallInv'
  BY <1>1 DEF CallInv, SafeInv
<1>4. LoopInv'
  BY <1>1 DEF LoopInv, SafeInv
<1>5. HybridInv'
  BY <1>1 DEF HybridInv, SafeInv
<1>6. WereCurrent'
  BY <1>1, <1>2 DEF WereCurrent, SafeInv
<1>7. IndexInv'
  <2>1. indexed \subseteq Ids
    BY DEF SafeInv, StoreInv, IndexInv
  <2>2. indexed' \cap Current' \subseteq indexed \cap Current
    BY <1>1, <2>1
  <2>3. VectorSearchComplete'
    BY <1>1, <2>2 DEF VectorSearchComplete, SafeInv, IndexInv
  <2> QED
    BY <1>1, <2>2, <2>3 DEF IndexInv, SafeInv
<1>8. ScanInv'
  BY <1>1 DEF ScanInv, Undisturbed
<1> QED
  BY <1>3, <1>4, <1>5, <1>6, <1>7, <1>8 DEF SafeInv

LEMMA IndexingStep ==
    ASSUME RecallInv, NEW id \in Ids, InsertVector(id)
    PROVE  RecallInv'
<1>1. UNCHANGED <<pc, call, loop, hybrid, answer, current, indexed, quiet>>
  BY DEF InsertVector, working, ghost
<1>2. StoreInv' /\ IdsOf(similar) \subseteq IdsOf(similar') /\ UNCHANGED <<facts, textRank>>
  BY Indexing DEF RecallInv, SafeInv
<1>3. Ids' = Ids /\ Current' = Current /\ Passing' = Passing /\ FilteredAnswer' = FilteredAnswer
  BY <1>1, <1>2, SameFacts
<1>4. CallInv' /\ LoopInv'
  BY <1>1, <1>3 DEF CallInv, LoopInv, RecallInv, SafeInv
<1>5. HybridInv'
  BY <1>1, <1>3 DEF HybridInv, RecallInv, SafeInv
<1>6. WereCurrent'
  BY <1>1, <1>3 DEF WereCurrent, RecallInv, SafeInv
<1>7. IndexInv'
  BY <1>1, <1>2, <1>3 DEF IndexInv, VectorSearchComplete, RecallInv, SafeInv
<1>8. ScanInv'
  <2>1. \A p : Scanned(p)' <=> Scanned(p)
    BY <1>1, <1>2, <1>3 DEF Scanned
  <2> QED
    BY <1>1, <1>2, <1>3, <2>1 DEF ScanInv, Undisturbed, RecallInv
<1> QED
  BY <1>2, <1>4, <1>5, <1>6, <1>7, <1>8 DEF RecallInv, SafeInv

LEMMA WritersKeepInv ==
    ASSUME RecallInv,
           \/ \E shape \in Shapes, embedded \in BOOLEAN : AssertFact(shape, embedded)
           \/ \E id \in Ids : InsertVector(id) \/ EndFact(id)
    PROVE  RecallInv'
<1>1. ASSUME NEW shape \in Shapes, NEW embedded \in BOOLEAN, AssertFact(shape, embedded)
      PROVE  RecallInv'
  <2>1. PICK added : added = {Len(facts) + 1}
    OBVIOUS
  <2>2. /\ StoreInv' /\ Len(facts) + 1 \notin Ids /\ Ids' = Ids \cup {Len(facts) + 1}
        /\ Current' \subseteq Current \cup {Len(facts) + 1}
        /\ Passing \subseteq Passing' /\ UNCHANGED similar
    BY <1>1, Assertion DEF RecallInv, SafeInv
  <2>3. Observe(added)
    BY <1>1, <2>1 DEF AssertFact
  <2>4. SafeInv' /\ ScanInv'
    BY <2>1, <2>2, <2>3, WriterStep DEF RecallInv
  <2> QED
    BY <2>4 DEF RecallInv
<1>2. ASSUME NEW id \in Ids, EndFact(id) PROVE RecallInv'
  <2>1. /\ StoreInv' /\ Ids' = Ids /\ Current' \subseteq Current
        /\ Passing \subseteq Passing' /\ UNCHANGED similar
    BY <1>2, Ending DEF RecallInv, SafeInv
  <2>2. Observe({})
    BY <1>2 DEF EndFact
  <2>3. SafeInv' /\ ScanInv'
    BY <2>1, <2>2, WriterStep DEF RecallInv
  <2> QED
    BY <2>3 DEF RecallInv
<1> QED
  BY <1>1, <1>2, IndexingStep

-----------------------------------------------------------------------------
(* The call begins. *)
LEMMA NoLoopIs ==
    NoLoop \in [fetch : Nat, seen : SUBSET {}, found : Seq(Nat), misses : Nat]
BY DEF NoLoop

LEMMA FirstFetchIs ==
    ASSUME NEW c \in CallOptions
    PROVE  /\ FirstFetch(c) \in Nat /\ Budget(c) \in Nat
           /\ c.kind # "plain" /\ c.path = "text" /\ c.limit # 0 /\ ~Refused(c)
                => 0 < FirstFetch(c) /\ FirstFetch(c) <= Budget(c)
<1>1. /\ c.limit \in Nat /\ c.rows \in Nat /\ c.kind \in {"plain", "base", "effective", "task"}
      /\ DefaultMaxRows \in Nat /\ DefaultMaxRows > 0
  BY RowsAssumption DEF CallOptions
<1> QED
  BY <1>1 DEF FirstFetch, Budget, Refused, LeastOf

LEMMA EmptyAnswer ==
    ASSUME StoreInv, call \in CallOptions
    PROVE  call.limit = 0 => FilteredAnswer = << >>
<1> DEFINE rows == Truncate(textRank, Budget(call))
           kept == Keep(rows, Passing)
<1>1. Budget(call) \in Nat
  BY FirstFetchIs
<1>2. rows \in Seq(Nat)
  BY <1>1, TruncateIs DEF StoreInv
<1> HIDE DEF rows
<1>3. kept \in Seq(Nat)
  BY <1>2, KeepIds
<1> HIDE DEF kept
<1>4. Truncate(kept, 0) \in Seq(Nat) /\ LeastOf(0, Len(kept)) = Len(Truncate(kept, 0))
  BY <1>3, TruncateIs
<1>5. LeastOf(0, Len(kept)) = 0
  BY <1>3 DEF LeastOf
<1>6. Truncate(kept, 0) = << >>
  BY <1>4, <1>5
<1> QED
  BY <1>6 DEF FilteredAnswer, kept, rows

LEMMA BeginKeepsInv ==
    ASSUME RecallInv, Begin
    PROVE  RecallInv'
<1>1. /\ pc = "idle" /\ UNCHANGED <<facts, textRank, similar, unindexed, call, hybrid, answer>>
      /\ pc' = (IF Refused(call) THEN "error" ELSE IF call.limit = 0 THEN "done" ELSE FirstStep(call.path))
      /\ loop' = [NoLoop EXCEPT !.fetch = FirstFetch(call)]
      /\ current' = Current /\ indexed' = IdsOf(similar) /\ quiet' = TRUE
  BY DEF Begin, store
<1>2. Ids' = Ids /\ Current' = Current /\ Passing' = Passing /\ FilteredAnswer' = FilteredAnswer
  BY <1>1, SameFacts
<1>3. call \in CallOptions /\ call.path \in {"text", "hybrid", "vector"}
  BY CallTyped DEF RecallInv, SafeInv, CallInv, CallOptions
<1>4. FirstFetch(call) \in Nat
  BY <1>3, FirstFetchIs
<1>5. /\ loop'.fetch = FirstFetch(call) /\ loop'.seen = {} /\ loop'.found = << >>
  <2>1. NoLoop.seen = {} /\ NoLoop.found = << >>
    BY DEF NoLoop
  <2> QED
    BY <1>1, <1>4, <2>1, NoLoopIs
<1>6. hybrid = NoHybrid /\ answer = << >>
  BY <1>1 DEF RecallInv, SafeInv, CallInv
<1>7. hybrid.allowed = {} /\ DOMAIN hybrid.resolved = {}
  BY <1>6 DEF NoHybrid
<1>8. /\ pc' \in {"error", "done", "fetch", "text", "allow"}
      /\ pc' = "fetch" <=> ~Refused(call) /\ call.limit # 0 /\ call.path = "text"
      /\ pc' = "text" => call.path = "hybrid"
      /\ pc' = "allow" => call.path = "vector"
      /\ pc' = "done" => call.limit = 0
  BY <1>1, <1>3 DEF FirstStep
<1>9. StoreInv'
  BY <1>1, <1>2 DEF StoreInv, RecallInv, SafeInv
<1>10. CallInv'
  BY <1>1, <1>8 DEF CallInv, RecallInv, SafeInv, Steps
<1>11. IdsOf(<< >>) = {} /\ IsInjective(<< >>) /\ << >> \in Seq(Nat)
  BY DEF IdsOf, IsInjective
<1>12. LoopInv'
  BY <1>1, <1>4, <1>5, <1>6, <1>11 DEF LoopInv
<1>13. HybridInv'
  BY <1>1, <1>2, <1>7 DEF HybridInv, RecallInv, SafeInv
<1>14. WereCurrent'
  <2>1. Current \subseteq Ids
    BY DEF Current
  <2> QED
    BY <1>1, <1>2, <1>5, <1>6, <1>7, <1>11, <2>1 DEF WereCurrent
<1>15. IndexInv'
  <2>1. VectorSearchComplete'
    <3>1. ~(Len(answer') < call'.limit) \/ pc' # "done"
      BY <1>1, <1>6, <1>8
    <3> QED
      BY <1>8, <3>1 DEF VectorSearchComplete
  <2> QED
    BY <1>1, <1>8, <2>1 DEF IndexInv
<1>16. ScanInv'
  <2>1. ASSUME Undisturbed', pc' = "fetch"
        PROVE  loop'.fetch <= Budget(call') /\ \E p \in 0..Len(textRank') : Scanned(p)'
    <3>1. 0 < FirstFetch(call) /\ FirstFetch(call) <= Budget(call)
      BY <1>1, <1>3, <1>8, <2>1, FirstFetchIs DEF Undisturbed
    <3>2. textRank \in Seq(Nat) /\ SubSeq(textRank, 1, 0) = << >>
      BY DEF RecallInv, SafeInv, StoreInv
    <3>3. Keep(SubSeq(textRank, 1, 0), Passing) = << >>
      BY <3>2, KeepEmpty
    <3>4. Scanned(0)'
      BY <1>1, <1>2, <1>5, <1>11, <3>1, <3>2, <3>3 DEF Scanned
    <3>5. 0 \in 0..Len(textRank')
      BY <1>1, <3>2
    <3> QED
      BY <1>1, <1>5, <3>1, <3>4, <3>5
  <2>2. ASSUME Undisturbed', pc' = "done" PROVE answer' = FilteredAnswer'
    BY <1>1, <1>2, <1>3, <1>6, <1>8, <2>2, EmptyAnswer DEF RecallInv, SafeInv
  <2> QED
    BY <2>1, <2>2 DEF ScanInv
<1> QED
  BY <1>9, <1>10, <1>12, <1>13, <1>14, <1>15, <1>16 DEF RecallInv, SafeInv

-----------------------------------------------------------------------------
(* A batch ends the call or asks for a larger one. *)
LEMMA FinishStep ==
    ASSUME SafeInv, pc # "idle", NEW ids \in Seq(Nat), IsInjective(ids), IdsOf(ids) \subseteq current,
           IdsOf(ids) \subseteq Passing, Finish(ids), UNCHANGED <<store, call, hybrid, ghost>>,
           call.path = "vector" /\ Len(ids) < call.limit => indexed \cap Current \subseteq IdsOf(ids)
    PROVE  SafeInv'
<1>1. /\ answer' = ids /\ pc' = "done"
      /\ UNCHANGED <<facts, textRank, similar, unindexed, call, loop, hybrid, current, indexed, quiet>>
  BY DEF Finish, store, ghost
<1>2. Ids' = Ids /\ Current' = Current /\ Passing' = Passing
  BY <1>1, SameFacts
<1>3. current \subseteq Ids
  BY DEF SafeInv, WereCurrent
<1>4. StoreInv'
  BY <1>1, <1>2 DEF StoreInv, SafeInv
<1>5. CallInv'
  BY <1>1 DEF CallInv, SafeInv, Steps
<1>6. LoopInv'
  BY <1>1, <1>2, <1>3 DEF LoopInv, SafeInv
<1>7. HybridInv'
  BY <1>1, <1>2 DEF HybridInv, SafeInv
<1>8. WereCurrent'
  BY <1>1, <1>2 DEF WereCurrent, SafeInv
<1>9. IndexInv'
  BY <1>1, <1>2 DEF IndexInv, VectorSearchComplete, SafeInv
<1> QED
  BY <1>4, <1>5, <1>6, <1>7, <1>8, <1>9 DEF SafeInv

LEMMA NextFetch ==
    ASSUME SafeInv, NEW fresh, NEW passing, NextBatch(fresh, passing)
    PROVE  /\ loop'.fetch \in Nat /\ loop'.seen = loop.seen \cup IdsOf(fresh)
           /\ loop'.found = loop.found \o passing
           /\ 0 < loop.fetch /\ loop.fetch < Budget(call) =>
                loop.fetch < loop'.fetch /\ loop'.fetch <= Budget(call)
<1>1. call \in CallOptions
  BY CallTyped DEF SafeInv, CallInv
<1>2. loop.fetch \in Nat /\ Budget(call) \in Nat
  BY <1>1, FirstFetchIs DEF SafeInv, LoopInv
<1> DEFINE misses == IF passing = <<>> THEN loop.misses + 1 ELSE 0
           doubled == LeastOf(2 * loop.fetch, Budget(call))
           fetch == IF call.kind # "task" /\ misses = 2 THEN Budget(call) ELSE doubled
<1>3. loop' = [fetch |-> fetch, seen |-> loop.seen \cup IdsOf(fresh),
               found |-> loop.found \o passing, misses |-> LeastOf(misses, 2)]
  BY Zenon DEF NextBatch
<1>4. doubled \in Nat /\ (0 < loop.fetch /\ loop.fetch < Budget(call) =>
                            loop.fetch < doubled /\ doubled <= Budget(call))
  BY <1>2 DEF LeastOf
<1> HIDE DEF doubled, misses
<1>5. fetch \in Nat /\ (0 < loop.fetch /\ loop.fetch < Budget(call) =>
                          loop.fetch < fetch /\ fetch <= Budget(call))
  BY <1>2, <1>4
<1> HIDE DEF fetch
<1> QED
  BY <1>3, <1>5

LEMMA NextBatchStep ==
    ASSUME SafeInv, pc \in {"fetch", "resolve"}, NEW fresh \in Seq(Nat), NEW passing \in Seq(Nat),
           IdsOf(fresh) \subseteq Ids \ loop.seen, IsInjective(passing),
           IdsOf(passing) \subseteq IdsOf(fresh) \cap current \cap Passing,
           NextBatch(fresh, passing), UNCHANGED <<store, call, hybrid, ghost>>
    PROVE  SafeInv'
<1>1. /\ pc' = FirstStep(call.path)
      /\ UNCHANGED <<facts, textRank, similar, unindexed, call, answer, hybrid, current, indexed, quiet>>
  BY DEF NextBatch, store, ghost
<1>2. Ids' = Ids /\ Current' = Current /\ Passing' = Passing
  BY <1>1, SameFacts
<1>3. /\ pc' \in {"fetch", "text"}
      /\ pc' = "fetch" => call.path = "text"
      /\ pc' = "text" => call.path = "hybrid"
  <2>1. call.path \in {"text", "hybrid"}
    BY DEF SafeInv, CallInv
  <2> QED
    BY <1>1, <2>1 DEF FirstStep
<1>4. /\ loop'.fetch \in Nat /\ loop'.seen = loop.seen \cup IdsOf(fresh)
      /\ loop'.found = loop.found \o passing
  BY NextFetch
<1>5. /\ loop.found \in Seq(Nat) /\ IsInjective(loop.found) /\ IdsOf(loop.found) \subseteq loop.seen
      /\ loop.seen \subseteq Ids /\ IdsOf(loop.found) \subseteq current \cap Passing
  BY DEF SafeInv, LoopInv, WereCurrent
<1>6. /\ loop.found \o passing \in Seq(Nat)
      /\ IdsOf(loop.found \o passing) = IdsOf(loop.found) \cup IdsOf(passing)
      /\ IsInjective(loop.found \o passing)
  <2> DEFINE found == loop.found
  <2>1. found \in Seq(Nat) /\ IsInjective(found) /\ IdsOf(found) \cap IdsOf(passing) = {}
    BY <1>5
  <2> HIDE DEF found
  <2>2. /\ found \o passing \in Seq(Nat) /\ IdsOf(found \o passing) = IdsOf(found) \cup IdsOf(passing)
        /\ IsInjective(found) /\ IsInjective(passing) /\ IdsOf(found) \cap IdsOf(passing) = {}
             => IsInjective(found \o passing)
    BY <2>1, ConcatIds
  <2> QED
    BY <2>1, <2>2 DEF found
<1>7. StoreInv'
  BY <1>1, <1>2 DEF StoreInv, SafeInv
<1>8. CallInv'
  BY <1>1, <1>3 DEF CallInv, SafeInv, Steps
<1>9. LoopInv'
  <2>1. answer' \in Seq(Nat) /\ IsInjective(answer') /\ IdsOf(answer') \subseteq Ids'
    BY <1>1, <1>2 DEF LoopInv, SafeInv
  <2>2. loop'.seen \subseteq Ids' /\ IdsOf(loop'.found) \subseteq loop'.seen
    BY <1>2, <1>4, <1>5, <1>6
  <2>3. loop'.found \in Seq(Nat) /\ IsInjective(loop'.found)
    BY <1>4, <1>6
  <2> QED
    BY <1>4, <2>1, <2>2, <2>3 DEF LoopInv
<1>10. HybridInv'
  BY <1>1, <1>2, <1>3 DEF HybridInv, SafeInv
<1>11. WereCurrent'
  <2>1. IdsOf(loop'.found) \subseteq current' \cap Passing'
    BY <1>1, <1>2, <1>4, <1>5, <1>6
  <2> QED
    BY <1>1, <1>2, <2>1 DEF WereCurrent, SafeInv
<1>12. IndexInv'
  BY <1>1, <1>2, <1>3 DEF IndexInv, VectorSearchComplete, SafeInv
<1> QED
  BY <1>7, <1>8, <1>9, <1>10, <1>11, <1>12 DEF SafeInv

(* What a batch of ids leaves after both filters. *)
LEMMA FilteredIds ==
    ASSUME NEW s \in Seq(Nat), IsInjective(s), NEW S, NEW n \in Nat
    PROVE  /\ Keep(s, S) \in Seq(Nat) /\ IsInjective(Keep(s, S)) /\ IdsOf(Keep(s, S)) = IdsOf(s) \cap S
           /\ Truncate(s, n) \in Seq(Nat) /\ IsInjective(Truncate(s, n))
           /\ IdsOf(Truncate(s, n)) \subseteq IdsOf(s)
<1>1. /\ Keep(s, S) \in Seq(Nat) /\ IdsOf(Keep(s, S)) = IdsOf(s) \cap S
      /\ IsInjective(s) => IsInjective(Keep(s, S))
  BY KeepIds
<1>2. /\ Truncate(s, n) \in Seq(Nat) /\ IdsOf(Truncate(s, n)) \subseteq IdsOf(s)
      /\ IsInjective(s) => IsInjective(Truncate(s, n))
  BY TruncateIs
<1> QED
  BY <1>1, <1>2

LEMMA BatchStep ==
    ASSUME SafeInv, pc \in {"fetch", "resolve"}, NEW scored \in Seq(Nat), IsInjective(scored),
           IdsOf(scored) \subseteq current, Batch(scored), UNCHANGED <<store, call, hybrid, ghost>>
    PROVE  SafeInv'
<1>1. call.limit \in Nat /\ call.path # "vector" /\ pc # "idle"
  <2>1. call \in CallOptions
    BY CallTyped DEF SafeInv, CallInv
  <2> QED
    BY <2>1 DEF SafeInv, CallInv, CallOptions
<1>2. PICK fresh : fresh = Keep(scored, Ids \ loop.seen)
  OBVIOUS
<1>3. PICK passing : passing = Keep(fresh, Passing)
  OBVIOUS
<1>4. PICK found : found = loop.found \o passing
  OBVIOUS
<1>5. IF call.kind = "plain" THEN Finish(scored)
      ELSE IF call.kind # "task" /\ call.path = "hybrid" THEN Finish(Truncate(passing, call.limit))
      ELSE IF scored = <<>> THEN Finish(loop.found)
      ELSE IF Len(found) >= call.limit THEN Finish(Truncate(found, call.limit))
      ELSE IF LastBatch(scored, fresh) THEN Finish(found)
      ELSE NextBatch(fresh, passing)
  BY <1>2, <1>3, <1>4, Zenon DEF Batch
<1>6. fresh \in Seq(Nat) /\ IsInjective(fresh) /\ IdsOf(fresh) = IdsOf(scored) \cap (Ids \ loop.seen)
  BY <1>2, FilteredIds
<1>7. /\ passing \in Seq(Nat) /\ IsInjective(passing) /\ IdsOf(passing) = IdsOf(fresh) \cap Passing
  BY <1>3, <1>6, FilteredIds
<1>8. PICK prior : prior = loop.found
  OBVIOUS
<1>9. /\ prior \in Seq(Nat) /\ IsInjective(prior) /\ IdsOf(prior) \subseteq loop.seen
      /\ IdsOf(prior) \subseteq current \cap Passing
  BY <1>8 DEF SafeInv, LoopInv, WereCurrent
<1>10. found \in Seq(Nat) /\ IsInjective(found) /\ IdsOf(found) \subseteq current \cap Passing
  <2>1. /\ prior \o passing \in Seq(Nat) /\ IdsOf(prior \o passing) = IdsOf(prior) \cup IdsOf(passing)
        /\ IsInjective(prior) /\ IsInjective(passing) /\ IdsOf(prior) \cap IdsOf(passing) = {}
             => IsInjective(prior \o passing)
    BY <1>7, <1>9, ConcatIds
  <2>2. IdsOf(prior) \cap IdsOf(passing) = {}
    BY <1>6, <1>7, <1>9
  <2>3. found = prior \o passing
    BY <1>4, <1>8
  <2> QED
    BY <1>6, <1>7, <1>9, <2>1, <2>2, <2>3
<1>11. PICK limit \in Nat : limit = call.limit
  BY <1>1
<1>12. ASSUME NEW ids \in Seq(Nat), IsInjective(ids), IdsOf(ids) \subseteq current \cap Passing, Finish(ids)
       PROVE  SafeInv'
  BY <1>1, <1>12, FinishStep
<1>13. ASSUME Finish(Truncate(passing, limit)) PROVE SafeInv'
  <2>1. /\ Truncate(passing, limit) \in Seq(Nat) /\ IsInjective(Truncate(passing, limit))
        /\ IdsOf(Truncate(passing, limit)) \subseteq IdsOf(passing)
    BY <1>7, FilteredIds
  <2> QED
    BY <1>6, <1>7, <1>12, <1>13, <2>1
<1>14. ASSUME Finish(Truncate(found, limit)) PROVE SafeInv'
  <2>1. /\ Truncate(found, limit) \in Seq(Nat) /\ IsInjective(Truncate(found, limit))
        /\ IdsOf(Truncate(found, limit)) \subseteq IdsOf(found)
    BY <1>10, FilteredIds
  <2> QED
    BY <1>10, <1>12, <1>14, <2>1
<1>15. ASSUME call.kind = "plain", Finish(scored) PROVE SafeInv'
  <2>1. IdsOf(scored) \subseteq current \cap Passing
    BY <1>15, PlainPasses DEF SafeInv, WereCurrent
  <2> QED
    BY <1>12, <1>15, <2>1
<1>16. Finish(prior) => SafeInv'
  BY <1>9, <1>12
<1>17. Finish(found) => SafeInv'
  BY <1>10, <1>12
<1>18. ASSUME NextBatch(fresh, passing) PROVE SafeInv'
  <2>1. IdsOf(fresh) \subseteq Ids \ loop.seen /\ IdsOf(passing) \subseteq IdsOf(fresh) \cap current \cap Passing
    BY <1>6, <1>7
  <2> QED
    BY <1>6, <1>7, <1>18, <2>1, NextBatchStep
<1>19. \/ call.kind = "plain" /\ Finish(scored)
       \/ Finish(Truncate(passing, limit)) \/ Finish(prior)
       \/ Finish(Truncate(found, limit)) \/ Finish(found) \/ NextBatch(fresh, passing)
  BY <1>5, <1>8, <1>11, Zenon
<1> QED
  BY <1>13, <1>14, <1>15, <1>16, <1>17, <1>18, <1>19

-----------------------------------------------------------------------------
(* The text recall. *)
LEMMA FetchTextStep ==
    ASSUME SafeInv, FetchText
    PROVE  SafeInv'
<1> DEFINE valid == {id \in DOMAIN facts : IsCurrentlyValid(facts[id])}
<1>1. PICK rows : rows = Truncate(textRank, loop.fetch)
  OBVIOUS
<1>2. PICK scored : scored = Keep(rows, valid)
  OBVIOUS
<1>3. pc = "fetch" /\ Batch(scored) /\ UNCHANGED <<store, call, hybrid, ghost>>
  BY <1>1, <1>2 DEF FetchText, StillCurrent
<1>4. valid = Current /\ Current \subseteq current
  BY <1>3 DEF Current, Ids, SafeInv, WereCurrent
<1> HIDE DEF valid
<1>5. loop.fetch \in Nat /\ textRank \in Seq(Nat) /\ IsInjective(textRank)
  BY DEF SafeInv, LoopInv, StoreInv
<1>6. rows \in Seq(Nat) /\ IsInjective(rows)
  BY <1>1, <1>5, FilteredIds
<1>7. 0 \in Nat
  OBVIOUS
<1>8. scored \in Seq(Nat) /\ IsInjective(scored) /\ IdsOf(scored) = IdsOf(rows) \cap valid
  BY <1>2, <1>6, <1>7, FilteredIds
<1> QED
  BY <1>3, <1>4, <1>8, BatchStep

LEMMA TruncatePrefix ==
    ASSUME NEW T, NEW few \in Seq(T), NEW many \in Seq(T), Len(few) <= Len(many),
           SubSeq(many, 1, Len(few)) = few, NEW n \in Nat, n <= Len(few)
    PROVE  Truncate(few, n) = Truncate(many, n)
<1>1. LeastOf(n, Len(few)) = n /\ LeastOf(n, Len(many)) = n
  <2>1. Len(few) \in Nat /\ Len(many) \in Nat /\ n <= Len(many)
    OBVIOUS
  <2>2. \A m \in Nat : n <= m => LeastOf(n, m) = n
    BY DEF LeastOf
  <2> QED
    BY <2>1, <2>2
<1>2. SubSeq(few, 1, n) = SubSeq(many, 1, n)
  <2>1. /\ Len(few) \in Nat /\ Len(many) \in Nat
        /\ \A i \in 1..Len(few) : SubSeq(many, 1, Len(few))[i] = many[i]
    OBVIOUS
  <2>2. \A i \in 1..n : few[i] = many[i]
    BY <2>1
  <2>3. /\ SubSeq(few, 1, n) \in Seq(T) /\ Len(SubSeq(few, 1, n)) = n
        /\ \A i \in 1..n : SubSeq(few, 1, n)[i] = few[i]
    BY <2>1
  <2>4. /\ SubSeq(many, 1, n) \in Seq(T) /\ Len(SubSeq(many, 1, n)) = n
        /\ \A i \in 1..n : SubSeq(many, 1, n)[i] = many[i]
    BY <2>1
  <2> QED
    BY <2>2, <2>3, <2>4
<1> QED
  BY <1>1, <1>2 DEF Truncate

(* The batch of an undisturbed recall takes up where the last one ended.    *)
LEMMA FetchTextScans ==
    ASSUME RecallInv, FetchText
    PROVE  ScanInv'
<1> SUFFICES ASSUME Undisturbed'
             PROVE  /\ pc' = "fetch" => loop'.fetch <= Budget(call') /\ \E p \in 0..Len(textRank') : Scanned(p)'
                    /\ pc' = "done" => answer' = FilteredAnswer'
  BY DEF ScanInv
<1> DEFINE K(n) == Keep(SubSeq(textRank, 1, n), Passing)
           valid == {id \in DOMAIN facts : IsCurrentlyValid(facts[id])}
           rows == Truncate(textRank, loop.fetch)
           W == Ids \ loop.seen
           fresh == Keep(rows, W)
           passing == Keep(fresh, Passing)
           found == loop.found \o passing
           L == Len(textRank)
           f == LeastOf(loop.fetch, L)
           b == LeastOf(Budget(call), L)
<1>1. /\ pc = "fetch" /\ Batch(Keep(rows, valid))
      /\ UNCHANGED <<facts, textRank, call, quiet>>
  BY DEF FetchText, StillCurrent, store, ghost
<1>2. Ids' = Ids /\ Current' = Current /\ Passing' = Passing /\ FilteredAnswer' = FilteredAnswer
  BY <1>1, SameFacts
<1>3. /\ call.path = "text" /\ call.kind # "plain" /\ IdsOf(textRank) \subseteq Current /\ Undisturbed
  BY <1>1, <1>2 DEF Undisturbed
<1>4. loop.fetch <= Budget(call) /\ \E p \in 0..L : Scanned(p)
  BY <1>1, <1>3 DEF RecallInv, ScanInv
<1>5. PICK p \in 0..L : Scanned(p)
  BY <1>4
<1>6. /\ p < loop.fetch /\ loop.seen = IdsOf(SubSeq(textRank, 1, p)) /\ loop.found = K(p)
  BY <1>5 DEF Scanned
<1>7. /\ textRank \in Seq(Nat) /\ IsInjective(textRank) /\ IdsOf(textRank) \subseteq Ids
      /\ L \in Nat /\ DOMAIN textRank = 1..L /\ loop.fetch \in Nat
  BY DEF RecallInv, SafeInv, StoreInv, LoopInv
<1>8. call.limit \in Nat /\ Budget(call) \in Nat
  <2>1. call \in CallOptions
    BY CallTyped DEF RecallInv, SafeInv, CallInv
  <2> QED
    BY <2>1, FirstFetchIs DEF CallOptions
<1>9. p \in 0..L /\ f \in p..L /\ f \in 0..L /\ b \in f..L /\ b \in 0..L
  BY <1>4, <1>6, <1>7, <1>8 DEF LeastOf
<1>10. rows = SubSeq(textRank, 1, f) /\ Len(rows) = f /\ rows \in Seq(Nat)
       /\ IdsOf(rows) \subseteq IdsOf(textRank)
  BY <1>7, TruncateIs
<1>11. Keep(rows, valid) = rows
  <2>1. IdsOf(rows) \subseteq valid
    BY <1>3, <1>10 DEF Current, Ids
  <2> HIDE DEF rows, valid
  <2> QED
    BY <1>10, <2>1, KeepAll
<1>12. IF rows = <<>> THEN Finish(loop.found)
       ELSE IF Len(found) >= call.limit THEN Finish(Truncate(found, call.limit))
       ELSE IF LastBatch(rows, fresh) THEN Finish(found)
       ELSE NextBatch(fresh, passing)
  <2>1. Batch(rows)
    BY <1>1, <1>11
  <2> HIDE DEF rows
  <2> QED
    BY <1>3, <2>1 DEF Batch
<1>13. \A i \in 1..p : textRank[i] \notin W
  <2>1. /\ IdsOf(SubSeq(textRank, 1, p)) = {textRank[i] : i \in 1..p}
    BY <1>7, PrefixIds
  <2> QED
    BY <1>6, <2>1
<1>14. \A i \in p + 1..L : textRank[i] \in W
  <2> SUFFICES ASSUME NEW i \in p + 1..L, textRank[i] \in loop.seen PROVE FALSE
    BY <1>7 DEF IdsOf
  <2>1. IdsOf(SubSeq(textRank, 1, p)) = {textRank[j] : j \in 1..p}
    BY <1>7, PrefixIds
  <2>2. PICK j \in 1..p : textRank[i] = textRank[j]
    BY <1>6, <2>1
  <2>3. i \in DOMAIN textRank /\ j \in DOMAIN textRank /\ i # j
    BY <1>7
  <2> QED
    BY <1>7, <2>2, <2>3 DEF IsInjective
<1> HIDE DEF W, L
<1>15. found = K(f)
  <2>1. Keep(SubSeq(textRank, 1, p), Passing) \o Keep(Keep(SubSeq(textRank, 1, f), W), Passing)
          = Keep(SubSeq(textRank, 1, f), Passing)
    <3>1. \A i \in p + 1..Len(textRank) : textRank[i] \in W
      BY <1>14 DEF L
    <3>2. p \in 0..Len(textRank) /\ f \in p..Len(textRank)
      BY <1>9 DEF L
    <3> HIDE DEF f
    <3> QED
      BY <1>7, <1>13, <3>1, <3>2, KeepRest
  <2> QED
    BY <1>6, <1>10, <2>1
<1>16. FilteredAnswer = Truncate(K(b), call.limit)
  <2>1. Truncate(textRank, Budget(call)) = SubSeq(textRank, 1, b)
    BY DEF Truncate, L
  <2> QED
    BY <2>1 DEF FilteredAnswer
<1>17. /\ K(f) \in Seq(Nat) /\ K(b) \in Seq(Nat)
       /\ Len(K(f)) <= Len(K(b)) /\ SubSeq(K(b), 1, Len(K(f))) = K(f)
  <2>1. f \in 0..Len(textRank) /\ b \in f..Len(textRank)
    BY <1>9 DEF L
  <2> HIDE DEF f, b
  <2> QED
    BY <1>7, <2>1, KeepMore
<1> DEFINE Kf == K(f)
           Kb == K(b)
<1>18. /\ Kf \in Seq(Nat) /\ Kb \in Seq(Nat) /\ Len(Kf) <= Len(Kb) /\ SubSeq(Kb, 1, Len(Kf)) = Kf
       /\ Len(Kf) \in Nat /\ found = Kf /\ FilteredAnswer = Truncate(Kb, call.limit)
       /\ f = b => Kf = Kb
  BY <1>15, <1>16, <1>17
<1>19. f = b /\ Len(Kf) <= call.limit => FilteredAnswer = Kf
  <2> HIDE DEF Kf, Kb
  <2>1. Len(Kb) <= call.limit => Truncate(Kb, call.limit) = Kb
    BY <1>8, <1>18, TruncateIs
  <2> QED
    BY <1>18, <2>1
<1>20. f < loop.fetch \/ loop.fetch >= Budget(call) => f = b
  BY <1>4, <1>7, <1>8 DEF LeastOf
<1>21. ASSUME fresh = << >> PROVE f = b
  <2>1. IdsOf(fresh) = IdsOf(rows) \cap W
    <3> HIDE DEF rows, W
    <3> QED
      BY <1>10, KeepIds
  <2>2. IdsOf(<< >>) = {}
    BY DEF IdsOf
  <2>3. IdsOf(rows) \cap W = {}
    BY <1>21, <2>1, <2>2
  <2>4. IdsOf(rows) = {textRank[i] : i \in 1..f}
    <3>1. f \in 0..Len(textRank)
      BY <1>9 DEF L
    <3>2. IdsOf(SubSeq(textRank, 1, f)) = {textRank[i] : i \in 1..f}
      <4> HIDE DEF f
      <4> QED
        BY <1>7, <3>1, PrefixIds
    <3> QED
      BY <1>10, <3>2
  <2>5. ~(p < f)
    <3> SUFFICES ASSUME p < f PROVE FALSE
      OBVIOUS
    <3>1. p + 1 \in p + 1..L /\ p + 1 \in 1..f
      BY <1>7, <1>9
    <3> QED
      BY <1>14, <2>3, <2>4, <3>1
  <2> QED
    BY <1>6, <1>7, <1>9, <1>20, <2>5
<1>22. CASE rows = << >>
  <2>1. f = 0 /\ 0 < loop.fetch
    <3>1. Len(<< >>) = 0
      OBVIOUS
    <3> QED
      BY <1>6, <1>7, <1>9, <1>10, <1>22, <3>1
  <2>2. f = b /\ p = 0
    BY <1>7, <1>9, <1>20, <2>1
  <2>3. SubSeq(textRank, 1, 0) = << >> /\ K(0) = << >>
    <3>1. SubSeq(textRank, 1, 0) = << >>
      BY <1>7
    <3> QED
      BY <3>1, KeepEmpty
  <2>4. loop.found = << >> /\ Kf = << >> /\ Len(<< >>) = 0
    BY <1>6, <2>1, <2>2, <2>3
  <2>5. FilteredAnswer = loop.found
    BY <1>8, <1>19, <2>2, <2>4
  <2>6. answer' = loop.found /\ pc' = "done"
    BY <1>12, <1>22 DEF Finish
  <2> QED
    BY <1>2, <2>5, <2>6
<1>23. CASE rows # << >> /\ Len(found) >= call.limit
  <2>1. answer' = Truncate(Kf, call.limit) /\ pc' = "done"
    BY <1>12, <1>18, <1>23 DEF Finish
  <2>2. Truncate(Kf, call.limit) = Truncate(Kb, call.limit)
    <3>1. call.limit <= Len(Kf)
      BY <1>8, <1>18, <1>23
    <3> HIDE DEF Kf, Kb
    <3> QED
      BY <1>8, <1>18, <3>1, TruncatePrefix
  <2> QED
    BY <1>2, <1>18, <2>1, <2>2
<1>24. CASE rows # << >> /\ ~(Len(found) >= call.limit) /\ LastBatch(rows, fresh)
  <2>1. answer' = Kf /\ pc' = "done"
    BY <1>12, <1>18, <1>24 DEF Finish
  <2>2. Len(Kf) <= call.limit
    BY <1>8, <1>18, <1>24
  <2>3. fresh = << >> \/ loop.fetch >= Budget(call) \/ f < loop.fetch
    <3> HIDE DEF fresh, rows
    <3> QED
      BY <1>10, <1>24 DEF LastBatch
  <2>4. f = b
    BY <1>20, <1>21, <2>3
  <2> QED
    BY <1>2, <1>19, <2>1, <2>2, <2>4
<1>25. CASE rows # << >> /\ ~(Len(found) >= call.limit) /\ ~LastBatch(rows, fresh)
  <2>1. NextBatch(fresh, passing)
    BY <1>12, <1>25
  <2>2. pc' = "fetch"
    BY <1>3, <2>1 DEF NextBatch, FirstStep
  <2>3. loop.fetch < Budget(call) /\ f = loop.fetch
    <3>1. ~(loop.fetch >= Budget(call)) /\ ~(Len(rows) < loop.fetch)
      BY <1>25 DEF LastBatch
    <3> QED
      BY <1>7, <1>8, <1>9, <1>10, <3>1 DEF LeastOf
  <2>4. 0 < loop.fetch
    BY <1>6, <1>7, <1>9
  <2>5. /\ loop'.seen = loop.seen \cup IdsOf(fresh) /\ loop'.found = found
        /\ loop.fetch < loop'.fetch /\ loop'.fetch <= Budget(call)
    <3> HIDE DEF fresh, passing
    <3> QED
      BY <2>1, <2>3, <2>4, NextFetch DEF RecallInv
  <2>6. loop'.seen = IdsOf(SubSeq(textRank, 1, f))
    <3>1. IdsOf(fresh) = IdsOf(rows) \cap W
      <4> HIDE DEF rows, W
      <4> QED
        BY <1>10, KeepIds
    <3>2. f \in 0..Len(textRank) /\ p \in 0..Len(textRank)
      BY <1>9 DEF L
    <3>3. /\ IdsOf(SubSeq(textRank, 1, f)) = {textRank[i] : i \in 1..f}
          /\ IdsOf(SubSeq(textRank, 1, p)) = {textRank[i] : i \in 1..p}
      <4> HIDE DEF f
      <4> QED
        BY <1>7, <3>2, PrefixIds
    <3>4. loop.seen \subseteq IdsOf(rows)
      BY <1>6, <1>9, <1>10, <3>3
    <3>5. IdsOf(rows) \subseteq Ids
      BY <1>7, <1>10
    <3> QED
      BY <1>10, <2>5, <3>1, <3>4, <3>5 DEF W
  <2>7. PICK q : q = f
    OBVIOUS
  <2>8. q \in 0..Len(textRank')
    BY <1>1, <1>9, <2>7 DEF L
  <2>9. \E r \in 0..Len(textRank') : Scanned(r)'
    <3>1. Scanned(q)'
      <4> HIDE DEF f, found
      <4>1. /\ q < loop'.fetch /\ loop'.seen = IdsOf(SubSeq(textRank', 1, q))
            /\ loop'.found = Keep(SubSeq(textRank', 1, q), Passing')
        BY <1>1, <1>2, <1>15, <2>3, <2>5, <2>6, <2>7
      <4> QED
        BY <4>1 DEF Scanned
    <3> QED
      BY <2>8, <3>1
  <2> QED
    BY <1>1, <2>2, <2>5, <2>9
<1> QED
  BY <1>22, <1>23, <1>24, <1>25

-----------------------------------------------------------------------------
(* The hybrid and the vector search. *)
LEMMA NoHybridIs ==
    NoHybrid \in Gathered
<1>1. << >> \in Seq(Nat) /\ << >> \in Seq(Hit) /\ {} \in SUBSET Nat
  OBVIOUS
<1>2. << >> \in UNION {[D -> StoredFact] : D \in SUBSET Nat}
  <2>1. << >> \in [{} -> StoredFact]
    OBVIOUS
  <2> QED
    BY <1>1, <2>1
<1> QED
  BY <1>1, <1>2 DEF NoHybrid, Gathered

LEMMA TopAllowedIs ==
    ASSUME NEW s \in Seq(Nat), IsInjective(s), NEW S, NEW k \in Nat
    PROVE  /\ TopAllowed(s, S, k) \in Seq(Nat) /\ IsInjective(TopAllowed(s, S, k))
           /\ IdsOf(TopAllowed(s, S, k)) \subseteq IdsOf(s) \cap S
           /\ Len(TopAllowed(s, S, k)) < k => IdsOf(TopAllowed(s, S, k)) = IdsOf(s) \cap S
<1> DEFINE kept == Keep(s, S)
<1>1. kept \in Seq(Nat) /\ IsInjective(kept) /\ IdsOf(kept) = IdsOf(s) \cap S
  BY FilteredIds
<1> HIDE DEF kept
<1>2. /\ Len(Truncate(kept, k)) < k => Truncate(kept, k) = kept
      /\ Truncate(kept, k) \in Seq(Nat) /\ IdsOf(Truncate(kept, k)) \subseteq IdsOf(kept)
      /\ IsInjective(kept) => IsInjective(Truncate(kept, k))
  BY <1>1, TruncateIs
<1>3. TopAllowed(s, S, k) = Truncate(kept, k)
  BY DEF TopAllowed, kept
<1> QED
  BY <1>1, <1>2, <1>3

(* A step of the search that leaves the rest of the call alone. *)
LEMMA TransitionStep ==
    ASSUME SafeInv, NEW from \in {"text", "allow", "hits", "fuse", "resolve"},
           NEW to \in {"allow", "hits", "fuse", "resolve"}, Transition(from, to),
           call.path # "text", to \in {"fuse", "resolve"} => call.path = "hybrid",
           HybridInv', hybrid'.allowed \subseteq current,
           \A id \in DOMAIN hybrid'.resolved : IsCurrentlyValid(hybrid'.resolved[id]) => id \in current,
           to = "hits" => indexed \cap Current \subseteq hybrid'.allowed,
           to = "fuse" /\ Len(hybrid'.hits) < Window => indexed \cap Current \subseteq IdsOf(hybrid'.hits)
    PROVE  RecallInv'
<1>1. /\ pc = from /\ pc' = to
      /\ UNCHANGED <<facts, textRank, similar, unindexed, call, loop, answer, current, indexed, quiet>>
  BY DEF Transition, store, ghost
<1>2. Ids' = Ids /\ Current' = Current /\ Passing' = Passing
  BY <1>1, SameFacts
<1>3. StoreInv'
  BY <1>1, <1>2 DEF StoreInv, SafeInv
<1>4. CallInv'
  BY <1>1 DEF CallInv, SafeInv, Steps
<1>5. LoopInv'
  BY <1>1, <1>2 DEF LoopInv, SafeInv
<1>6. WereCurrent'
  BY <1>1, <1>2 DEF WereCurrent, SafeInv
<1>7. IndexInv'
  BY <1>1, <1>2 DEF IndexInv, VectorSearchComplete, SafeInv
<1>8. ScanInv'
  BY <1>1 DEF ScanInv, Undisturbed
<1> QED
  BY <1>3, <1>4, <1>5, <1>6, <1>7, <1>8 DEF RecallInv, SafeInv

(* What the search has gathered, field by field. *)
LEMMA GatheredIs ==
    ASSUME SafeInv
    PROVE  /\ hybrid \in Gathered
           /\ hybrid.texts \in Seq(Nat) /\ hybrid.allowed \in SUBSET Nat /\ hybrid.hits \in Seq(Nat)
           /\ hybrid.fused \in Seq(Hit)
           /\ \A id \in DOMAIN hybrid.resolved : hybrid.resolved[id] \in StoredFact
<1>1. hybrid \in Gathered
  BY DEF SafeInv, HybridInv
<1>2. /\ hybrid.texts \in Seq(Nat) /\ hybrid.allowed \in SUBSET Nat /\ hybrid.hits \in Seq(Nat)
      /\ hybrid.fused \in Seq(Hit) /\ hybrid.resolved \in UNION {[D -> StoredFact] : D \in SUBSET Nat}
  BY <1>1 DEF Gathered
<1> QED
  BY <1>1, <1>2

LEMMA TextChannelStep ==
    ASSUME RecallInv, TextChannel
    PROVE  RecallInv'
<1>1. PICK rows : rows = Truncate(textRank, Window)
  OBVIOUS
<1>2. Transition("text", "allow") /\ hybrid' = [NoHybrid EXCEPT !.texts = rows] /\ pc = "text" /\ pc' = "allow"
  BY <1>1 DEF TextChannel, Transition
<1>3. textRank \in Seq(Nat) /\ IsInjective(textRank) /\ IdsOf(textRank) \subseteq Ids /\ Window \in Nat
  BY RowsAssumption DEF RecallInv, SafeInv, StoreInv
<1>4. rows \in Seq(Nat) /\ IdsOf(rows) \subseteq Ids
  <2>1. Truncate(textRank, Window) \in Seq(Nat) /\ IdsOf(Truncate(textRank, Window)) \subseteq IdsOf(textRank)
    BY <1>3, FilteredIds
  <2> QED
    BY <1>1, <1>3, <2>1
<1>5. /\ hybrid' \in Gathered /\ hybrid'.texts = rows /\ hybrid'.allowed = {} /\ hybrid'.hits = << >>
      /\ hybrid'.fused = << >> /\ hybrid'.resolved = << >>
  <2>1. /\ NoHybrid.allowed = {} /\ NoHybrid.hits = << >> /\ NoHybrid.fused = << >>
        /\ NoHybrid.resolved = << >>
    BY DEF NoHybrid
  <2> QED
    BY <1>2, <1>4, <2>1, NoHybridIs DEF Gathered
<1>6. Ids' = Ids
  BY <1>2, SameFacts DEF Transition, store
<1>7. DOMAIN << >> = {} /\ IdsOf(<< >>) = {} /\ HitIds(<< >>) = {} /\ DistinctIds(<< >>) /\ IsFiniteSet({})
  BY FS_EmptySet DEF IdsOf, HitIds, DistinctIds
<1>8. HybridInv'
  BY <1>4, <1>5, <1>6, <1>7 DEF HybridInv
<1>9. call.path = "hybrid"
  BY <1>2 DEF RecallInv, SafeInv, CallInv
<1> QED
  BY <1>2, <1>5, <1>7, <1>8, <1>9, TransitionStep DEF RecallInv

LEMMA AllowSetStep ==
    ASSUME RecallInv, AllowSet
    PROVE  RecallInv'
<1>1. /\ Transition("allow", "hits") /\ pc = "allow" /\ pc' = "hits"
      /\ hybrid' = [hybrid EXCEPT !.allowed = Current]
  BY DEF AllowSet, Transition
<1>2. Ids' = Ids
  BY <1>1, SameFacts DEF Transition, store
<1>3. Current \subseteq Ids /\ Current \in SUBSET Nat /\ Current \subseteq current
  <2>1. Current \subseteq Ids
    BY DEF Current
  <2>2. Ids \subseteq Nat
    BY IdsAre DEF RecallInv, SafeInv, StoreInv
  <2> QED
    BY <1>1, <2>1, <2>2 DEF RecallInv, SafeInv, WereCurrent
<1>4. /\ hybrid' \in Gathered /\ hybrid'.allowed = Current /\ hybrid'.texts = hybrid.texts
      /\ hybrid'.hits = hybrid.hits /\ hybrid'.fused = hybrid.fused /\ hybrid'.resolved = hybrid.resolved
  <2>1. hybrid \in Gathered
    BY DEF RecallInv, SafeInv, HybridInv
  <2> HIDE DEF Current
  <2> QED
    BY <1>1, <1>3, <2>1 DEF Gathered
<1>5. DOMAIN hybrid.resolved = {}
  BY <1>1 DEF RecallInv, SafeInv, HybridInv
<1>6. HybridInv'
  BY <1>1, <1>2, <1>4, <1>5 DEF HybridInv, RecallInv, SafeInv
<1>7. call.path # "text"
  BY <1>1 DEF RecallInv, SafeInv, CallInv
<1> QED
  BY <1>1, <1>3, <1>4, <1>5, <1>6, <1>7, TransitionStep DEF RecallInv

(* The entries that are searched are all those in the index, filtered by    *)
(* the facts that were current when the filter was made.                    *)
LEMMA SimilarAllowed ==
    ASSUME SafeInv, pc = "hits", NEW k \in Nat, NEW top, top = TopAllowed(similar, hybrid.allowed, k)
    PROVE  /\ top \in Seq(Nat) /\ IsInjective(top) /\ IdsOf(top) \subseteq Ids \cap current
           /\ Len(top) < k => indexed \cap Current \subseteq IdsOf(top)
<1>1. similar \in Seq(Nat) /\ IsInjective(similar) /\ IdsOf(similar) \subseteq Ids
  BY DEF SafeInv, StoreInv
<1>2. /\ top \in Seq(Nat) /\ IsInjective(top) /\ IdsOf(top) \subseteq IdsOf(similar) \cap hybrid.allowed
      /\ Len(top) < k => IdsOf(top) = IdsOf(similar) \cap hybrid.allowed
  BY <1>1, TopAllowedIs
<1>3. /\ hybrid.allowed \subseteq current /\ indexed \subseteq IdsOf(similar)
      /\ indexed \cap Current \subseteq hybrid.allowed
  BY DEF SafeInv, WereCurrent, IndexInv
<1> QED
  BY <1>1, <1>2, <1>3

LEMMA HybridHitsStep ==
    ASSUME RecallInv, HybridHits
    PROVE  RecallInv'
<1>1. PICK top : top = TopAllowed(similar, hybrid.allowed, Window)
  OBVIOUS
<1>2. /\ Transition("hits", "fuse") /\ hybrid' = [hybrid EXCEPT !.hits = top] /\ pc = "hits" /\ pc' = "fuse"
      /\ call.path = "hybrid"
  BY <1>1 DEF HybridHits, Transition
<1>3. Ids' = Ids
  BY <1>2, SameFacts DEF Transition, store
<1>4. /\ top \in Seq(Nat) /\ IdsOf(top) \subseteq Ids
      /\ Len(top) < Window => indexed \cap Current \subseteq IdsOf(top)
  BY <1>1, <1>2, SimilarAllowed, RowsAssumption DEF RecallInv
<1>5. /\ hybrid' \in Gathered /\ hybrid'.hits = top /\ hybrid'.allowed = hybrid.allowed
      /\ hybrid'.texts = hybrid.texts /\ hybrid'.fused = hybrid.fused /\ hybrid'.resolved = hybrid.resolved
  <2>1. hybrid \in Gathered
    BY DEF RecallInv, SafeInv, HybridInv
  <2> QED
    BY <1>2, <1>4, <2>1 DEF Gathered
<1>6. DOMAIN hybrid.resolved = {} /\ hybrid.allowed \subseteq current
  BY <1>2 DEF RecallInv, SafeInv, HybridInv, WereCurrent
<1>7. HybridInv'
  BY <1>2, <1>3, <1>4, <1>5, <1>6 DEF HybridInv, RecallInv, SafeInv
<1> QED
  BY <1>2, <1>4, <1>5, <1>6, <1>7, TransitionStep DEF RecallInv

LEMMA VectorAnswerStep ==
    ASSUME RecallInv, VectorAnswer
    PROVE  RecallInv'
<1>1. call.limit \in Nat
  BY CallTyped DEF RecallInv, SafeInv, CallInv, CallOptions
<1>2. PICK k \in Nat : k = call.limit
  BY <1>1
<1>3. PICK top : top = TopAllowed(similar, hybrid.allowed, k)
  OBVIOUS
<1>4. /\ pc = "hits" /\ call.path = "vector" /\ Finish(top) /\ UNCHANGED <<store, call, hybrid, ghost>>
  BY <1>2, <1>3 DEF VectorAnswer
<1>5. /\ top \in Seq(Nat) /\ IsInjective(top) /\ IdsOf(top) \subseteq current
      /\ Len(top) < call.limit => indexed \cap Current \subseteq IdsOf(top)
  BY <1>2, <1>3, <1>4, SimilarAllowed DEF RecallInv
<1>6. SafeInv'
  <2>1. call.kind = "plain"
    BY <1>4, ScenariosAssumption DEF RecallInv, SafeInv, CallInv, Calls
  <2>2. IdsOf(top) \subseteq Passing
    BY <1>5, <2>1, PlainPasses DEF RecallInv, SafeInv, WereCurrent
  <2> QED
    BY <1>4, <1>5, <2>2, FinishStep DEF RecallInv
<1>7. ScanInv'
  BY <1>4 DEF ScanInv, Undisturbed
<1> QED
  BY <1>6, <1>7 DEF RecallInv

LEMMA FuseHitsStep ==
    ASSUME RecallInv, FuseHits
    PROVE  RecallInv'
<1>1. PICK arrival \in Orders(Candidates) :
        hybrid' = [hybrid EXCEPT !.fused = Fuse(hybrid.texts, hybrid.hits, arrival, Window)]
  BY DEF FuseHits
<1>2. PICK fused : fused = Fuse(hybrid.texts, hybrid.hits, arrival, Window)
  OBVIOUS
<1>3. /\ Transition("fuse", "resolve") /\ pc = "fuse" /\ pc' = "resolve"
      /\ hybrid' = [hybrid EXCEPT !.fused = fused]
  BY <1>1, <1>2 DEF FuseHits, Transition
<1>4. /\ hybrid \in Gathered /\ hybrid.texts \in Seq(Nat) /\ hybrid.hits \in Seq(Nat)
  BY GatheredIs DEF RecallInv
<1>5. Candidates \subseteq Ids /\ IsFiniteSet(Candidates) /\ Ids \subseteq Nat
  <2>1. IsFiniteSet(Ids) /\ Ids \subseteq Nat
    BY IdsAre DEF RecallInv, SafeInv, StoreInv
  <2>2. Candidates \subseteq Ids
    BY DEF Candidates, RecallInv, SafeInv, HybridInv
  <2> HIDE DEF Candidates
  <2> QED
    BY <2>1, <2>2, FS_Subset
<1>6. arrival \in Seq(Nat) /\ IsInjective(arrival) /\ IdsOf(arrival) \subseteq Ids
  <2> HIDE DEF Candidates
  <2>1. arrival \in Arrangements(Candidates)
    BY <1>1 DEF Orders
  <2>2. arrival \in Seq(Candidates) /\ IsInjective(arrival) /\ IdsOf(arrival) \subseteq Candidates
    BY <1>5, <2>1, ArrangementsAre
  <2>3. arrival \in Seq(Nat)
    <3>1. Candidates \subseteq Nat
      BY <1>5
    <3> QED
      BY <2>2, <3>1, SeqWiden
  <2> QED
    BY <1>5, <2>2, <2>3
<1>7. fused \in Seq(Hit) /\ DistinctIds(fused) /\ HitIds(fused) \subseteq Ids
  <2>1. Window \in Nat
    BY RowsAssumption
  <2> QED
    BY <1>2, <1>4, <1>6, <2>1, FuseHitsOnce
<1>8. /\ hybrid' \in Gathered /\ hybrid'.fused = fused /\ hybrid'.allowed = hybrid.allowed
      /\ hybrid'.texts = hybrid.texts /\ hybrid'.hits = hybrid.hits /\ hybrid'.resolved = hybrid.resolved
  BY <1>3, <1>4, <1>7 DEF Gathered
<1>9. DOMAIN hybrid.resolved = {} /\ hybrid.allowed \subseteq current /\ call.path = "hybrid"
  BY <1>3 DEF RecallInv, SafeInv, HybridInv, WereCurrent, CallInv
<1>10. Ids' = Ids
  BY <1>3, SameFacts DEF Transition, store
<1>11. HybridInv'
  BY <1>3, <1>7, <1>8, <1>9, <1>10 DEF HybridInv, RecallInv, SafeInv
<1> QED
  BY <1>3, <1>8, <1>9, <1>11, TransitionStep DEF RecallInv

(* The copy of a fact is taken under the lock: a copy that is current was   *)
(* taken while the fact was.                                                *)
LEMMA ResolveStep ==
    ASSUME RecallInv, Resolve
    PROVE  RecallInv'
<1>1. PICK got : got = DOMAIN hybrid.resolved
  OBVIOUS
<1>2. PICK id : id = hybrid.fused[Cardinality(got) + 1].id
  OBVIOUS
<1>3. PICK resolved :
        resolved = [i \in got \cup {id} |-> IF i \in got THEN hybrid.resolved[i] ELSE facts[i]]
  OBVIOUS
<1>4. /\ Cardinality(got) < Len(hybrid.fused)
      /\ Transition("resolve", "resolve") /\ pc = "resolve" /\ pc' = "resolve"
      /\ hybrid' = [hybrid EXCEPT !.resolved = resolved]
  BY <1>1, <1>2, <1>3 DEF Resolve, Transition
<1>5. /\ hybrid \in Gathered /\ hybrid.fused \in Seq(Hit)
      /\ \A i \in DOMAIN hybrid.resolved : hybrid.resolved[i] \in StoredFact
  BY GatheredIs DEF RecallInv
<1>6. /\ IsFiniteSet(DOMAIN hybrid.resolved) /\ DOMAIN hybrid.resolved \subseteq HitIds(hybrid.fused)
      /\ HitIds(hybrid.fused) \subseteq Ids /\ hybrid.allowed \subseteq current /\ Current \subseteq current
      /\ \A i \in DOMAIN hybrid.resolved : IsCurrentlyValid(hybrid.resolved[i]) => i \in current
      /\ call.path = "hybrid"
  BY <1>4 DEF RecallInv, SafeInv, HybridInv, WereCurrent, CallInv
<1>7. id \in HitIds(hybrid.fused)
  <2>1. Cardinality(got) \in Nat
    BY <1>1, <1>6, FS_CardinalityType
  <2>2. Cardinality(got) + 1 \in DOMAIN hybrid.fused
    BY <1>4, <1>5, <2>1
  <2> QED
    BY <1>2, <2>2 DEF HitIds
<1>8. id \in Ids /\ Ids \subseteq Nat /\ facts[id] \in StoredFact
  BY <1>6, <1>7, IdsAre DEF RecallInv, SafeInv, StoreInv
<1>9. /\ DOMAIN resolved = DOMAIN hybrid.resolved \cup {id}
      /\ resolved = [i \in DOMAIN resolved |-> resolved[i]]
      /\ \A i \in DOMAIN hybrid.resolved : resolved[i] = hybrid.resolved[i]
      /\ id \notin DOMAIN hybrid.resolved => resolved[id] = facts[id]
  BY <1>1, <1>3
<1>10. IsFiniteSet(DOMAIN resolved) /\ DOMAIN resolved \subseteq HitIds(hybrid.fused)
  <2>1. IsFiniteSet(DOMAIN hybrid.resolved \cup {id})
    BY <1>6, FS_AddElement
  <2> QED
    BY <1>6, <1>7, <1>9, <2>1
<1>11. resolved \in UNION {[D -> StoredFact] : D \in SUBSET Nat}
  <2>1. \A i \in DOMAIN resolved : resolved[i] \in StoredFact
    BY <1>5, <1>8, <1>9
  <2>2. resolved \in [DOMAIN resolved -> StoredFact]
    BY <1>9, <2>1
  <2>3. DOMAIN resolved \in SUBSET Nat
    BY <1>6, <1>8, <1>10
  <2> QED
    BY <2>2, <2>3
<1>12. \A i \in DOMAIN resolved : IsCurrentlyValid(resolved[i]) => i \in current
  <2>1. IsCurrentlyValid(facts[id]) => id \in current
    BY <1>6, <1>8 DEF Current
  <2> QED
    BY <1>6, <1>9, <2>1
<1>13. /\ hybrid' \in Gathered /\ hybrid'.resolved = resolved /\ hybrid'.allowed = hybrid.allowed
       /\ hybrid'.texts = hybrid.texts /\ hybrid'.hits = hybrid.hits /\ hybrid'.fused = hybrid.fused
  BY <1>4, <1>5, <1>11 DEF Gathered
<1>14. Ids' = Ids
  BY <1>4, SameFacts DEF Transition, store
<1>15. HybridInv'
  BY <1>4, <1>10, <1>13, <1>14 DEF HybridInv, RecallInv, SafeInv
<1> QED
  BY <1>4, <1>6, <1>12, <1>13, <1>15, TransitionStep DEF RecallInv

LEMMA RerankHitsStep ==
    ASSUME RecallInv, RerankHits
    PROVE  RecallInv'
<1>1. PICK k : k = IF call.kind = "plain" THEN call.limit ELSE loop.fetch
  OBVIOUS
<1>2. PICK ranked : ranked = Rerank(hybrid.fused, hybrid.resolved, k, call.intent, call.op, Now)
  OBVIOUS
<1>3. PICK ids : ids = [i \in DOMAIN ranked |-> ranked[i].id]
  OBVIOUS
<1>4. PICK valid : valid = {id \in DOMAIN hybrid.resolved : IsCurrentlyValid(hybrid.resolved[id])}
  OBVIOUS
<1>5. PICK scored : scored = Keep(ids, valid)
  OBVIOUS
<1>6. /\ pc = "resolve" /\ DOMAIN hybrid.resolved = {h.id : h \in IdsOf(hybrid.fused)}
      /\ Batch(scored) /\ UNCHANGED <<store, call, hybrid, ghost>>
  BY <1>1, <1>2, <1>3, <1>4, <1>5 DEF RerankHits, StillCurrent
<1>7. /\ hybrid.fused \in Seq(Hit) /\ \A id \in DOMAIN hybrid.resolved : hybrid.resolved[id] \in StoredFact
  BY GatheredIs DEF RecallInv
<1>8. DistinctIds(hybrid.fused) /\ valid \subseteq current /\ call.path = "hybrid"
  BY <1>4, <1>6 DEF RecallInv, SafeInv, HybridInv, WereCurrent, CallInv
<1>9. HitIds(hybrid.fused) = DOMAIN hybrid.resolved
  BY <1>6 DEF HitIds, IdsOf
<1>10. k \in Nat /\ call.intent \in Intents /\ call.op \in Operators /\ Now \in Int
  <2>1. call \in CallOptions
    BY CallTyped DEF RecallInv, SafeInv, CallInv
  <2>2. call.limit \in Nat /\ call.intent \in Intents /\ call.op \in Operators
    BY <2>1 DEF CallOptions
  <2> QED
    BY <1>1, <2>2, BoundsAssumption DEF RecallInv, SafeInv, LoopInv
<1>11. ranked \in Seq(Hit) /\ DistinctIds(ranked)
  BY <1>2, <1>7, <1>8, <1>9, <1>10, RerankOnce
<1>12. ids \in Seq(Nat) /\ IsInjective(ids)
  <2>1. DOMAIN ranked = 1..Len(ranked) /\ Len(ranked) \in Nat /\ \A i \in DOMAIN ranked : ranked[i] \in Hit
    BY <1>11
  <2>2. \A i \in DOMAIN ranked : ranked[i].id \in Nat
    BY <2>1 DEF Hit
  <2>3. ids \in Seq(Nat)
    BY <1>3, <2>1, <2>2
  <2> QED
    BY <1>3, <1>11, <2>3 DEF IsInjective, DistinctIds
<1>13. 0 \in Nat
  OBVIOUS
<1>14. scored \in Seq(Nat) /\ IsInjective(scored) /\ IdsOf(scored) = IdsOf(ids) \cap valid
  BY <1>5, <1>12, <1>13, FilteredIds
<1>15. SafeInv'
  BY <1>6, <1>8, <1>14, BatchStep DEF RecallInv
<1>16. ScanInv'
  BY <1>6, <1>8 DEF ScanInv, Undisturbed
<1> QED
  BY <1>15, <1>16 DEF RecallInv

-----------------------------------------------------------------------------
(* The theorems. *)
LEMMA InitInv ==
    Init => RecallInv
<1> SUFFICES ASSUME Init PROVE RecallInv
  OBVIOUS
<1>1. PICK s \in Scenarios : facts = s.facts /\ call = s.call /\ writes = s.writes
  BY DEF Init
<1>2. facts \in Seq(StoredFact) /\ Len(facts) <= MaxFacts /\ call \in Calls
  BY <1>1, ScenariosAssumption DEF Calls
<1>3. IsFiniteSet(Ids) /\ Ids \subseteq Nat
  BY <1>2, IdsAre
<1>4. textRank \in Seq(Nat) /\ IsInjective(textRank) /\ IdsOf(textRank) \subseteq Ids
  <2>1. textRank \in Arrangements(Ids)
    BY DEF Init
  <2>2. textRank \in Seq(Ids) /\ IsInjective(textRank) /\ IdsOf(textRank) \subseteq Ids
    BY <1>3, <2>1, ArrangementsAre
  <2> QED
    BY <1>3, <2>2, SeqWiden
<1>5. IdsOf(<< >>) = {} /\ IsInjective(<< >>) /\ << >> \in Seq(Nat) /\ DOMAIN << >> = {}
  BY DEF IdsOf, IsInjective
<1>6. similar \in Seq(Nat) /\ IsInjective(similar) /\ IdsOf(similar) \subseteq Ids
  <2>1. CASE call.path = "text"
    BY <1>5, <2>1 DEF Init
  <2>2. CASE call.path # "text"
    <3>1. Ids \cap Embedded \subseteq Nat /\ IsFiniteSet(Ids \cap Embedded)
      BY <1>3, FS_Intersection
    <3>2. similar \in Arrangements(Ids \cap Embedded)
      BY <2>2 DEF Init, Ids
    <3>3. /\ similar \in Seq(Ids \cap Embedded) /\ IsInjective(similar)
          /\ IdsOf(similar) \subseteq Ids \cap Embedded
      BY <3>1, <3>2, ArrangementsAre
    <3>4. similar \in Seq(Nat)
      BY <3>1, <3>3, SeqWiden
    <3> QED
      BY <3>3, <3>4
  <2> QED
    BY <2>1, <2>2
<1>7. unindexed \subseteq Ids \ IdsOf(similar)
  BY <1>5 DEF Init, Ids
<1>8. /\ pc = "idle" /\ loop = NoLoop /\ hybrid = NoHybrid /\ answer = << >>
      /\ current = {} /\ indexed = {} /\ quiet = TRUE
  BY DEF Init
<1>9. StoreInv
  BY <1>2, <1>4, <1>6, <1>7 DEF StoreInv
<1>10. CallInv
  BY <1>2, <1>8 DEF CallInv, Steps
<1>11. NoLoop.fetch = 0 /\ NoLoop.seen = {} /\ NoLoop.found = << >>
  BY DEF NoLoop
<1>12. LoopInv
  BY <1>5, <1>8, <1>11 DEF LoopInv
<1>13. /\ NoHybrid.texts = << >> /\ NoHybrid.allowed = {} /\ NoHybrid.hits = << >>
       /\ NoHybrid.fused = << >> /\ NoHybrid.resolved = << >>
  BY DEF NoHybrid
<1>14. HitIds(<< >>) = {} /\ DistinctIds(<< >>) /\ IsFiniteSet({})
  BY <1>5, FS_EmptySet DEF HitIds, DistinctIds
<1>15. HybridInv
  BY <1>5, <1>8, <1>13, <1>14, NoHybridIs DEF HybridInv
<1>16. WereCurrent
  BY <1>5, <1>8, <1>11, <1>13 DEF WereCurrent
<1>17. IndexInv
  BY <1>8 DEF IndexInv, VectorSearchComplete
<1>18. ScanInv
  BY <1>8 DEF ScanInv
<1> QED
  BY <1>9, <1>10, <1>12, <1>15, <1>16, <1>17, <1>18 DEF RecallInv, SafeInv

LEMMA NextKeepsInv ==
    RecallInv /\ [Next]_vars => RecallInv'
<1> SUFFICES ASSUME RecallInv, [Next]_vars PROVE RecallInv'
  OBVIOUS
<1>1. CASE Begin
  BY <1>1, BeginKeepsInv
<1>2. CASE FetchText
  BY <1>2, FetchTextStep, FetchTextScans DEF RecallInv
<1>3. CASE TextChannel
  BY <1>3, TextChannelStep
<1>4. CASE AllowSet
  BY <1>4, AllowSetStep
<1>5. CASE HybridHits
  BY <1>5, HybridHitsStep
<1>6. CASE VectorAnswer
  BY <1>6, VectorAnswerStep
<1>7. CASE FuseHits
  BY <1>7, FuseHitsStep
<1>8. CASE Resolve
  BY <1>8, ResolveStep
<1>9. CASE RerankHits
  BY <1>9, RerankHitsStep
<1>10. CASE \/ \E shape \in Shapes, embedded \in BOOLEAN : AssertFact(shape, embedded)
            \/ \E id \in Ids : InsertVector(id) \/ EndFact(id)
  BY <1>10, WritersKeepInv
<1>11. CASE UNCHANGED vars
  <2>1. UNCHANGED <<facts, textRank, similar, unindexed, pc, call, loop, hybrid, answer,
                    current, indexed, quiet>>
    BY <1>11 DEF vars, store, working, ghost
  <2>2. Ids' = Ids /\ Current' = Current /\ Passing' = Passing /\ FilteredAnswer' = FilteredAnswer
    BY <2>1, SameFacts
  <2>3. StoreInv' /\ CallInv' /\ LoopInv'
    BY <2>1, <2>2 DEF StoreInv, CallInv, LoopInv, RecallInv, SafeInv
  <2>4. HybridInv' /\ WereCurrent'
    BY <2>1, <2>2 DEF HybridInv, WereCurrent, RecallInv, SafeInv
  <2>5. IndexInv'
    BY <2>1, <2>2 DEF IndexInv, VectorSearchComplete, RecallInv, SafeInv
  <2>6. \A p : Scanned(p)' <=> Scanned(p)
    BY <2>1, <2>2 DEF Scanned
  <2>7. ScanInv'
    BY <2>1, <2>2, <2>6 DEF ScanInv, Undisturbed, RecallInv
  <2> QED
    BY <2>3, <2>4, <2>5, <2>7 DEF RecallInv, SafeInv
<1>12. CASE Returned
  BY <1>11, <1>12 DEF Returned
<1> QED
  BY <1>1, <1>2, <1>3, <1>4, <1>5, <1>6, <1>7, <1>8, <1>9, <1>10, <1>11, <1>12 DEF Next, CallStep

(* The invariant of one call of the recall API among any number of writers *)
(* (agent_memory.rs:1309-1444, temporal_graph.rs:1112-1303).               *)
THEOREM RecallInvariant == Spec => []RecallInv
<1>1. Init => RecallInv
  BY InitInv
<1>2. RecallInv /\ [Next]_vars => RecallInv'
  BY NextKeepsInv
<1> QED
  BY <1>1, <1>2, PTL DEF Spec

(* The state of a call and of the store under it stays well formed; in     *)
(* particular an answer names stored facts, each once.                     *)
THEOREM RecallTyped == Spec => []TypeOK
<1>1. RecallInv => TypeOK
  <2> SUFFICES ASSUME RecallInv PROVE TypeOK
    OBVIOUS
  <2>1. \A id \in Ids : facts[id].valid_to \in {NoTime, Now}
    <3>1. \A id \in Ids : facts[id] \in StoredFact
      BY IdsAre DEF RecallInv, SafeInv, StoreInv
    <3>2. \A fact \in StoredFact : fact.valid_to \in {NoTime, Now}
      BY DEF StoredFact
    <3> QED
      BY <3>1, <3>2
  <2>2. DOMAIN facts = 1..Len(facts)
    BY DEF RecallInv, SafeInv, StoreInv
  <2>3. indexed \subseteq Ids /\ current \subseteq Ids
    BY DEF RecallInv, SafeInv, StoreInv, IndexInv, WereCurrent
  <2> QED
    BY <2>1, <2>2, <2>3 DEF TypeOK, RecallInv, SafeInv, StoreInv, CallInv, LoopInv
<1> QED
  BY <1>1, RecallInvariant, PTL

(* Whatever is asserted or ended between the batches and the locks of a    *)
(* call, it returns each fact once, and only facts that were current at    *)
(* some moment of it and pass its filter.                                  *)
THEOREM AnswersWereCurrent == Spec => []ReturnedWereCurrent
<1>1. RecallInv => ReturnedWereCurrent
  BY DEF RecallInv, SafeInv, LoopInv, WereCurrent, ReturnedWereCurrent
<1> QED
  BY <1>1, RecallInvariant, PTL

(* With nobody writing and no ended fact among the matches, the loop over  *)
(* growing batches (agent_memory.rs:1345-1444) gives what one scan of the  *)
(* whole budget would, for any ranking, limit and filter.                  *)
THEOREM LoopIsOneScan == Spec => []RecallComplete
<1>1. RecallInv => RecallComplete
  BY DEF RecallInv, ScanInv, Undisturbed, RecallComplete
<1> QED
  BY <1>1, RecallInvariant, PTL

(* The filter and the index are read under two locks, one after the other; *)
(* no fact that was in the index when the search began and is still        *)
(* current falls between them.                                             *)
THEOREM NothingBetweenTheLocks == Spec => []VectorSearchComplete
<1>1. RecallInv => VectorSearchComplete
  BY DEF RecallInv, SafeInv, IndexInv
<1> QED
  BY <1>1, RecallInvariant, PTL

====
