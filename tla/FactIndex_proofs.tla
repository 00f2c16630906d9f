---- MODULE FactIndex_proofs ----
(***************************************************************************)
(* The derived indexes, for any facts, slots, times and clients and a log  *)
(* of any length: they are what the facts say, facts_at is exact, opening  *)
(* the database again finds the same facts, and history is kept.           *)
(* The way there: a chain stays sorted and free of repetitions when a fact *)
(* is put at its partition point or taken out; hence an upsert leaves      *)
(* every index matching the facts; replay is one upsert after the other,   *)
(* so a rebuilt state matches too and holds the last row of each fact;     *)
(* and that is what the running process holds, after every step.           *)
(***************************************************************************)
EXTENDS FactIndex, TLAPS, Integers, SequenceTheorems, FiniteSetTheorems, WellFoundedInduction

(* The types of the derived maps: facts is a function of some fact ids.    *)
FactMaps == UNION {[D -> Row] : D \in SUBSET FactIds}
Entries == [Slots -> SUBSET FactIds]
Chains == [Slots -> Seq(FactIds)]
States == [facts : FactMaps, byId : SUBSET FactIds, bySlot : Entries,
           active : Entries, current : Entries, chain : Chains]
Upd(facts, u) == [f \in DOMAIN facts \cup {u.id} |-> IF f = u.id THEN u.row ELSE facts[f]]

(* The map of facts after an upsert: facts.insert of the new row. *)
LEMMA UpdType ==
    ASSUME NEW facts \in FactMaps, NEW u \in Upsert
    PROVE  /\ Upd(facts, u) \in FactMaps
           /\ DOMAIN Upd(facts, u) = DOMAIN facts \cup {u.id}
           /\ Upd(facts, u)[u.id] = u.row
           /\ \A f \in DOMAIN facts : f # u.id => Upd(facts, u)[f] = facts[f]
<1>1. PICK D \in SUBSET FactIds : facts \in [D -> Row]
  BY DEF FactMaps
<1>2. u.id \in FactIds /\ u.row \in Row
  BY DEF Upsert
<1>3. Upd(facts, u) \in [D \cup {u.id} -> Row]
  BY <1>1, <1>2 DEF Upd
<1>4. D \cup {u.id} \in SUBSET FactIds
  BY <1>2
<1>5. Upd(facts, u) \in FactMaps
  BY <1>3, <1>4, Zenon DEF FactMaps
<1> QED
  BY <1>1, <1>5 DEF Upd

(* StoreRow changes the facts and the ids, and no index. *)
LEMMA StoreFields ==
    ASSUME NEW st \in States, NEW u \in Upsert
    PROVE  /\ StoreRow(st, u) \in States
           /\ StoreRow(st, u).facts = Upd(st.facts, u) /\ StoreRow(st, u).byId = st.byId \cup {u.id}
           /\ StoreRow(st, u).bySlot = st.bySlot /\ StoreRow(st, u).active = st.active
           /\ StoreRow(st, u).current = st.current /\ StoreRow(st, u).chain = st.chain
<1> DEFINE map == Upd(st.facts, u)
           ids == st.byId \cup {u.id}
<1>1. StoreRow(st, u) = [st EXCEPT !.facts = map, !.byId = ids]
  BY DEF StoreRow, Upd
<1>2. map \in FactMaps /\ ids \in SUBSET FactIds
  BY UpdType DEF States, Upsert
<1> HIDE DEF map, ids
<1>3. StoreRow(st, u) \in States
  BY <1>1, <1>2 DEF States
<1> QED
  BY <1>1, <1>3 DEF States, map, ids

Put(S, f, yes) == IF yes THEN S \cup {f} ELSE S

Entered(new, st, f, row, line) ==
    /\ new \in States
    /\ new.facts = st.facts /\ new.byId = st.byId
    /\ new.bySlot = [st.bySlot EXCEPT ![row.slot] = @ \cup {f}]
    /\ new.active = [st.active EXCEPT ![row.slot] = Put(@, f, row.expired = NoEnd)]
    /\ new.current = [st.current EXCEPT ![row.slot] = Put(@, f, IsCurrentlyValid(row))]
    /\ new.chain = [st.chain EXCEPT ![row.slot] = line]

Cleared(new, st, f, row, line) ==
    /\ new \in States
    /\ new.facts = st.facts /\ new.byId = st.byId
    /\ new.bySlot = [st.bySlot EXCEPT ![row.slot] = @ \ {f}]
    /\ new.active = [st.active EXCEPT ![row.slot] = @ \ {f}]
    /\ new.current = [st.current EXCEPT ![row.slot] = @ \ {f}]
    /\ new.chain = [st.chain EXCEPT ![row.slot] = line]

(* insert_fact_index changes the entries of the row's slot only. *)
LEMMA InsertFields ==
    ASSUME NEW st \in States, NEW f \in FactIds, NEW row \in Row, NEW line,
           line = InsertAt(st.chain[row.slot], PartitionPoint(st.chain[row.slot],
                     {g \in DOMAIN st.facts : st.facts[g].from <= row.from}) + 1, f),
           line \in Seq(FactIds)
    PROVE  Entered(InsertFactIndex(st, f, row), st, f, row, line)
<1> DEFINE new == InsertFactIndex(st, f, row)
           slots == [st.bySlot EXCEPT ![row.slot] = @ \cup {f}]
           act == [st.active EXCEPT ![row.slot] = Put(@, f, row.expired = NoEnd)]
           cur == [st.current EXCEPT ![row.slot] = Put(@, f, IsCurrentlyValid(row))]
           lines == [st.chain EXCEPT ![row.slot] = line]
<1>1. new = [st EXCEPT !.bySlot = slots, !.active = act, !.current = cur, !.chain = lines]
  BY DEF InsertFactIndex, Put, States
<1>2. slots \in Entries /\ act \in Entries /\ cur \in Entries /\ lines \in Chains
  BY DEF Row, States, Entries, Chains, Put
<1> HIDE DEF slots, act, cur, lines, new
<1>3. new \in States
  BY <1>1, <1>2 DEF States
<1>4. /\ new.facts = st.facts /\ new.byId = st.byId /\ new.bySlot = slots
      /\ new.active = act /\ new.current = cur /\ new.chain = lines
  BY <1>1, <1>3 DEF States
<1> QED
  BY <1>3, <1>4 DEF Entered, slots, act, cur, lines, new

(* remove_fact_index changes the entries of the row's slot only. *)
LEMMA RemoveFields ==
    ASSUME NEW st \in States, NEW f \in FactIds, NEW row \in Row, NEW line,
           line = RemoveFirst(st.chain[row.slot], f),
           line \in Seq(FactIds)
    PROVE  Cleared(RemoveFactIndex(st, f, row), st, f, row, line)
<1> DEFINE new == RemoveFactIndex(st, f, row)
           slots == [st.bySlot EXCEPT ![row.slot] = @ \ {f}]
           act == [st.active EXCEPT ![row.slot] = @ \ {f}]
           cur == [st.current EXCEPT ![row.slot] = @ \ {f}]
           lines == [st.chain EXCEPT ![row.slot] = line]
<1>1. new = [st EXCEPT !.bySlot = slots, !.active = act, !.current = cur, !.chain = lines]
  BY DEF RemoveFactIndex, States
<1>2. slots \in Entries /\ act \in Entries /\ cur \in Entries /\ lines \in Chains
  BY DEF Row, States, Entries, Chains
<1> HIDE DEF slots, act, cur, lines, new
<1>3. new \in States
  BY <1>1, <1>2 DEF States
<1>4. /\ new.facts = st.facts /\ new.byId = st.byId /\ new.bySlot = slots
      /\ new.active = act /\ new.current = cur /\ new.chain = lines
  BY <1>1, <1>3 DEF States
<1> QED
  BY <1>3, <1>4 DEF Cleared, slots, act, cur, lines, new

(* Induction over naturals, of a set in place of a predicate. *)
LEMMA LeastElement ==
    ASSUME NEW T \in SUBSET Nat, T # {}
    PROVE  \E x \in T : \A y \in T : x <= y
<1> DEFINE Less == OpToRel(<, Nat)
<1>1. IsWellFoundedOn(Less, Nat)
  BY NatLessThanWellFounded
<1>2. \A x, y \in Nat : <<y, x>> \in Less <=> y < x
  BY DEF OpToRel
<1> HIDE DEF Less
<1>3. PICK x \in T : \A y \in T : ~ (<<y, x>> \in Less)
  BY <1>1, WFMin
<1>4. \A y \in T : ~(y < x)
  BY <1>2, <1>3
<1>5. x \in Nat /\ \A y \in T : y \in Nat
  OBVIOUS
<1>6. \A y \in T : x <= y
  BY <1>4, <1>5
<1> QED
  BY <1>6

LEMMA Induction ==
    ASSUME NEW n \in Nat, NEW T, 0 \in T, \A k \in 0..n : k \in T /\ k < n => k + 1 \in T
    PROVE  \A k \in 0..n : k \in T
<1> DEFINE Out == {k \in 0..n : k \notin T}
<1> SUFFICES ASSUME Out # {} PROVE FALSE
  OBVIOUS
<1>0. Out \in SUBSET Nat
  OBVIOUS
<1> HIDE DEF Out
<1>1. PICK k \in Out : \A m \in Out : k <= m
  BY <1>0, LeastElement
<1>2. k # 0 /\ k - 1 \in 0..n /\ k - 1 < n /\ (k - 1) + 1 = k
  BY <1>1 DEF Out
<1>3. k - 1 \in T
  BY <1>1, <1>2 DEF Out
<1>4. k \notin T
  BY <1>1 DEF Out
<1> QED
  BY <1>2, <1>3, <1>4

-----------------------------------------------------------------------------
(* Sequences in which an element is put, or from which one is taken. *)

Inserted(s, n, e) == SubSeq(s, 1, n) \o <<e>> \o SubSeq(s, n + 1, Len(s))

(* Vec::insert: the elements before the place stay, those behind move on. *)
LEMMA InsertedAt ==
    ASSUME NEW S, NEW s \in Seq(S), NEW e \in S, NEW n \in 0..Len(s)
    PROVE  /\ Inserted(s, n, e) \in Seq(S) /\ Len(Inserted(s, n, e)) = Len(s) + 1
           /\ \A i \in 1..n : Inserted(s, n, e)[i] = s[i]
           /\ Inserted(s, n, e)[n + 1] = e
           /\ \A i \in n + 1..Len(s) : Inserted(s, n, e)[i + 1] = s[i]
<1> DEFINE a == SubSeq(s, 1, n)
           c == SubSeq(s, n + 1, Len(s))
           t == Inserted(s, n, e)
<1>1. a \in Seq(S) /\ Len(a) = n /\ \A i \in 1..n : a[i] = s[i]
  OBVIOUS
<1>2. c \in Seq(S) /\ Len(c) = Len(s) - n /\ \A i \in 1..Len(s) - n : c[i] = s[n + i]
  OBVIOUS
<1>3. <<e>> \in Seq(S) /\ Len(<<e>>) = 1 /\ <<e>>[1] = e
  OBVIOUS
<1>4. t = a \o <<e>> \o c
  BY DEF Inserted
<1> HIDE DEF a, c, t
<1>5. /\ a \o <<e>> \in Seq(S) /\ Len(a \o <<e>>) = n + 1
      /\ \A i \in 1..n : (a \o <<e>>)[i] = s[i]
      /\ (a \o <<e>>)[n + 1] = e
  BY <1>1, <1>3
<1>6. /\ t \in Seq(S) /\ Len(t) = Len(s) + 1
      /\ \A i \in 1..n + 1 : t[i] = (a \o <<e>>)[i]
      /\ \A i \in 1..Len(s) - n : t[n + 1 + i] = c[i]
  BY <1>2, <1>4, <1>5
<1>7. ASSUME NEW i \in n + 1..Len(s) PROVE t[i + 1] = s[i]
  <2>1. i - n \in 1..Len(s) - n /\ i = n + (i - n) /\ i + 1 = n + 1 + (i - n)
    OBVIOUS
  <2>2. PICK k \in 1..Len(s) - n : i = n + k /\ i + 1 = n + 1 + k
    BY <2>1
  <2> QED
    BY <2>2, <1>2, <1>6
<1> QED
  BY <1>5, <1>6, <1>7 DEF t

(* InsertAt counts its places from one. *)
LEMMA InsertAtIs ==
    ASSUME NEW s, NEW e, NEW n \in Nat
    PROVE  InsertAt(s, n + 1, e) = Inserted(s, n, e)
<1>1. (n + 1) - 1 = n
  OBVIOUS
<1>2. InsertAt(s, n + 1, e) = SubSeq(s, 1, (n + 1) - 1) \o <<e>> \o SubSeq(s, n + 1, Len(s))
  BY DEF InsertAt
<1> QED
  BY <1>1, <1>2, Zenon DEF Inserted

(* Vec::remove: the elements behind the place move up. *)
LEMMA RemovedAt ==
    ASSUME NEW S, NEW s \in Seq(S), NEW k \in 1..Len(s)
    PROVE  LET t == RemoveAt(s, k)
           IN  /\ t \in Seq(S) /\ Len(t) = Len(s) - 1
               /\ \A i \in 1..k - 1 : t[i] = s[i]
               /\ \A i \in k..Len(s) - 1 : t[i] = s[i + 1]
<1> DEFINE a == SubSeq(s, 1, k - 1)
           c == SubSeq(s, k + 1, Len(s))
           t == RemoveAt(s, k)
<1>1. a \in Seq(S) /\ Len(a) = k - 1 /\ \A i \in 1..k - 1 : a[i] = s[i]
  OBVIOUS
<1>2. c \in Seq(S) /\ Len(c) = Len(s) - k /\ \A i \in 1..Len(s) - k : c[i] = s[k + i]
  OBVIOUS
<1>4. t = a \o c
  BY DEF RemoveAt
<1> HIDE DEF a, c, t
<1>6. /\ t \in Seq(S) /\ Len(t) = Len(s) - 1
      /\ \A i \in 1..k - 1 : t[i] = a[i]
      /\ \A i \in 1..Len(s) - k : t[(k - 1) + i] = c[i]
  BY <1>1, <1>2, <1>4
<1>7. ASSUME NEW i \in k..Len(s) - 1 PROVE t[i] = s[i + 1]
  <2>1. i - k + 1 \in 1..Len(s) - k /\ i = (k - 1) + (i - k + 1) /\ i + 1 = k + (i - k + 1)
    OBVIOUS
  <2>2. PICK m \in 1..Len(s) - k : i = (k - 1) + m /\ i + 1 = k + m
    BY <2>1
  <2> QED
    BY <2>2, <1>2, <1>6
<1> QED
  BY <1>1, <1>6, <1>7 DEF t

(* What position finds and remove takes out: nothing, or one place of it. *)
LEMMA RemoveFirstAt ==
    ASSUME NEW S, NEW s \in Seq(S), NEW e
    PROVE  \/ RemoveFirst(s, e) = s /\ e \notin ToSet(s)
           \/ \E k \in 1..Len(s) : s[k] = e /\ RemoveFirst(s, e) = RemoveAt(s, k)
<1>1. CASE \E i \in 1..Len(s) : s[i] = e
  <2> DEFINE I == {i \in 1..Len(s) : s[i] = e}
  <2>1. I \in SUBSET Nat /\ I # {}
    BY <1>1
  <2>2. PICK k \in I : \A y \in I : k <= y
    BY <2>1, LeastElement
  <2>3. Min(I) \in I
    BY <2>2 DEF Min
  <2>4. RemoveFirst(s, e) = RemoveAt(s, Min(I))
    BY <1>1, <2>1 DEF RemoveFirst, SelectInSeq
  <2> QED
    BY <2>3, <2>4
<1>2. CASE ~\E i \in 1..Len(s) : s[i] = e
  BY <1>2 DEF RemoveFirst, ToSet
<1> QED
  BY <1>1, <1>2

(* partition_point exists in any sequence, ordered or not. *)
LEMMA PointOfPartition ==
    ASSUME NEW S, NEW s \in Seq(S), NEW T
    PROVE  LET n == PartitionPoint(s, T)
           IN  /\ n \in 0..Len(s)
               /\ \A i \in 1..n : s[i] \in T
               /\ n < Len(s) => s[n + 1] \notin T
<1> DEFINE Out == {n \in 0..Len(s) : n = Len(s) \/ s[n + 1] \notin T}
<1>1. Out \in SUBSET Nat /\ Len(s) \in Out
  OBVIOUS
<1>2. PICK n \in Out : \A m \in Out : n <= m
  BY <1>1, LeastElement
<1>3. ASSUME NEW i \in 1..n PROVE s[i] \in T
  <2>1. i - 1 \in 0..Len(s) /\ i - 1 < n /\ (i - 1) + 1 = i
    BY <1>1, <1>2
  <2>2. i - 1 \notin Out
    BY <1>2, <2>1
  <2> QED
    BY <2>1, <2>2
<1>4. n \in 0..Len(s) /\ (\A i \in 1..n : s[i] \in T) /\ (n < Len(s) => s[n + 1] \notin T)
  BY <1>2, <1>3
<1> QED
  BY <1>4 DEF PartitionPoint

-----------------------------------------------------------------------------
(* A chain: the members of D, each once, in the order of their beginnings. *)
Chain(s, D, from) ==
    /\ ToSet(s) = D /\ IsInjective(s)
    /\ \A i, j \in DOMAIN s : i < j => from[s[i]] <= from[s[j]]

(* A fact inserted at its partition point leaves the chain in order. *)
LEMMA ChainInsert ==
    ASSUME NEW S, NEW s \in Seq(S), NEW D, NEW f \in S, f \notin D, NEW T, NEW from,
           Chain(s, D, from), \A g \in D \cup {f} : from[g] \in Nat,
           \A g \in D : g \in T <=> from[g] <= from[f]
    PROVE  LET t == InsertAt(s, PartitionPoint(s, T) + 1, f)
           IN  t \in Seq(S) /\ Chain(t, D \cup {f}, from)
<1> DEFINE n == PartitionPoint(s, T)
           t == InsertAt(s, n + 1, f)
<1>1. /\ n \in 0..Len(s)
      /\ \A i \in 1..n : s[i] \in T
      /\ n < Len(s) => s[n + 1] \notin T
  BY PointOfPartition
<1>0. t = Inserted(s, n, f)
  <2>1. n \in Nat
    BY <1>1
  <2> HIDE DEF n
  <2> QED
    BY <2>1, InsertAtIs
<1> HIDE DEF n, t
<1>2. /\ t \in Seq(S) /\ Len(t) = Len(s) + 1
      /\ \A i \in 1..n : t[i] = s[i]
      /\ t[n + 1] = f
      /\ \A i \in n + 1..Len(s) : t[i + 1] = s[i]
  <2>1. n \in 0..Len(s)
    BY <1>1
  <2>2. \A m \in 0..Len(s) : Inserted(s, m, f) \in Seq(S) /\ Len(Inserted(s, m, f)) = Len(s) + 1
    BY InsertedAt
  <2>3. \A m \in 0..Len(s) : \A i \in 1..m : Inserted(s, m, f)[i] = s[i]
    BY InsertedAt
  <2>4. \A m \in 0..Len(s) : Inserted(s, m, f)[m + 1] = f
    BY InsertedAt
  <2>5. \A m \in 0..Len(s) : \A i \in m + 1..Len(s) : Inserted(s, m, f)[i + 1] = s[i]
    BY InsertedAt
  <2> QED
    BY <1>0, <2>1, <2>2, <2>3, <2>4, <2>5
<1>3. \A i \in DOMAIN s : s[i] \in D /\ from[s[i]] \in Nat
  BY DEF Chain, ToSet
<1>4. \A i \in n + 2..Len(s) + 1 : i - 1 \in n + 1..Len(s) /\ t[i] = s[i - 1]
  <2> TAKE i \in n + 2..Len(s) + 1
  <2>1. i - 1 \in n + 1..Len(s) /\ (i - 1) + 1 = i
    BY <1>1
  <2> QED
    BY <2>1, <1>2
<1>5. DOMAIN t = 1..Len(s) + 1 /\ DOMAIN s = 1..Len(s) /\ Len(s) \in Nat
  BY <1>2
<1>6. \A i \in 1..n : i \in DOMAIN s
  BY <1>1, <1>5
<1>7. ToSet(t) = D \cup {f}
  <2>1. ToSet(t) \subseteq D \cup {f}
    <3> SUFFICES ASSUME NEW i \in 1..Len(s) + 1 PROVE t[i] \in D \cup {f}
      BY <1>5 DEF ToSet
    <3>1. CASE i <= n
      BY <3>1, <1>1, <1>2, <1>3, <1>5
    <3>2. CASE i = n + 1
      BY <3>2, <1>2
    <3>3. CASE i >= n + 2
      <4>1. i \in n + 2..Len(s) + 1 /\ i - 1 \in 1..Len(s)
        BY <3>3, <1>1, <1>5
      <4>2. t[i] = s[i - 1]
        BY <4>1, <1>4
      <4> QED
        BY <4>1, <4>2, <1>3, <1>5
    <3> QED
      BY <3>1, <3>2, <3>3, <1>1
  <2>2. ASSUME NEW g \in D PROVE g \in ToSet(t)
    <3>1. PICK i \in 1..Len(s) : s[i] = g
      BY <1>5 DEF Chain, ToSet
    <3>2. CASE i <= n
      <4>1. t[i] = g /\ i \in 1..Len(s) + 1
        BY <3>1, <3>2, <1>1, <1>2
      <4> QED
        BY <4>1, <1>5 DEF ToSet
    <3>3. CASE i > n
      <4>1. t[i + 1] = g /\ i + 1 \in 1..Len(s) + 1
        BY <3>1, <3>3, <1>1, <1>2
      <4> QED
        BY <4>1, <1>5 DEF ToSet
    <3> QED
      BY <3>1, <3>2, <3>3, <1>1
  <2>3. f \in ToSet(t)
    BY <1>1, <1>2, <1>5 DEF ToSet
  <2> QED
    BY <2>1, <2>2, <2>3
<1>8. IsInjective(t)
  <2> SUFFICES ASSUME NEW i \in 1..Len(s) + 1, NEW j \in 1..Len(s) + 1, i < j PROVE t[i] # t[j]
    BY <1>5 DEF IsInjective
  <2>0. \A a, b \in 1..Len(s) : a < b => s[a] # s[b]
    BY <1>5 DEF Chain, IsInjective
  <2>1. CASE j <= n
    BY <2>1, <2>0, <1>1, <1>2
  <2>2. CASE j = n + 1
    BY <2>2, <1>1, <1>2, <1>3, <1>5
  <2>3. CASE j >= n + 2
    <3>1. t[j] = s[j - 1] /\ j - 1 \in n + 1..Len(s)
      BY <2>3, <1>4
    <3>2. CASE i <= n
      <4>1. i \in 1..n /\ i \in 1..Len(s) /\ j - 1 \in 1..Len(s) /\ i < j - 1
        BY <3>1, <3>2, <1>1, <1>5
      <4>2. t[i] = s[i]
        BY <4>1, <1>2
      <4> QED
        BY <3>1, <4>1, <4>2, <2>0
    <3>3. CASE i = n + 1
      BY <3>1, <3>3, <1>1, <1>2, <1>3, <1>5
    <3>4. CASE i >= n + 2
      BY <3>1, <3>4, <2>0, <1>1, <1>4
    <3> QED
      BY <3>2, <3>3, <3>4, <1>1
  <2> QED
    BY <2>1, <2>2, <2>3, <1>1
<1>9. \A i, j \in DOMAIN t : i < j => from[t[i]] <= from[t[j]]
  <2> SUFFICES ASSUME NEW i \in 1..Len(s) + 1, NEW j \in 1..Len(s) + 1, i < j PROVE from[t[i]] <= from[t[j]]
    BY <1>5
  <2>0. \A a, b \in 1..Len(s) : a < b => from[s[a]] <= from[s[b]]
    BY <1>5 DEF Chain
  <2>4. \A a \in 1..n : from[s[a]] <= from[f]
    BY <1>1, <1>3, <1>6
  <2>5. \A a \in n + 1..Len(s) : from[f] <= from[s[a]]
    <3> SUFFICES ASSUME NEW a \in n + 1..Len(s) PROVE from[f] <= from[s[a]]
      OBVIOUS
    <3>1. n < Len(s) /\ n + 1 \in 1..Len(s) /\ a \in 1..Len(s)
      BY <1>1
    <3>2. s[n + 1] \in D /\ from[s[n + 1]] \in Nat /\ from[s[a]] \in Nat
      BY <3>1, <1>3, <1>5
    <3>3. from[f] < from[s[n + 1]]
      BY <3>1, <3>2, <1>1
    <3>4. from[s[n + 1]] <= from[s[a]]
      BY <3>1, <3>2, <2>0
    <3> QED
      BY <3>2, <3>3, <3>4
  <2>1. CASE j <= n
    BY <2>1, <2>0, <1>1, <1>2
  <2>2. CASE j = n + 1
    BY <2>2, <2>4, <1>1, <1>2
  <2>3. CASE j >= n + 2
    <3>1. t[j] = s[j - 1] /\ j - 1 \in n + 1..Len(s)
      BY <2>3, <1>4
    <3>2. CASE i <= n
      <4>1. t[i] = s[i] /\ i \in 1..Len(s) /\ j - 1 \in 1..Len(s) /\ i < j - 1
        BY <3>1, <3>2, <1>1, <1>2
      <4> QED
        BY <3>1, <4>1, <2>0
    <3>3. CASE i = n + 1
      BY <3>1, <3>3, <2>5, <1>1, <1>2
    <3>4. CASE i >= n + 2
      BY <3>1, <3>4, <2>0, <1>1, <1>4
    <3> QED
      BY <3>2, <3>3, <3>4, <1>1
  <2> QED
    BY <2>1, <2>2, <2>3, <1>1
<1> QED
  BY <1>2, <1>7, <1>8, <1>9 DEF Chain, t, n

(* So does a fact taken out. *)
LEMMA ChainRemove ==
    ASSUME NEW S, NEW s \in Seq(S), NEW D, NEW f, NEW from, Chain(s, D, from)
    PROVE  LET t == RemoveFirst(s, f) IN t \in Seq(S) /\ Chain(t, D \ {f}, from)
<1> DEFINE t == RemoveFirst(s, f)
<1>1. CASE t = s /\ f \notin ToSet(s)
  BY <1>1 DEF Chain
<1>2. CASE \E k \in 1..Len(s) : s[k] = f /\ t = RemoveAt(s, k)
  <2>1. PICK k \in 1..Len(s) : s[k] = f /\ t = RemoveAt(s, k)
    BY <1>2
  <2>2. /\ t \in Seq(S) /\ Len(t) = Len(s) - 1
        /\ \A i \in 1..k - 1 : t[i] = s[i]
        /\ \A i \in k..Len(s) - 1 : t[i] = s[i + 1]
    BY <2>1, RemovedAt
  <2> HIDE DEF t
  <2>3. DOMAIN t = 1..Len(s) - 1 /\ DOMAIN s = 1..Len(s) /\ Len(s) \in Nat
    BY <2>2
  <2>4. \A i \in DOMAIN t : \E m \in DOMAIN s : m # k /\ t[i] = s[m] /\ m = IF i < k THEN i ELSE i + 1
    BY <2>2, <2>3
  <2>5. \A a, b \in DOMAIN s : s[a] = s[b] => a = b
    BY DEF Chain, IsInjective
  <2>6. ToSet(t) \subseteq D \ {f}
    <3> SUFFICES ASSUME NEW i \in DOMAIN t PROVE t[i] \in D \ {f}
      BY DEF ToSet
    <3>1. PICK m \in DOMAIN s : m # k /\ t[i] = s[m]
      BY <2>4
    <3>2. s[m] \in D /\ s[m] # f
      BY <3>1, <2>1, <2>3, <2>5 DEF Chain, ToSet
    <3> QED
      BY <3>1, <3>2
  <2>7. ASSUME NEW g \in D \ {f} PROVE g \in ToSet(t)
    <3>1. PICK m \in 1..Len(s) : s[m] = g
      BY <2>3 DEF Chain, ToSet
    <3>2. m # k
      BY <3>1, <2>1
    <3>3. CASE m < k
      BY <3>1, <3>3, <2>2, <2>3 DEF ToSet
    <3>4. CASE m > k
      <4>1. m - 1 \in k..Len(s) - 1 /\ (m - 1) + 1 = m /\ m - 1 \in 1..Len(s) - 1
        BY <3>1, <3>4
      <4>2. t[m - 1] = g
        BY <4>1, <2>2, <3>1
      <4> QED
        BY <4>1, <4>2, <2>3 DEF ToSet
    <3> QED
      BY <3>2, <3>3, <3>4
  <2>8. ASSUME NEW i \in DOMAIN t, NEW j \in DOMAIN t, i < j
        PROVE  t[i] # t[j] /\ from[t[i]] <= from[t[j]]
    <3>1. PICK a \in DOMAIN s : a # k /\ t[i] = s[a] /\ a = IF i < k THEN i ELSE i + 1
      BY <2>4
    <3>2. PICK b \in DOMAIN s : b # k /\ t[j] = s[b] /\ b = IF j < k THEN j ELSE j + 1
      BY <2>4
    <3>3. a < b
      BY <3>1, <3>2, <2>3, <2>8
    <3> QED
      BY <3>1, <3>2, <3>3, <2>3, <2>5 DEF Chain
  <2>9. IsInjective(t)
    BY <2>8, <2>3 DEF IsInjective
  <2> QED
    BY <2>2, <2>6, <2>7, <2>8, <2>9 DEF Chain, t
<1> QED
  BY <1>1, <1>2, RemoveFirstAt

-----------------------------------------------------------------------------
(* The recursive function of Rebuild exists and steps as it says. *)
LEMMA RebuildSteps ==
    ASSUME NEW u, Len(u) \in Nat
    PROVE  \E r : /\ r[0] = NoFacts
                  /\ \A n \in 1..Len(u) : r[n] = ApplyFactUpsert(r[n - 1], u[n])
                  /\ Rebuild(u) = r[Len(u)]
<1> DEFINE Good(k, g) ==
               g = [n \in 0..k |-> IF n = 0 THEN NoFacts ELSE ApplyFactUpsert(g[n - 1], u[n])]
           T == {k \in 0..Len(u) : \E g : Good(k, g)}
<1>1. 0 \in T
  <2>1. Good(0, [n \in 0..0 |-> NoFacts])
    OBVIOUS
  <2> HIDE DEF Good
  <2> QED
    BY <2>1
<1>2. ASSUME NEW k \in 0..Len(u), k \in T, k < Len(u) PROVE k + 1 \in T
  <2>1. PICK g : Good(k, g)
    BY <1>2
  <2> DEFINE h == [n \in 0..k + 1 |-> IF n = 0 THEN NoFacts ELSE ApplyFactUpsert(g[n - 1], u[n])]
  <2>2. \A n \in 0..k : h[n] = g[n]
    BY <2>1
  <2>3. \A n \in 0..k + 1 : n = 0 \/ (n - 1 \in 0..k /\ h[n - 1] = g[n - 1])
    <3> HIDE DEF h
    <3>1. \A n \in 0..k + 1 : n = 0 \/ n - 1 \in 0..k
      OBVIOUS
    <3> QED
      BY <3>1, <2>2
  <2>4. [n \in 0..k + 1 |-> IF n = 0 THEN NoFacts ELSE ApplyFactUpsert(h[n - 1], u[n])] = h
    <3>1. \A n \in 0..k + 1 : (IF n = 0 THEN NoFacts ELSE ApplyFactUpsert(h[n - 1], u[n]))
                            = (IF n = 0 THEN NoFacts ELSE ApplyFactUpsert(g[n - 1], u[n]))
      <4> HIDE DEF h
      <4> QED
        BY <2>3, Zenon
    <3> QED
      BY <3>1, Zenon
  <2>5. Good(k + 1, h)
    BY <2>4, Zenon
  <2> HIDE DEF Good, h
  <2> QED
    BY <2>5, <1>2
<1> HIDE DEF T
<1>3. Len(u) \in T
  <2>1. \A k \in 0..Len(u) : k \in T /\ k < Len(u) => k + 1 \in T
    BY <1>2
  <2>2. \A k \in 0..Len(u) : k \in T
    BY <1>1, <2>1, Induction
  <2> QED
    BY <2>2
<1>4. \E g : Good(Len(u), g)
  BY <1>3 DEF T
<1> DEFINE r == CHOOSE g : Good(Len(u), g)
<1> HIDE DEF Good
<1>5. Good(Len(u), r)
  BY <1>4
<1>6. Rebuild(u) = r[Len(u)]
  BY Zenon DEF Rebuild, Good, r
<1> HIDE DEF r
<1>7. r[0] = NoFacts
  BY <1>5 DEF Good
<1>8. \A n \in 1..Len(u) : r[n] = ApplyFactUpsert(r[n - 1], u[n])
  BY <1>5 DEF Good
<1> QED
  BY <1>6, <1>7, <1>8

(* So does the one of Keep. *)
LEMMA KeepSteps ==
    ASSUME NEW s, Len(s) \in Nat, NEW S
    PROVE  \E r : /\ r[0] = << >>
                  /\ \A n \in 1..Len(s) :
                       r[n] = IF s[n] \in S THEN Append(r[n - 1], s[n]) ELSE r[n - 1]
                  /\ Keep(s, S) = r[Len(s)]
<1> DEFINE Step(x, n) == IF s[n] \in S THEN Append(x, s[n]) ELSE x
           Good(k, g) == g = [n \in 0..k |-> IF n = 0 THEN << >> ELSE
                                   IF s[n] \in S THEN Append(g[n - 1], s[n]) ELSE g[n - 1]]
           T == {k \in 0..Len(s) : \E g : Good(k, g)}
<1>0. \A k, g : Good(k, g) <=> g = [n \in 0..k |-> IF n = 0 THEN << >> ELSE Step(g[n - 1], n)]
  OBVIOUS
<1>6. Keep(s, S) = (CHOOSE g : Good(Len(s), g))[Len(s)]
  BY Zenon DEF Keep
<1> HIDE DEF Good
<1>1. 0 \in T
  <2>1. [n \in 0..0 |-> << >>]
        = [n \in 0..0 |-> IF n = 0 THEN << >> ELSE Step([m \in 0..0 |-> << >>][n - 1], n)]
    <3> HIDE DEF Step
    <3> QED OBVIOUS
  <2>2. Good(0, [n \in 0..0 |-> << >>])
    BY <1>0, <2>1, Zenon
  <2> QED
    BY <2>2
<1> HIDE DEF Step
<1>2. ASSUME NEW k \in 0..Len(s), k \in T, k < Len(s) PROVE k + 1 \in T
  <2>1. PICK g : Good(k, g)
    BY <1>2
  <2> DEFINE h == [n \in 0..k + 1 |-> IF n = 0 THEN << >> ELSE Step(g[n - 1], n)]
  <2>2. \A n \in 0..k : h[n] = g[n]
    BY <2>1, <1>0
  <2>3. \A n \in 0..k + 1 : n = 0 \/ (n - 1 \in 0..k /\ h[n - 1] = g[n - 1])
    <3> HIDE DEF h
    <3>1. \A n \in 0..k + 1 : n = 0 \/ n - 1 \in 0..k
      OBVIOUS
    <3> QED
      BY <3>1, <2>2
  <2>4. [n \in 0..k + 1 |-> IF n = 0 THEN << >> ELSE Step(h[n - 1], n)] = h
    <3>1. \A n \in 0..k + 1 : (IF n = 0 THEN << >> ELSE Step(h[n - 1], n))
                            = (IF n = 0 THEN << >> ELSE Step(g[n - 1], n))
      <4> HIDE DEF h
      <4> QED
        BY <2>3, Zenon
    <3> QED
      BY <3>1, Zenon
  <2>5. Good(k + 1, h)
    BY <2>4, <1>0
  <2> HIDE DEF h
  <2> QED
    BY <2>5, <1>2
<1> HIDE DEF T
<1>3. Len(s) \in T
  <2>1. \A k \in 0..Len(s) : k \in T /\ k < Len(s) => k + 1 \in T
    BY <1>2
  <2>2. \A k \in 0..Len(s) : k \in T
    BY <1>1, <2>1, Induction
  <2> QED
    BY <2>2
<1>4. \E g : Good(Len(s), g)
  BY <1>3 DEF T
<1> DEFINE r == CHOOSE g : Good(Len(s), g)
<1>5. Good(Len(s), r)
  BY <1>4
<1> HIDE DEF r
<1>7. r[0] = << >>
  BY <1>5, <1>0
<1>8. \A n \in 1..Len(s) : r[n] = Step(r[n - 1], n)
  BY <1>5, <1>0
<1> QED
  BY <1>6, <1>7, <1>8 DEF Step, r

-----------------------------------------------------------------------------
(* What each index holds, as a pass over the facts finds it. *)
Begins(facts) == [f \in DOMAIN facts |-> facts[f].from]
ActiveFacts(st, s) == {f \in SlotFacts(st, s) : st.facts[f].expired = NoEnd}
CurrentFacts(st, s) == {f \in SlotFacts(st, s) : IsCurrentlyValid(st.facts[f])}

StateOK(st) ==
    /\ st \in States
    /\ st.byId = DOMAIN st.facts
    /\ \A s \in Slots :
         /\ st.bySlot[s] = SlotFacts(st, s)
         /\ st.active[s] = ActiveFacts(st, s)
         /\ st.current[s] = CurrentFacts(st, s)
         /\ Chain(st.chain[s], SlotFacts(st, s), Begins(st.facts))

(* The fact f is stored and in no index yet. *)
Bare(st, f) ==
    /\ st \in States
    /\ st.byId = DOMAIN st.facts
    /\ f \in DOMAIN st.facts
    /\ \A s \in Slots :
         /\ st.bySlot[s] = SlotFacts(st, s) \ {f}
         /\ st.active[s] = ActiveFacts(st, s) \ {f}
         /\ st.current[s] = CurrentFacts(st, s) \ {f}
         /\ Chain(st.chain[s], SlotFacts(st, s) \ {f}, Begins(st.facts))

(* What the types of a state say of its parts. *)
LEMMA StateFields ==
    ASSUME NEW st \in States
    PROVE  /\ st.facts \in FactMaps /\ DOMAIN st.facts \subseteq FactIds
           /\ \A f \in DOMAIN st.facts : st.facts[f] \in Row /\ st.facts[f].from \in Nat
           /\ st.byId \subseteq FactIds
           /\ \A s \in Slots : /\ st.bySlot[s] \subseteq FactIds /\ st.active[s] \subseteq FactIds
                               /\ st.current[s] \subseteq FactIds /\ st.chain[s] \in Seq(FactIds)
           /\ DOMAIN st.chain = Slots
<1>1. st.facts \in FactMaps
  BY DEF States
<1>2. PICK D \in SUBSET FactIds : st.facts \in [D -> Row]
  BY <1>1 DEF FactMaps
<1>3. \A f \in DOMAIN st.facts : st.facts[f] \in Row
  BY <1>2
<1>4. \A row \in Row : row.from \in Nat
  BY OrderAssumption DEF Row
<1> QED
  BY <1>1, <1>2, <1>3, <1>4 DEF States, Entries, Chains

(* A chain depends on the beginnings of its own facts only. *)
LEMMA ChainKeys ==
    ASSUME NEW s, NEW D, NEW a, NEW b, Chain(s, D, a), \A g \in D : b[g] = a[g]
    PROVE  Chain(s, D, b)
BY DEF Chain, ToSet

(* Indexing the one fact that is in no index completes the indexes. *)
LEMMA InsertBare ==
    ASSUME NEW st, NEW f, Bare(st, f)
    PROVE  LET new == InsertFactIndex(st, f, st.facts[f])
           IN  StateOK(new) /\ new.facts = st.facts
<1> DEFINE row == st.facts[f]
           new == InsertFactIndex(st, f, row)
           T == {g \in DOMAIN st.facts : st.facts[g].from <= row.from}
           line == InsertAt(st.chain[row.slot], PartitionPoint(st.chain[row.slot], T) + 1, f)
<1>1. st \in States /\ f \in FactIds /\ row \in Row /\ row.slot \in Slots
  BY StateFields DEF Bare, Row
<1>2. line \in Seq(FactIds) /\ Chain(line, (SlotFacts(st, row.slot) \ {f}) \cup {f}, Begins(st.facts))
  <2> DEFINE D == SlotFacts(st, row.slot) \ {f}
             old == st.chain[row.slot]
  <2>1. old \in Seq(FactIds) /\ Chain(old, D, Begins(st.facts))
    BY <1>1, StateFields DEF Bare
  <2>2. f \notin D
    OBVIOUS
  <2>3. \A g \in D \cup {f} : Begins(st.facts)[g] \in Nat
    BY <1>1, StateFields DEF Begins, SlotFacts, Bare
  <2>4. \A g \in D : g \in T <=> Begins(st.facts)[g] <= Begins(st.facts)[f]
    BY <1>1 DEF Begins, SlotFacts, Bare
  <2> HIDE DEF D, T, old
  <2> QED
    BY <1>1, <2>1, <2>2, <2>3, <2>4, ChainInsert DEF D, old
<1> HIDE DEF line
<1>3. /\ new \in States
      /\ new.facts = st.facts /\ new.byId = st.byId
      /\ new.bySlot = [st.bySlot EXCEPT ![row.slot] = @ \cup {f}]
      /\ new.active = [st.active EXCEPT ![row.slot] = Put(@, f, row.expired = NoEnd)]
      /\ new.current = [st.current EXCEPT ![row.slot] = Put(@, f, IsCurrentlyValid(row))]
      /\ new.chain = [st.chain EXCEPT ![row.slot] = line]
  <2>1. line = InsertAt(st.chain[row.slot], PartitionPoint(st.chain[row.slot],
                 {g \in DOMAIN st.facts : st.facts[g].from <= row.from}) + 1, f)
    BY DEF line
  <2>2. st \in States /\ f \in FactIds /\ row \in Row /\ line \in Seq(FactIds)
    BY <1>1, <1>2
  <2> HIDE DEF row, line
  <2>3. Entered(new, st, f, row, line)
    BY <2>1, <2>2, InsertFields
  <2> QED
    BY <2>3 DEF Entered
<1> HIDE DEF new
<1>4. \A s : SlotFacts(new, s) = SlotFacts(st, s)
  BY <1>3 DEF SlotFacts
<1>5. \A s : /\ f \in SlotFacts(st, s) <=> s = row.slot
             /\ f \in ActiveFacts(st, s) <=> (s = row.slot /\ row.expired = NoEnd)
             /\ f \in CurrentFacts(st, s) <=> (s = row.slot /\ IsCurrentlyValid(row))
  BY DEF SlotFacts, ActiveFacts, CurrentFacts, Bare
<1>6. ASSUME NEW s \in Slots
      PROVE  /\ new.bySlot[s] = SlotFacts(new, s)
             /\ new.active[s] = ActiveFacts(new, s)
             /\ new.current[s] = CurrentFacts(new, s)
             /\ Chain(new.chain[s], SlotFacts(new, s), Begins(new.facts))
  <2>1. ActiveFacts(new, s) = ActiveFacts(st, s) /\ CurrentFacts(new, s) = CurrentFacts(st, s)
    BY <1>3, <1>4 DEF ActiveFacts, CurrentFacts
  <2>2. /\ st.bySlot[s] = SlotFacts(st, s) \ {f}
        /\ st.active[s] = ActiveFacts(st, s) \ {f}
        /\ st.current[s] = CurrentFacts(st, s) \ {f}
        /\ Chain(st.chain[s], SlotFacts(st, s) \ {f}, Begins(st.facts))
    BY DEF Bare
  <2>3. /\ s \in DOMAIN st.bySlot /\ s \in DOMAIN st.active
        /\ s \in DOMAIN st.current /\ s \in DOMAIN st.chain
    BY <1>1 DEF States, Entries, Chains
  <2>4. CASE s = row.slot
    <3>1. new.bySlot[s] = st.bySlot[s] \cup {f}
      BY <1>3, <2>3, <2>4
    <3>2. new.active[s] = Put(st.active[s], f, row.expired = NoEnd)
      BY <1>3, <2>3, <2>4
    <3>3. new.current[s] = Put(st.current[s], f, IsCurrentlyValid(row))
      BY <1>3, <2>3, <2>4
    <3>4. new.chain[s] = line
      BY <1>3, <2>3, <2>4
    <3>5. f \in SlotFacts(st, s)
      BY <1>5, <2>4
    <3>6. new.bySlot[s] = SlotFacts(new, s)
      BY <3>1, <3>5, <2>2, <1>4
    <3>7. new.active[s] = ActiveFacts(new, s)
      <4>1. ActiveFacts(new, s) = ActiveFacts(st, s) /\ st.active[s] = ActiveFacts(st, s) \ {f}
        BY <2>1, <2>2
      <4>2. f \in ActiveFacts(st, s) <=> row.expired = NoEnd
        BY <2>4, <1>5
      <4>3. CASE row.expired = NoEnd
        BY <3>2, <4>1, <4>2, <4>3 DEF Put
      <4>4. CASE ~(row.expired = NoEnd)
        BY <3>2, <4>1, <4>2, <4>4 DEF Put
      <4> QED
        BY <4>3, <4>4
    <3>8. new.current[s] = CurrentFacts(new, s)
      <4>1. CurrentFacts(new, s) = CurrentFacts(st, s) /\ st.current[s] = CurrentFacts(st, s) \ {f}
        BY <2>1, <2>2
      <4>2. f \in CurrentFacts(st, s) <=> IsCurrentlyValid(row)
        BY <2>4, <1>5
      <4>3. CASE IsCurrentlyValid(row)
        BY <3>3, <4>1, <4>2, <4>3 DEF Put
      <4>4. CASE ~(IsCurrentlyValid(row))
        BY <3>3, <4>1, <4>2, <4>4 DEF Put
      <4> QED
        BY <4>3, <4>4
    <3>9. (SlotFacts(st, row.slot) \ {f}) \cup {f} = SlotFacts(new, s)
      BY <3>5, <2>4, <1>4
    <3>10. Chain(new.chain[s], SlotFacts(new, s), Begins(new.facts))
      BY <1>2, <1>3, <3>4, <3>9
    <3> QED
      BY <3>6, <3>7, <3>8, <3>10
  <2>5. CASE s # row.slot
    <3>1. /\ new.bySlot[s] = st.bySlot[s] /\ new.active[s] = st.active[s]
          /\ new.current[s] = st.current[s] /\ new.chain[s] = st.chain[s]
      BY <1>3, <2>3, <2>5
    <3>2. f \notin SlotFacts(st, s) /\ f \notin ActiveFacts(st, s) /\ f \notin CurrentFacts(st, s)
      BY <1>5, <2>5
    <3>3. SlotFacts(st, s) \ {f} = SlotFacts(new, s)
      BY <3>2, <1>4
    <3> QED
      BY <3>1, <3>2, <3>3, <2>1, <2>2, <1>3
  <2> QED
    BY <2>4, <2>5
<1>7. new.byId = DOMAIN new.facts
  BY <1>3 DEF Bare
<1> QED
  BY <1>3, <1>6, <1>7 DEF StateOK, new

(* apply_fact_upsert before it indexes the row: of a new fact, ... *)
LEMMA StoredNew ==
    ASSUME NEW st, StateOK(st), NEW u \in Upsert, u.id \notin DOMAIN st.facts
    PROVE  LET new == StoreRow(st, u)
           IN  Bare(new, u.id) /\ new.facts = Upd(st.facts, u)
<1> DEFINE new == StoreRow(st, u)
           f == u.id
<1>1. st \in States
  BY DEF StateOK
<1>2. /\ new \in States
      /\ new.facts = Upd(st.facts, u) /\ new.byId = st.byId \cup {f}
      /\ new.bySlot = st.bySlot /\ new.active = st.active
      /\ new.current = st.current /\ new.chain = st.chain
  BY <1>1, StoreFields
<1>3. /\ DOMAIN new.facts = DOMAIN st.facts \cup {f}
      /\ \A g \in DOMAIN st.facts : g # f => new.facts[g] = st.facts[g]
  BY <1>2 DEF Upd
<1> HIDE DEF new
<1>4. ASSUME NEW s \in Slots
      PROVE  /\ new.bySlot[s] = SlotFacts(new, s) \ {f}
             /\ new.active[s] = ActiveFacts(new, s) \ {f}
             /\ new.current[s] = CurrentFacts(new, s) \ {f}
             /\ Chain(new.chain[s], SlotFacts(new, s) \ {f}, Begins(new.facts))
  <2>1. SlotFacts(st, s) = SlotFacts(new, s) \ {f}
    BY <1>3 DEF SlotFacts
  <2>2. ActiveFacts(st, s) = ActiveFacts(new, s) \ {f} /\ CurrentFacts(st, s) = CurrentFacts(new, s) \ {f}
    BY <2>1, <1>3 DEF ActiveFacts, CurrentFacts, SlotFacts
  <2>3. \A g \in SlotFacts(st, s) : Begins(new.facts)[g] = Begins(st.facts)[g]
    BY <1>3 DEF Begins, SlotFacts
  <2>4. Chain(st.chain[s], SlotFacts(st, s), Begins(st.facts))
    BY DEF StateOK
  <2>5. Chain(st.chain[s], SlotFacts(st, s), Begins(new.facts))
    BY <2>3, <2>4, ChainKeys
  <2> QED
    BY <1>2, <2>1, <2>2, <2>5 DEF StateOK
<1>5. new.byId = DOMAIN new.facts /\ f \in DOMAIN new.facts
  BY <1>2, <1>3 DEF StateOK
<1> QED
  BY <1>2, <1>4, <1>5 DEF Bare, new

(* ... and of one whose old entries it has removed. *)
LEMMA StoredOld ==
    ASSUME NEW st, StateOK(st), NEW u \in Upsert, u.id \in DOMAIN st.facts
    PROVE  LET new == RemoveFactIndex(StoreRow(st, u), u.id, st.facts[u.id])
           IN  Bare(new, u.id) /\ new.facts = Upd(st.facts, u)
<1> DEFINE mid == StoreRow(st, u)
           f == u.id
           row == st.facts[f]
           new == RemoveFactIndex(mid, f, row)
           line == RemoveFirst(mid.chain[row.slot], f)
<1>1. st \in States /\ f \in FactIds /\ row \in Row /\ row.slot \in Slots
  BY StateFields DEF StateOK, Row
<1>2. /\ mid \in States
      /\ mid.facts = Upd(st.facts, u) /\ mid.byId = st.byId \cup {f}
      /\ mid.bySlot = st.bySlot /\ mid.active = st.active
      /\ mid.current = st.current /\ mid.chain = st.chain
  BY <1>1, StoreFields
<1>3. line \in Seq(FactIds) /\ Chain(line, SlotFacts(st, row.slot) \ {f}, Begins(st.facts))
  <2>1. /\ mid.chain[row.slot] \in Seq(FactIds)
        /\ Chain(mid.chain[row.slot], SlotFacts(st, row.slot), Begins(st.facts))
    BY <1>1, <1>2, StateFields DEF StateOK
  <2> QED
    BY <2>1, ChainRemove
<1>4. Cleared(new, mid, f, row, line)
  <2>1. line = RemoveFirst(mid.chain[row.slot], f)
    OBVIOUS
  <2> HIDE DEF line, row, mid
  <2> QED
    BY <2>1, <1>1, <1>2, <1>3, RemoveFields
<1>5. /\ new \in States
      /\ new.facts = Upd(st.facts, u) /\ new.byId = st.byId \cup {f}
      /\ new.bySlot = [st.bySlot EXCEPT ![row.slot] = @ \ {f}]
      /\ new.active = [st.active EXCEPT ![row.slot] = @ \ {f}]
      /\ new.current = [st.current EXCEPT ![row.slot] = @ \ {f}]
      /\ new.chain = [st.chain EXCEPT ![row.slot] = line]
  <2> HIDE DEF line, row, mid, new
  <2> QED
    BY <1>4, <1>2 DEF Cleared
<1>6. /\ DOMAIN new.facts = DOMAIN st.facts \cup {f}
      /\ \A g \in DOMAIN st.facts : g # f => new.facts[g] = st.facts[g]
  <2> HIDE DEF line, row, mid, new
  <2> QED
    BY <1>5 DEF Upd
<1> HIDE DEF new, mid, line
<1>7. ASSUME NEW s \in Slots
      PROVE  /\ new.bySlot[s] = SlotFacts(new, s) \ {f}
             /\ new.active[s] = ActiveFacts(new, s) \ {f}
             /\ new.current[s] = CurrentFacts(new, s) \ {f}
             /\ Chain(new.chain[s], SlotFacts(new, s) \ {f}, Begins(new.facts))
  <2>1. SlotFacts(st, s) \ {f} = SlotFacts(new, s) \ {f}
    BY <1>6 DEF SlotFacts
  <2>2. /\ ActiveFacts(st, s) \ {f} = ActiveFacts(new, s) \ {f}
        /\ CurrentFacts(st, s) \ {f} = CurrentFacts(new, s) \ {f}
    BY <2>1, <1>6 DEF ActiveFacts, CurrentFacts, SlotFacts
  <2>3. \A g \in SlotFacts(st, s) \ {f} : Begins(new.facts)[g] = Begins(st.facts)[g]
    BY <1>6 DEF Begins, SlotFacts
  <2>4. Chain(new.chain[s], SlotFacts(st, s) \ {f}, Begins(st.facts)) /\ new.bySlot[s] = st.bySlot[s] \ {f}
        /\ new.active[s] = st.active[s] \ {f} /\ new.current[s] = st.current[s] \ {f}
    <3>0. /\ s \in DOMAIN st.bySlot /\ s \in DOMAIN st.active
          /\ s \in DOMAIN st.current /\ s \in DOMAIN st.chain
      BY <1>1 DEF States, Entries, Chains
    <3>1. CASE s = row.slot
      <4>1. new.chain[s] = line
        BY <1>5, <3>0, <3>1
      <4>2. new.bySlot[s] = st.bySlot[s] \ {f} /\ new.active[s] = st.active[s] \ {f}
            /\ new.current[s] = st.current[s] \ {f}
        BY <1>5, <3>0, <3>1
      <4> QED
        BY <4>1, <4>2, <1>3, <3>1
    <3>2. CASE s # row.slot
      <4>1. new.chain[s] = st.chain[s]
        BY <1>5, <3>0, <3>2
      <4>2. new.bySlot[s] = st.bySlot[s] /\ new.active[s] = st.active[s]
            /\ new.current[s] = st.current[s]
        BY <1>5, <3>0, <3>2
      <4>3. f \notin SlotFacts(st, s)
        BY <3>2 DEF SlotFacts
      <4>4. f \notin st.bySlot[s] /\ f \notin st.active[s] /\ f \notin st.current[s]
        BY <4>3 DEF StateOK, ActiveFacts, CurrentFacts
      <4>5. SlotFacts(st, s) \ {f} = SlotFacts(st, s)
        BY <4>3
      <4>6. Chain(st.chain[s], SlotFacts(st, s), Begins(st.facts))
        BY DEF StateOK
      <4>7. st.bySlot[s] \ {f} = st.bySlot[s] /\ st.active[s] \ {f} = st.active[s]
            /\ st.current[s] \ {f} = st.current[s]
        BY <4>4
      <4> QED
        BY <4>1, <4>2, <4>5, <4>6, <4>7
    <3> QED
      BY <3>1, <3>2
  <2>5. Chain(new.chain[s], SlotFacts(st, s) \ {f}, Begins(new.facts))
    BY <2>3, <2>4, ChainKeys
  <2>6. st.bySlot[s] = SlotFacts(st, s) /\ st.active[s] = ActiveFacts(st, s)
        /\ st.current[s] = CurrentFacts(st, s)
    BY DEF StateOK
  <2> QED
    BY <2>1, <2>2, <2>4, <2>5, <2>6
<1>8. new.byId = DOMAIN new.facts /\ f \in DOMAIN new.facts
  BY <1>5, <1>6 DEF StateOK
<1> QED
  BY <1>5, <1>7, <1>8 DEF Bare, new, mid

(* An upsert keeps every index what the facts say, and stores its row. *)
LEMMA UpsertKeepsIndexes ==
    ASSUME NEW st, StateOK(st), NEW u \in Upsert
    PROVE  StateOK(ApplyFactUpsert(st, u)) /\ ApplyFactUpsert(st, u).facts = Upd(st.facts, u)
<1> DEFINE bare == IF u.id \in DOMAIN st.facts
                     THEN RemoveFactIndex(StoreRow(st, u), u.id, st.facts[u.id]) ELSE StoreRow(st, u)
<1>1. Bare(bare, u.id) /\ bare.facts = Upd(st.facts, u)
  <2>1. CASE u.id \in DOMAIN st.facts
    BY <2>1, StoredOld
  <2>2. CASE u.id \notin DOMAIN st.facts
    BY <2>2, StoredNew
  <2> QED
    BY <2>1, <2>2
<1>2. bare.facts[u.id] = u.row
  BY <1>1 DEF Upd
<1>3. ApplyFactUpsert(st, u) = InsertFactIndex(bare, u.id, u.row)
  BY DEF ApplyFactUpsert
<1> HIDE DEF bare
<1> QED
  BY <1>1, <1>2, <1>3, InsertBare

(* AppendLogState::default. *)
LEMMA EmptyIsIndexed ==
    StateOK(NoFacts) /\ NoFacts.facts = [f \in {} |-> NoRow] /\ DOMAIN NoFacts.facts = {}
<1>1. [f \in {} |-> NoRow] \in FactMaps
  <2>1. [f \in {} |-> NoRow] \in [{} -> Row]
    OBVIOUS
  <2> QED
    BY <2>1 DEF FactMaps
<1>2. << >> \in Seq(FactIds) /\ ToSet(<< >>) = {} /\ DOMAIN << >> = {}
  BY DEF ToSet
<1>3. NoFacts \in States
  BY <1>1, <1>2 DEF NoFacts, States, EmptyIndex, Entries, Chains
<1>4. /\ NoFacts.facts = [f \in {} |-> NoRow] /\ NoFacts.byId = {} /\ NoFacts.bySlot = EmptyIndex
      /\ NoFacts.active = EmptyIndex /\ NoFacts.current = EmptyIndex
      /\ NoFacts.chain = [s \in Slots |-> << >>]
  BY DEF NoFacts
<1>5. DOMAIN NoFacts.facts = {}
  BY <1>4
<1>6. \A s : SlotFacts(NoFacts, s) = {} /\ ActiveFacts(NoFacts, s) = {} /\ CurrentFacts(NoFacts, s) = {}
  BY <1>5 DEF SlotFacts, ActiveFacts, CurrentFacts
<1>7. \A from : Chain(<< >>, {}, from)
  BY <1>2 DEF Chain, IsInjective
<1> QED
  BY <1>3, <1>4, <1>5, <1>6, <1>7 DEF StateOK, EmptyIndex

-----------------------------------------------------------------------------
(* The facts are the last rows of the first n upserts. *)
Says(u, n, facts) ==
    /\ DOMAIN facts = {u[i].id : i \in 1..n}
    /\ \A i \in 1..n : (\A j \in i + 1..n : u[j].id # u[i].id) => facts[u[i].id] = u[i].row

(* One more upsert makes its row the last one of its fact. *)
LEMMA SaysNext ==
    ASSUME NEW u, NEW n \in Nat, NEW facts, Says(u, n, facts)
    PROVE  Says(u, n + 1, Upd(facts, u[n + 1]))
<1> DEFINE new == Upd(facts, u[n + 1])
<1>1. /\ DOMAIN new = DOMAIN facts \cup {u[n + 1].id}
      /\ new[u[n + 1].id] = u[n + 1].row
      /\ \A f \in DOMAIN facts : f # u[n + 1].id => new[f] = facts[f]
  BY DEF Upd
<1> HIDE DEF new
<1>2. DOMAIN new = {u[i].id : i \in 1..n + 1}
  <2>1. \A i \in 1..n + 1 : i \in 1..n \/ i = n + 1
    OBVIOUS
  <2>2. 1..n \subseteq 1..n + 1 /\ n + 1 \in 1..n + 1
    OBVIOUS
  <2> QED
    BY <1>1, <2>1, <2>2 DEF Says
<1>3. ASSUME NEW i \in 1..n + 1, \A j \in i + 1..n + 1 : u[j].id # u[i].id
      PROVE  new[u[i].id] = u[i].row
  <2>1. CASE i = n + 1
    BY <1>1, <2>1
  <2>2. CASE i \in 1..n
    <3>1. n + 1 \in i + 1..n + 1 /\ i + 1..n \subseteq i + 1..n + 1
      BY <2>2
    <3>2. u[i].id # u[n + 1].id /\ \A j \in i + 1..n : u[j].id # u[i].id
      BY <3>1, <1>3
    <3>3. facts[u[i].id] = u[i].row /\ u[i].id \in DOMAIN facts
      BY <2>2, <3>2 DEF Says
    <3> QED
      BY <1>1, <3>2, <3>3
  <2> QED
    BY <2>1, <2>2
<1> QED
  BY <1>2, <1>3 DEF Says, new

(* Every member of a sequence has a last place in it. *)
LEMMA LastPlace ==
    ASSUME NEW u, NEW n \in Nat, NEW k \in 1..n
    PROVE  \E i \in 1..n : u[i].id = u[k].id /\ \A j \in i + 1..n : u[j].id # u[k].id
<1> DEFINE f == u[k].id
           Back == {m \in 0..n : n - m \in 1..n /\ u[n - m].id = f}
<1>1. Back \in SUBSET Nat
  OBVIOUS
<1>2. Back # {}
  <2>2. n - k \in 0..n /\ n - (n - k) = k
    OBVIOUS
  <2>3. n - k \in Back
    BY <2>2
  <2> QED
    BY <2>3
<1> HIDE DEF Back
<1>3. PICK m \in Back : \A x \in Back : m <= x
  BY <1>1, <1>2, LeastElement
<1>4. m \in 0..n /\ n - m \in 1..n /\ u[n - m].id = f
  BY <1>3 DEF Back
<1>5. ASSUME NEW j \in (n - m) + 1..n PROVE u[j].id # f
  <2> SUFFICES ASSUME u[j].id = f PROVE FALSE
    OBVIOUS
  <2>1. n - j \in 0..n /\ n - (n - j) = j /\ j \in 1..n /\ n - j < m
    BY <1>4
  <2>2. n - j \in Back
    BY <2>1 DEF Back
  <2> QED
    BY <2>1, <2>2, <1>3, <1>1
<1> QED
  BY <1>4, <1>5

(* The last rows of a log determine the facts. *)
LEMMA SaysOnce ==
    ASSUME NEW u, NEW n \in Nat, NEW a \in FactMaps, NEW b \in FactMaps, Says(u, n, a), Says(u, n, b)
    PROVE  a = b
<1>1. DOMAIN a = DOMAIN b
  BY DEF Says
<1>2. ASSUME NEW f \in DOMAIN a PROVE a[f] = b[f]
  <2>1. PICK k \in 1..n : u[k].id = f
    BY DEF Says
  <2>2. PICK i \in 1..n : u[i].id = u[k].id /\ \A j \in i + 1..n : u[j].id # u[k].id
    BY <2>1, LastPlace
  <2>3. a[f] = u[i].row
    BY <2>1, <2>2 DEF Says
  <2>4. b[f] = u[i].row
    BY <2>1, <2>2 DEF Says
  <2> QED
    BY <2>3, <2>4
<1>3. a = [f \in DOMAIN a |-> a[f]] /\ b = [f \in DOMAIN b |-> b[f]]
  BY DEF FactMaps
<1> QED
  BY <1>1, <1>2, <1>3, Zenon

(* Replay: indexes that match, and the facts of the last rows. *)
LEMMA ReplayIndexes ==
    ASSUME NEW u \in Seq(Upsert)
    PROVE  StateOK(Rebuild(u)) /\ Says(u, Len(u), Rebuild(u).facts)
<1>0. Len(u) \in Nat /\ \A n \in 1..Len(u) : u[n] \in Upsert
  OBVIOUS
<1>1. PICK r : /\ r[0] = NoFacts
               /\ \A n \in 1..Len(u) : r[n] = ApplyFactUpsert(r[n - 1], u[n])
               /\ Rebuild(u) = r[Len(u)]
  BY <1>0, RebuildSteps
<1> DEFINE T == {k \in 0..Len(u) : StateOK(r[k]) /\ Says(u, k, r[k].facts)}
<1>2. 0 \in T
  <2>1. Says(u, 0, NoFacts.facts)
    BY EmptyIsIndexed DEF Says
  <2> QED
    BY <1>0, <1>1, <2>1, EmptyIsIndexed
<1>3. \A k \in 0..Len(u) : k \in T /\ k < Len(u) => k + 1 \in T
  <2> SUFFICES ASSUME NEW k \in 0..Len(u), k \in T, k < Len(u) PROVE k + 1 \in T
    OBVIOUS
  <2>1. k + 1 \in 1..Len(u) /\ (k + 1) - 1 = k /\ k \in Nat
    BY <1>0
  <2>2. r[k + 1] = ApplyFactUpsert(r[k], u[k + 1]) /\ u[k + 1] \in Upsert
    BY <1>0, <1>1, <2>1
  <2>3. StateOK(r[k]) /\ Says(u, k, r[k].facts)
    OBVIOUS
  <2>4. StateOK(r[k + 1]) /\ r[k + 1].facts = Upd(r[k].facts, u[k + 1])
    BY <2>2, <2>3, UpsertKeepsIndexes
  <2>5. Says(u, k + 1, Upd(r[k].facts, u[k + 1]))
    BY <2>1, <2>3, SaysNext
  <2>6. Says(u, k + 1, r[k + 1].facts)
    BY <2>4, <2>5
  <2>7. k + 1 \in 0..Len(u)
    BY <2>1
  <2> QED
    BY <2>4, <2>6, <2>7
<1> HIDE DEF T
<1>4. \A k \in 0..Len(u) : k \in T
  BY <1>0, <1>2, <1>3, Induction
<1>5. Len(u) \in T
  BY <1>0, <1>4
<1> QED
  BY <1>1, <1>5 DEF T

-----------------------------------------------------------------------------
(* A filter keeps the members that are in the set, and their order. *)
LEMMA KeepMembers ==
    ASSUME NEW S, NEW s \in Seq(S), NEW V, NEW key,
           \A i \in 1..Len(s) : key[s[i]] \in Nat,
           \A i, j \in 1..Len(s) : i < j => key[s[i]] >= key[s[j]]
    PROVE  LET t == Keep(s, V)
           IN  /\ t \in Seq(S)
               /\ ToSet(t) = ToSet(s) \cap V
               /\ \A i, j \in DOMAIN t : i < j => key[t[i]] >= key[t[j]]
<1>0. Len(s) \in Nat /\ DOMAIN s = 1..Len(s) /\ \A n \in 1..Len(s) : s[n] \in S
  OBVIOUS
<1>1. PICK r : /\ r[0] = << >>
               /\ \A n \in 1..Len(s) :
                    r[n] = IF s[n] \in V THEN Append(r[n - 1], s[n]) ELSE r[n - 1]
               /\ Keep(s, V) = r[Len(s)]
  BY <1>0, KeepSteps
<1> DEFINE First(k) == {s[i] : i \in 1..k} \cap V
           Falls(t) == \A i, j \in DOMAIN t : i < j => key[t[i]] >= key[t[j]]
           T == {k \in 0..Len(s) : r[k] \in Seq(S) /\ ToSet(r[k]) = First(k) /\ Falls(r[k])}
<1>2. 0 \in T
  <2>1. << >> \in Seq(S) /\ ToSet(<< >>) = {} /\ DOMAIN << >> = {}
    BY DEF ToSet
  <2>2. First(0) = {}
    OBVIOUS
  <2>3. Falls(r[0]) /\ r[0] \in Seq(S)
    BY <1>1, <2>1
  <2>4. ToSet(r[0]) = First(0)
    BY <1>1, <2>1, <2>2, Zenon
  <2> HIDE DEF First, Falls
  <2> QED
    BY <1>0, <2>3, <2>4
<1>3. \A k \in 0..Len(s) : k \in T /\ k < Len(s) => k + 1 \in T
  <2> SUFFICES ASSUME NEW k \in 0..Len(s), k \in T, k < Len(s) PROVE k + 1 \in T
    OBVIOUS
  <2> DEFINE e == s[k + 1]
             t == r[k]
  <2>1. k + 1 \in 1..Len(s) /\ (k + 1) - 1 = k /\ k \in Nat /\ k + 1 \in 0..Len(s)
    BY <1>0
  <2>2. r[k + 1] = (IF e \in V THEN Append(t, e) ELSE t) /\ e \in S
    BY <1>0, <1>1, <2>1
  <2>3. t \in Seq(S) /\ ToSet(t) = First(k) /\ Falls(t)
    OBVIOUS
  <2>4. {s[i] : i \in 1..k + 1} = {s[i] : i \in 1..k} \cup {e}
    <3>1. \A i \in 1..k + 1 : i \in 1..k \/ i = k + 1
      BY <2>1
    <3>2. 1..k \subseteq 1..k + 1 /\ k + 1 \in 1..k + 1
      BY <2>1
    <3> QED
      BY <3>1, <3>2
  <2>5. \A i \in DOMAIN t : key[t[i]] >= key[e]
    <3> SUFFICES ASSUME NEW i \in DOMAIN t PROVE key[t[i]] >= key[e]
      OBVIOUS
    <3>1. t[i] \in ToSet(t)
      BY DEF ToSet
    <3>2. PICK m \in 1..k : t[i] = s[m]
      BY <2>3, <3>1
    <3>3. m \in 1..Len(s) /\ m < k + 1
      BY <1>0, <2>1
    <3> QED
      BY <2>1, <3>2, <3>3
  <2> HIDE DEF e, t
  <2>6. CASE e \in V
    <3>1. r[k + 1] = Append(t, e)
      BY <2>2, <2>6
    <3>2. /\ Append(t, e) \in Seq(S) /\ DOMAIN Append(t, e) = 1..Len(t) + 1 /\ Len(t) \in Nat
          /\ Append(t, e)[Len(t) + 1] = e /\ DOMAIN t = 1..Len(t)
          /\ \A i \in 1..Len(t) : Append(t, e)[i] = t[i]
      BY <2>2, <2>3
    <3> DEFINE new == Append(t, e)
    <3> HIDE DEF new
    <3>3. ToSet(new) = ToSet(t) \cup {e}
      <4>1. \A i \in 1..Len(t) + 1 : i \in 1..Len(t) \/ i = Len(t) + 1
        BY <3>2
      <4>2. 1..Len(t) \subseteq 1..Len(t) + 1 /\ Len(t) + 1 \in 1..Len(t) + 1
        BY <3>2
      <4> QED
        BY <3>2, <4>1, <4>2 DEF ToSet, new
    <3>4. First(k + 1) = First(k) \cup {e}
      BY <2>4, <2>6
    <3>5. Falls(new)
      <4> SUFFICES ASSUME NEW i \in DOMAIN new, NEW j \in DOMAIN new, i < j
                   PROVE  key[new[i]] >= key[new[j]]
        OBVIOUS
      <4>1. i \in 1..Len(t) /\ new[i] = t[i]
        BY <3>2 DEF new
      <4>2. CASE j = Len(t) + 1
        BY <4>1, <4>2, <2>5, <3>2 DEF new
      <4>3. CASE j \in 1..Len(t)
        BY <4>1, <4>3, <2>3, <3>2 DEF new
      <4> QED
        BY <4>2, <4>3, <3>2 DEF new
    <3> HIDE DEF First, Falls
    <3> QED
      BY <2>1, <2>3, <3>1, <3>2, <3>3, <3>4, <3>5 DEF new
  <2>7. CASE e \notin V
    <3>1. r[k + 1] = t
      BY <2>2, <2>7
    <3>2. First(k + 1) = First(k)
      BY <2>4, <2>7
    <3> HIDE DEF First, Falls
    <3> QED
      BY <2>1, <2>3, <3>1, <3>2
  <2> QED
    BY <2>6, <2>7
<1> HIDE DEF T
<1>4. \A k \in 0..Len(s) : k \in T
  BY <1>0, <1>2, <1>3, Induction
<1>5. Len(s) \in T
  BY <1>0, <1>4
<1>6. ToSet(s) = {s[i] : i \in 1..Len(s)}
  BY <1>0 DEF ToSet
<1> QED
  BY <1>1, <1>5, <1>6 DEF T

-----------------------------------------------------------------------------
(* The prefix of a chain up to the partition point, newest first. *)
LEMMA PrefixNewestFirst ==
    ASSUME NEW S, NEW s \in Seq(S), NEW D, NEW key, Chain(s, D, key),
           \A g \in D : key[g] \in Nat,
           NEW T, NEW at \in Nat, \A g \in D : g \in T <=> key[g] <= at
    PROVE  LET t == Reverse(SubSeq(s, 1, PartitionPoint(s, T)))
           IN  /\ t \in Seq(S)
               /\ ToSet(t) = {g \in D : key[g] <= at}
               /\ \A i \in 1..Len(t) : key[t[i]] \in Nat
               /\ \A i, j \in 1..Len(t) : i < j => key[t[i]] >= key[t[j]]
<1> DEFINE n == PartitionPoint(s, T)
           p == SubSeq(s, 1, n)
           t == Reverse(p)
<1>1. /\ n \in 0..Len(s)
      /\ \A i \in 1..n : s[i] \in T
      /\ n < Len(s) => s[n + 1] \notin T
  BY PointOfPartition
<1> HIDE DEF n
<1>2. p \in Seq(S) /\ Len(p) = n /\ \A i \in 1..n : p[i] = s[i]
  BY <1>1
<1>3. t = [i \in 1..Len(p) |-> p[(Len(p) - i) + 1]]
  BY DEF Reverse
<1> HIDE DEF p, t
<1>4. n \in Nat /\ n <= Len(s) /\ Len(s) \in Nat /\ DOMAIN s = 1..Len(s)
  BY <1>1
<1>5. t = [i \in 1..n |-> p[(n - i) + 1]]
  BY <1>2, <1>3
<1>6. \A i \in 1..n : (n - i) + 1 \in 1..n /\ t[i] = s[(n - i) + 1]
  <2> SUFFICES ASSUME NEW i \in 1..n PROVE (n - i) + 1 \in 1..n /\ t[i] = s[(n - i) + 1]
    OBVIOUS
  <2>1. (n - i) + 1 \in 1..n
    BY <1>4
  <2> QED
    BY <2>1, <1>2, <1>5
<1>7. \A i \in 1..n : s[i] \in S /\ s[i] \in D /\ key[s[i]] \in Nat
  BY <1>4 DEF Chain, ToSet
<1>8. t \in [1..n -> S]
  BY <1>5, <1>6, <1>7
<1>9. t \in Seq(S) /\ Len(t) = n /\ DOMAIN t = 1..n
  <2>1. t \in Seq(S)
    BY <1>4, <1>8
  <2>2. DOMAIN t = 1..n
    BY <1>8
  <2> QED
    BY <1>4, <2>1, <2>2
<1>10. \A i \in 1..n : key[t[i]] \in Nat
  BY <1>6, <1>7
<1>11. \A i, j \in 1..n : i < j => key[t[i]] >= key[t[j]]
  <2> SUFFICES ASSUME NEW i \in 1..n, NEW j \in 1..n, i < j PROVE key[t[i]] >= key[t[j]]
    OBVIOUS
  <2>1. PICK a \in 1..n : a = (n - i) + 1 /\ t[i] = s[a]
    BY <1>6
  <2>2. PICK b \in 1..n : b = (n - j) + 1 /\ t[j] = s[b]
    BY <1>6
  <2>3. b < a /\ a \in DOMAIN s /\ b \in DOMAIN s
    BY <2>1, <2>2, <1>4
  <2>4. key[s[b]] <= key[s[a]]
    BY <2>3 DEF Chain
  <2> QED
    BY <2>1, <2>2, <2>4, <1>7
<1>12. ToSet(t) \subseteq {g \in D : key[g] <= at}
  <2> SUFFICES ASSUME NEW i \in 1..n PROVE t[i] \in D /\ key[t[i]] <= at
    BY <1>9 DEF ToSet
  <2>1. PICK a \in 1..n : t[i] = s[a]
    BY <1>6
  <2> QED
    BY <2>1, <1>1, <1>7
<1>13. ASSUME NEW g \in D, key[g] <= at PROVE g \in ToSet(t)
  <2>1. PICK a \in 1..Len(s) : s[a] = g
    BY <1>4 DEF Chain, ToSet
  <2>2. a <= n
    <3> SUFFICES ASSUME n < a PROVE FALSE
      BY <1>4
    <3>1. n + 1 \in 1..Len(s) /\ n < Len(s) /\ n + 1 <= a
      BY <1>4
    <3>2. s[n + 1] \in D /\ key[s[n + 1]] \in Nat /\ s[n + 1] \notin T
      BY <3>1, <1>1, <1>4 DEF Chain, ToSet
    <3>3. key[s[n + 1]] > at
      BY <3>2
    <3>4. key[s[n + 1]] <= key[s[a]]
      <4>1. CASE n + 1 = a
        BY <4>1, <3>2
      <4>2. CASE n + 1 < a
        BY <4>2, <3>1, <1>4 DEF Chain
      <4> QED
        BY <4>1, <4>2, <3>1, <1>4
    <3> QED
      BY <1>13, <2>1, <3>2, <3>3, <3>4
  <2>3. (n - a) + 1 \in 1..n /\ (n - ((n - a) + 1)) + 1 = a
    BY <1>4, <2>2
  <2>4. PICK b \in 1..n : (n - b) + 1 = a
    BY <2>3
  <2>5. t[b] = g
    BY <2>1, <2>4, <1>6
  <2> QED
    BY <2>5, <1>9 DEF ToSet
<1>14. ToSet(t) = {g \in D : key[g] <= at}
  BY <1>12, <1>13
<1> QED
  BY <1>9, <1>10, <1>11, <1>14 DEF t, p, n

(* What facts_at finds in a state whose indexes match its facts. *)
LEMMA FactsAtFinds ==
    ASSUME NEW st, StateOK(st), NEW s \in Slots, NEW at \in Times
    PROVE  LET found == FactsAt(st, s, at)
           IN  /\ ToSet(found) = {f \in SlotFacts(st, s) : WasValidAt(st.facts[f], at)}
               /\ \A i, j \in DOMAIN found : i < j => st.facts[found[i]].from >= st.facts[found[j]].from
<1> DEFINE began == {f \in DOMAIN st.facts : st.facts[f].from <= at}
           valid == {f \in DOMAIN st.facts : WasValidAt(st.facts[f], at)}
           key == Begins(st.facts)
           D == SlotFacts(st, s)
           chain == st.chain[s]
           near == Reverse(SubSeq(chain, 1, PartitionPoint(chain, began)))
           found == Keep(near, valid)
<1>1. found = FactsAt(st, s, at)
  BY DEF FactsAt
<1>2. at \in Nat
  BY OrderAssumption
<1>3. chain \in Seq(FactIds) /\ Chain(chain, D, key)
  BY StateFields DEF StateOK
<1>4. \A g \in D : key[g] \in Nat /\ key[g] = st.facts[g].from
  BY StateFields DEF StateOK, SlotFacts, Begins
<1>5. \A g \in D : g \in began <=> key[g] <= at
  BY <1>4 DEF SlotFacts
<1> HIDE DEF key, D, began, chain
<1>6. /\ near \in Seq(FactIds)
      /\ ToSet(near) = {g \in D : key[g] <= at}
      /\ \A i \in 1..Len(near) : key[near[i]] \in Nat
      /\ \A i, j \in 1..Len(near) : i < j => key[near[i]] >= key[near[j]]
  BY <1>2, <1>3, <1>4, <1>5, PrefixNewestFirst
<1> HIDE DEF near, valid
<1>7. /\ found \in Seq(FactIds)
      /\ ToSet(found) = ToSet(near) \cap valid
      /\ \A i, j \in DOMAIN found : i < j => key[found[i]] >= key[found[j]]
  BY <1>6, KeepMembers
<1> HIDE DEF found
<1>8. ToSet(found) = {f \in D : WasValidAt(st.facts[f], at)}
  <2>1. \A f \in D : f \in valid <=> WasValidAt(st.facts[f], at)
    BY DEF valid, D, SlotFacts
  <2>2. \A f \in D : WasValidAt(st.facts[f], at) => key[f] <= at
    BY <1>4 DEF WasValidAt
  <2> QED
    BY <1>6, <1>7, <2>1, <2>2
<1>9. \A i \in DOMAIN found : found[i] \in D
  BY <1>6, <1>7 DEF ToSet
<1>10. \A i, j \in DOMAIN found : i < j => st.facts[found[i]].from >= st.facts[found[j]].from
  BY <1>4, <1>7, <1>9
<1> QED
  BY <1>1, <1>8, <1>10 DEF D

-----------------------------------------------------------------------------
(* The inductive invariant: the indexes match the facts, the facts are the *)
(* last rows in the log, and a row read by a client is of a stored fact    *)
(* that has kept its slot and beginning.                                   *)
LogSays == log \in Seq(Upsert) /\ Len(log) <= MaxLog /\ Says(log, Len(log), state.facts)
KeyedStored == IsFiniteSet(DOMAIN state.facts) /\ keyed \subseteq DOMAIN state.facts
RowsKnown ==
    /\ pending \in [Clients -> Upsert \cup {NoRow}]
    /\ \A c \in Clients : pending[c] # NoRow =>
         /\ pending[c].id \in DOMAIN state.facts
         /\ pending[c].row.slot = state.facts[pending[c].id].slot
         /\ pending[c].row.from = state.facts[pending[c].id].from

IInv == StateOK(state) /\ LogSays /\ KeyedStored /\ RowsKnown

(* What a step may do to the facts. *)
Grown(old, new) ==
    \A f \in DOMAIN old :
        /\ f \in DOMAIN new
        /\ new[f].slot = old[f].slot
        /\ new[f].from = old[f].from
        /\ IsCurrentlyValid(new[f]) => IsCurrentlyValid(old[f])

(* A row that was read stays one of a known fact. *)
LEMMA GrownRows ==
    ASSUME RowsKnown, Grown(state.facts, state'.facts), UNCHANGED pending
    PROVE  RowsKnown'
BY DEF RowsKnown, Grown

(* A write reaches the log and the state together. *)
LEMMA WriteKeeps ==
    ASSUME StateOK(state), LogSays, NEW u \in Upsert, Write(u)
    PROVE  StateOK(state)' /\ LogSays' /\ state'.facts = Upd(state.facts, u)
<1>1. StateOK(state') /\ state'.facts = Upd(state.facts, u)
  BY UpsertKeepsIndexes DEF Write
<1>2. /\ log' \in Seq(Upsert) /\ Len(log') = Len(log) + 1 /\ Len(log) \in Nat
      /\ log'[Len(log) + 1] = u /\ \A i \in 1..Len(log) : log'[i] = log[i]
  BY DEF Write, LogSays
<1>3. Len(log') <= MaxLog
  BY <1>2, OrderAssumption DEF Write
<1>4. Says(log', Len(log), state.facts)
  <2>1. Says(log, Len(log), state.facts)
    BY DEF LogSays
  <2>2. \A i \in 1..Len(log) : \A j \in i + 1..Len(log) : j \in 1..Len(log)
    BY <1>2
  <2> QED
    BY <1>2, <2>1, <2>2 DEF Says
<1>5. Says(log', Len(log) + 1, Upd(state.facts, log'[Len(log) + 1]))
  BY <1>2, <1>4, SaysNext
<1> QED
  BY <1>1, <1>2, <1>3, <1>5 DEF LogSays

(* write_fact, write_fact_and_idempotency. *)
LEMMA AssertKeeps ==
    ASSUME IInv, AssertFact
    PROVE  IInv' /\ Grown(state.facts, state'.facts)
<1>1. PICK f \in FactIds \ DOMAIN state.facts, s \in Slots, t \in Times :
        /\ Write([id |-> f, row |-> [slot |-> s, from |-> t, to |-> NoEnd, expired |-> NoEnd]])
        /\ keyed' \in {keyed, keyed \cup {f}}
        /\ UNCHANGED pending
  BY DEF AssertFact
<1> DEFINE u == [id |-> f, row |-> [slot |-> s, from |-> t, to |-> NoEnd, expired |-> NoEnd]]
<1>2. u \in Upsert /\ u.id = f
  BY DEF Upsert, Row
<1> HIDE DEF u
<1>3. StateOK(state)' /\ LogSays' /\ state'.facts = Upd(state.facts, u)
  <2>1. Write(u)
    BY <1>1 DEF u
  <2> QED
    BY <2>1, <1>2, WriteKeeps DEF IInv
<1>4. /\ DOMAIN state'.facts = DOMAIN state.facts \cup {f}
      /\ \A g \in DOMAIN state.facts : state'.facts[g] = state.facts[g]
  BY <1>1, <1>2, <1>3 DEF Upd
<1>5. Grown(state.facts, state'.facts)
  BY <1>4 DEF Grown
<1>6. KeyedStored'
  <2>1. IsFiniteSet(DOMAIN state.facts \cup {f})
    BY FS_AddElement DEF IInv, KeyedStored
  <2> QED
    BY <1>1, <1>4, <2>1 DEF IInv, KeyedStored
<1>7. RowsKnown'
  BY <1>1, <1>5, GrownRows DEF IInv
<1> QED
  BY <1>3, <1>5, <1>6, <1>7 DEF IInv

(* The first half of invalidate_fact. *)
LEMMA ReadKeeps ==
    ASSUME IInv, NEW c \in Clients, ReadRow(c)
    PROVE  IInv' /\ Grown(state.facts, state'.facts)
<1>1. PICK f \in state.byId : /\ pending' = [pending EXCEPT ![c] = [id |-> f, row |-> state.facts[f]]]
                              /\ UNCHANGED <<state, log, keyed>>
  BY DEF ReadRow
<1> DEFINE u == [id |-> f, row |-> state.facts[f]]
<1>2. u \in Upsert /\ u.id = f /\ u.row = state.facts[f] /\ f \in DOMAIN state.facts
  BY StateFields DEF IInv, StateOK, Upsert
<1> HIDE DEF u
<1>3. pending' = [pending EXCEPT ![c] = u]
  BY <1>1 DEF u
<1>4. RowsKnown'
  BY <1>1, <1>2, <1>3 DEF IInv, RowsKnown
<1>5. StateOK(state)' /\ LogSays' /\ KeyedStored'
  BY <1>1 DEF IInv, LogSays, KeyedStored
<1> QED
  BY <1>1, <1>4, <1>5 DEF IInv, Grown

(* The row invalidate_fact writes back is ended. *)
LEMMA EndedFields ==
    ASSUME NEW u \in Upsert, NEW at \in Times
    PROVE  /\ Ended(u, at) \in Upsert /\ Ended(u, at).id = u.id
           /\ Ended(u, at).row.slot = u.row.slot /\ Ended(u, at).row.from = u.row.from
           /\ ~ IsCurrentlyValid(Ended(u, at).row)
<1>1. at # NoEnd
  BY NoneAssumption
<1> QED
  BY <1>1 DEF Ended, Upsert, Row, IsCurrentlyValid

(* replace_fact_row, with a row that may be out of date. *)
LEMMA ReplaceKeeps ==
    ASSUME IInv, NEW c \in Clients, ReplaceRow(c)
    PROVE  IInv' /\ Grown(state.facts, state'.facts)
<1>1. PICK at \in Times : /\ pending[c] # NoRow
                          /\ Write(Ended(pending[c], at))
                          /\ pending' = [pending EXCEPT ![c] = NoRow]
                          /\ UNCHANGED keyed
  BY DEF ReplaceRow
<1> DEFINE old == pending[c]
           u == Ended(old, at)
<1>2. old \in Upsert
  BY <1>1 DEF IInv, RowsKnown
<1>3. /\ old.id \in DOMAIN state.facts
      /\ old.row.slot = state.facts[old.id].slot /\ old.row.from = state.facts[old.id].from
  BY <1>1 DEF IInv, RowsKnown
<1> HIDE DEF old
<1>4. /\ u \in Upsert /\ u.id = old.id
      /\ u.row.slot = old.row.slot /\ u.row.from = old.row.from /\ ~ IsCurrentlyValid(u.row)
  BY <1>2, EndedFields
<1>5. Write(u)
  BY <1>1 DEF old
<1> HIDE DEF u
<1>6. StateOK(state)' /\ LogSays' /\ state'.facts = Upd(state.facts, u)
  BY <1>4, <1>5, WriteKeeps DEF IInv
<1>7. /\ DOMAIN state'.facts = DOMAIN state.facts
      /\ state'.facts[u.id] = u.row
      /\ \A g \in DOMAIN state.facts : g # u.id => state'.facts[g] = state.facts[g]
  BY <1>3, <1>4, <1>6 DEF Upd
<1>8. Grown(state.facts, state'.facts)
  BY <1>3, <1>4, <1>7 DEF Grown
<1>9. KeyedStored'
  BY <1>1, <1>7 DEF IInv, KeyedStored
<1>10. RowsKnown'
  BY <1>1, <1>8 DEF IInv, RowsKnown, Grown
<1> QED
  BY <1>6, <1>8, <1>9, <1>10 DEF IInv

(* A finite set's enumeration without repetition misses nothing. *)
LEMMA EnumerationIsFull ==
    ASSUME NEW D, IsFiniteSet(D), NEW q \in SetToSeqs(D)
    PROVE  DOMAIN q = 1..Cardinality(D) /\ Cardinality(D) \in Nat /\ {q[i] : i \in DOMAIN q} = D
<1> DEFINE N == 1..Cardinality(D)
<1>1. Cardinality(D) \in Nat
  BY FS_CardinalityType
<1>2. q \in [N -> D] /\ \A i, j \in N : i # j => q[i] # q[j]
  BY DEF SetToSeqs
<1>3. q \in Injection(N, D)
  BY <1>2 DEF Injection, IsInjective
<1>4. Cardinality(N) = Cardinality(D)
  BY <1>1, FS_Interval
<1>5. q \in Surjection(N, D)
  BY <1>3, <1>4, FS_Injection
<1>6. \A d \in D : \E i \in N : q[i] = d
  BY <1>5 DEF Surjection
<1> QED
  BY <1>1, <1>2, <1>6

(* compact: each record is the row its fact has, and no fact is left out. *)
LEMMA CompactKeeps ==
    ASSUME IInv, Compact
    PROVE  IInv' /\ Grown(state.facts, state'.facts)
<1>1. PICK ordered \in KeyOrders(DOMAIN state.facts), named \in SetToSeqs(keyed) :
        /\ Cardinality(DOMAIN state.facts) + Cardinality(keyed) <= MaxLog
        /\ log' = UpsertsOf(ordered) \o UpsertsOf(named)
        /\ UNCHANGED <<state, keyed, pending>>
  BY DEF Compact
<1> DEFINE D == DOMAIN state.facts
           m == Cardinality(D)
           n == Cardinality(keyed)
           a == UpsertsOf(ordered)
           b == UpsertsOf(named)
           Copy(f) == [id |-> f, row |-> state.facts[f]]
<1>2. IsFiniteSet(D) /\ IsFiniteSet(keyed) /\ keyed \subseteq D
  BY FS_Subset DEF IInv, KeyedStored
<1>3. ordered \in SetToSeqs(D)
  BY DEF KeyOrders
<1>4. DOMAIN ordered = 1..m /\ m \in Nat /\ {ordered[i] : i \in DOMAIN ordered} = D
  BY <1>2, <1>3, EnumerationIsFull
<1>5. DOMAIN named = 1..n /\ n \in Nat /\ {named[i] : i \in DOMAIN named} = keyed
  BY <1>2, EnumerationIsFull
<1>6. \A f \in D : Copy(f) \in Upsert /\ Copy(f).id = f /\ Copy(f).row = state.facts[f]
  BY StateFields DEF IInv, StateOK, Upsert
<1>7. /\ a = [i \in 1..m |-> Copy(ordered[i])] /\ b = [i \in 1..n |-> Copy(named[i])]
  BY <1>4, <1>5 DEF UpsertsOf
<1>8. \A i \in 1..m : a[i] = Copy(ordered[i]) /\ ordered[i] \in D
  BY <1>4, <1>7
<1>9. \A i \in 1..n : b[i] = Copy(named[i]) /\ named[i] \in D
  BY <1>2, <1>5, <1>7
<1> HIDE DEF Copy
<1>10. a \in Seq(Upsert) /\ Len(a) = m
  <2>1. a \in [1..m -> Upsert]
    BY <1>6, <1>7, <1>8
  <2> HIDE DEF a, m
  <2> QED
    BY <1>4, <2>1
<1>11. b \in Seq(Upsert) /\ Len(b) = n
  <2>1. b \in [1..n -> Upsert]
    BY <1>6, <1>7, <1>9
  <2> HIDE DEF b, n
  <2> QED
    BY <1>5, <2>1
<1> HIDE DEF a, b, m, n
<1>12. log' = a \o b
  BY <1>1 DEF a, b
<1>13. /\ log' \in Seq(Upsert) /\ Len(log') = m + n
       /\ \A i \in 1..m : log'[i] = a[i]
       /\ \A i \in 1..n : log'[m + i] = b[i]
  <2> DEFINE ab == a \o b
  <2>1. /\ ab \in Seq(Upsert) /\ Len(ab) = m + n
        /\ \A i \in 1..m : ab[i] = a[i]
        /\ \A i \in 1..n : ab[m + i] = b[i]
    BY <1>10, <1>11
  <2> HIDE DEF ab
  <2> QED
    BY <2>1, <1>12 DEF ab
<1>14. \A i \in 1..m + n : log'[i].id \in D /\ log'[i].row = state.facts[log'[i].id]
  <2> SUFFICES ASSUME NEW i \in 1..m + n PROVE log'[i].id \in D /\ log'[i].row = state.facts[log'[i].id]
    OBVIOUS
  <2>1. CASE i \in 1..m
    BY <2>1, <1>6, <1>8, <1>13
  <2>2. CASE i > m
    <3>1. i - m \in 1..n /\ i = m + (i - m)
      BY <2>2, <1>4, <1>5 DEF m, n
    <3>2. PICK k \in 1..n : i = m + k
      BY <3>1
    <3> QED
      BY <3>2, <1>6, <1>9, <1>13
  <2> QED
    BY <2>1, <2>2, <1>4, <1>5 DEF m, n
<1>15. \A f \in D : \E i \in 1..m + n : log'[i].id = f
  <2> SUFFICES ASSUME NEW f \in D PROVE \E i \in 1..m + n : log'[i].id = f
    OBVIOUS
  <2>1. PICK i \in 1..m : ordered[i] = f
    BY <1>4 DEF m
  <2>2. log'[i].id = f
    BY <2>1, <1>6, <1>8, <1>13
  <2>3. i \in 1..m + n
    BY <1>4, <1>5 DEF m, n
  <2> QED
    BY <2>2, <2>3
<1>16. Says(log', m + n, state.facts)
  BY <1>14, <1>15 DEF Says
<1>17. m + n <= MaxLog
  BY <1>1 DEF m, n
<1>18. LogSays'
  BY <1>1, <1>13, <1>16, <1>17 DEF LogSays
<1>19. StateOK(state)' /\ KeyedStored' /\ RowsKnown'
  BY <1>1 DEF IInv, KeyedStored, RowsKnown
<1> QED
  BY <1>1, <1>18, <1>19 DEF IInv, Grown

(* The log and the memory agree, so a replay finds the same facts. *)
LEMMA ReplayFindsFacts ==
    ASSUME IInv
    PROVE  StateOK(Rebuild(log)) /\ Rebuild(log).facts = state.facts
<1>1. StateOK(Rebuild(log)) /\ Says(log, Len(log), Rebuild(log).facts)
  BY ReplayIndexes DEF IInv, LogSays
<1>2. Rebuild(log).facts \in FactMaps /\ state.facts \in FactMaps
  BY <1>1, StateFields DEF IInv, StateOK
<1>3. Len(log) \in Nat /\ Says(log, Len(log), state.facts)
  BY DEF IInv, LogSays
<1> QED
  BY <1>1, <1>2, <1>3, SaysOnce

(* load_state_from_path. *)
LEMMA ReopenKeeps ==
    ASSUME IInv, Reopen
    PROVE  IInv' /\ Grown(state.facts, state'.facts)
<1>1. StateOK(state)' /\ state'.facts = state.facts
  BY ReplayFindsFacts DEF Reopen
<1>2. LogSays' /\ KeyedStored'
  BY <1>1 DEF Reopen, IInv, LogSays, KeyedStored
<1>3. RowsKnown'
  BY DEF Reopen, RowsKnown
<1> QED
  BY <1>1, <1>2, <1>3 DEF IInv, Grown

(* An empty database. *)
LEMMA InitIndexed == Init => IInv
<1> SUFFICES ASSUME Init PROVE IInv
  OBVIOUS
<1>1. StateOK(state) /\ DOMAIN state.facts = {}
  BY EmptyIsIndexed DEF Init
<1>2. << >> \in Seq(Upsert) /\ Len(<< >>) = 0
  OBVIOUS
<1>3. LogSays
  BY <1>1, <1>2, OrderAssumption DEF Init, LogSays, Says
<1>4. KeyedStored
  BY <1>1, FS_EmptySet DEF Init, KeyedStored
<1>5. RowsKnown
  BY DEF Init, RowsKnown
<1> QED
  BY <1>1, <1>3, <1>4, <1>5 DEF IInv

(* One step, by the action it is. *)
LEMMA StepKeeps ==
    ASSUME IInv, [Next]_vars
    PROVE  IInv' /\ Grown(state.facts, state'.facts)
<1>1. CASE AssertFact
  BY <1>1, AssertKeeps
<1>2. ASSUME NEW c \in Clients, ReadRow(c) PROVE IInv' /\ Grown(state.facts, state'.facts)
  BY <1>2, ReadKeeps
<1>3. ASSUME NEW c \in Clients, ReplaceRow(c) PROVE IInv' /\ Grown(state.facts, state'.facts)
  BY <1>3, ReplaceKeeps
<1>4. CASE Compact
  BY <1>4, CompactKeeps
<1>5. CASE Reopen
  BY <1>5, ReopenKeeps
<1>6. CASE UNCHANGED vars
  BY <1>6 DEF vars, IInv, LogSays, KeyedStored, RowsKnown, Grown
<1> QED
  BY <1>1, <1>2, <1>3, <1>4, <1>5, <1>6 DEF Next

(* The invariant holds in every behaviour: of writes with rows of any age, *)
(* compactions and reopenings, in any order.                               *)
THEOREM IndexInvariant == Spec => []IInv
<1>1. IInv /\ [Next]_vars => IInv'
  BY StepKeeps
<1> QED
  BY InitIndexed, <1>1, PTL DEF Spec

(* The derived maps hold ids of the database, their chains are sequences   *)
(* of them, and a row to be written back is a row.                         *)
THEOREM IndexTyped == Spec => []TypeOK
<1>1. IInv => TypeOK
  <2> SUFFICES ASSUME IInv PROVE TypeOK
    OBVIOUS
  <2>1. /\ DOMAIN state.facts \subseteq FactIds
        /\ \A f \in DOMAIN state.facts : state.facts[f] \in Row
    BY StateFields DEF IInv, StateOK
  <2>2. /\ state.byId \subseteq FactIds /\ state.bySlot \in Entries /\ state.active \in Entries
        /\ state.current \in Entries /\ state.chain \in Chains
    BY DEF IInv, StateOK, States
  <2>3. keyed \subseteq FactIds
    BY <2>1 DEF IInv, KeyedStored
  <2> QED
    BY <2>1, <2>2, <2>3 DEF IInv, TypeOK, LogSays, RowsKnown, Entries, Chains
<1> QED
  BY IndexInvariant, <1>1, PTL

(* The index part of the invariant is the property of the runs. *)
LEMMA StateOKIsIndexed ==
    ASSUME NEW st, StateOK(st)
    PROVE  Indexed(st)
BY DEF StateOK, Indexed, ActiveFacts, CurrentFacts, Chain

(* After any upserts, the ones of stale rows included, after compaction    *)
(* and replay, the indexes and chains of AppendLogState are what a pass    *)
(* over its facts would find.                                              *)
THEOREM IndexesFollow == Spec => []IndexesMatchFacts
<1>1. IInv => IndexesMatchFacts
  BY StateOKIsIndexed DEF IInv, IndexesMatchFacts
<1> QED
  BY IndexInvariant, <1>1, PTL

(* facts_at returns exactly the facts of the slot that were valid then,    *)
(* the latest first, whatever the order in which they were asserted.       *)
THEOREM QueriesAreExact == Spec => []FactsAtExact
<1>1. IInv => FactsAtExact
  BY FactsAtFinds, Zenon DEF IInv, FactsAtExact
<1> QED
  BY IndexInvariant, <1>1, PTL

(* load_state_from_path would rebuild the facts the process has, with      *)
(* indexes that match them and chains in order.                            *)
THEOREM ReopeningFindsTheSame == Spec => []ReplayRebuilds
<1>1. IInv => ReplayRebuilds
  <2> SUFFICES ASSUME IInv PROVE ReplayRebuilds
    OBVIOUS
  <2> DEFINE st == Rebuild(log)
  <2>1. StateOK(st) /\ st.facts = state.facts
    BY ReplayFindsFacts
  <2> HIDE DEF st
  <2>2. Indexed(st)
    BY <2>1, StateOKIsIndexed
  <2>3. ASSUME NEW s \in Slots, NEW i \in DOMAIN st.chain[s], NEW j \in DOMAIN st.chain[s], i < j
        PROVE  st.facts[st.chain[s][i]].from <= st.facts[st.chain[s][j]].from
    <3>1. Chain(st.chain[s], SlotFacts(st, s), Begins(st.facts))
      BY <2>1 DEF StateOK
    <3>2. st.chain[s][i] \in DOMAIN st.facts /\ st.chain[s][j] \in DOMAIN st.facts
      BY <3>1 DEF Chain, ToSet, SlotFacts
    <3>3. Begins(st.facts)[st.chain[s][i]] <= Begins(st.facts)[st.chain[s][j]]
      BY <3>1, <2>3 DEF Chain
    <3> QED
      BY <3>2, <3>3 DEF Begins
  <2> QED
    BY <2>1, <2>2, <2>3 DEF ReplayRebuilds, st
<1> QED
  BY IndexInvariant, <1>1, PTL

(* No step forgets a fact, moves its beginning or revives it: write-backs  *)
(* of rows read before another invalidation, compactions and reopenings.   *)
THEOREM HistoryIsKept == Spec => HistoryKept
<1>1. IInv /\ [Next]_vars =>
        [ \A f \in DOMAIN state.facts :
            /\ f \in DOMAIN state'.facts
            /\ state'.facts[f].slot = state.facts[f].slot
            /\ state'.facts[f].from = state.facts[f].from
            /\ IsCurrentlyValid(state'.facts[f]) => IsCurrentlyValid(state.facts[f]) ]_vars
  BY StepKeeps DEF Grown
<1> QED
  BY IndexInvariant, <1>1, PTL DEF Spec, HistoryKept
====
