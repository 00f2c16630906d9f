---- MODULE AgentMemory_proofs ----
(***************************************************************************)
(* AgentMemory, for any registrations, scenarios, assertions, threads and  *)
(* bounds: opening keeps what callers registered and leaves every default  *)
(* in place, a poller misses nothing but what was stored after a later     *)
(* poll, corrections are reported as the pairs they were, and a report     *)
(* that nothing disturbs puts contradictions first exactly when there are. *)
(***************************************************************************)
EXTENDS AgentMemory, TLAPS, Integers, FiniteSetTheorems, WellFoundedInduction

-----------------------------------------------------------------------------
(* Briefs: an action with the highest score comes first.                   *)
Elements(listed) == {listed[i] : i \in DOMAIN listed}

(* Every set of naturals that has an element has a least one.              *)
LEMMA LeastElement ==
    ASSUME NEW T \in SUBSET Nat, T # {}
    PROVE  \E x \in T : \A y \in T : x <= y
<1> DEFINE Less == OpToRel(<, Nat)
<1>1. IsWellFoundedOn(Less, Nat)
  BY NatLessThanWellFounded
<1>2. \A x, y \in Nat : <<y, x>> \in Less <=> y < x
  BY DEF OpToRel
<1> HIDE DEF Less
<1>3. PICK x \in T : \A y \in T : ~ (<<y, x>> \in Less)
  BY <1>1, WFMin
<1>4. \A y \in T : ~(y < x)
  BY <1>2, <1>3
<1>5. x \in Nat /\ \A y \in T : y \in Nat
  OBVIOUS
<1>6. \A y \in T : x <= y
  BY <1>4, <1>5
<1> QED
  BY <1>6

(* The sort puts in front an action that none of the list surpasses.       *)
LEMMA BestFirst ==
    ASSUME NEW Actions, NEW M \in Nat, \A a \in Actions : a.score \in 0..M,
           NEW listed \in Seq(Actions), listed # <<>>
    PROVE  /\ Ranked(listed)[1] \in Elements(listed)
           /\ \A a \in Elements(listed) : a.score <= Ranked(listed)[1].score
<1> DEFINE D == DOMAIN listed
           Ahead(i) == {j \in D : Before(listed, j, i)}
           Gaps == {M - listed[i].score : i \in D}
<1>1. /\ D = 1..Len(listed) /\ Len(listed) \in Nat /\ 1 \in D
      /\ \A i \in D : listed[i].score \in 0..M
  <2>1. D = 1..Len(listed) /\ Len(listed) \in Nat /\ 1 \in D
    OBVIOUS
  <2>2. \A i \in D : listed[i] \in Actions
    BY <2>1
  <2>3. \A a \in Actions : a.score \in 0..M
    OBVIOUS
  <2>4. QED
    BY <2>1, <2>2, <2>3
<1> HIDE DEF D
<1>2. PICK least \in Gaps : \A g \in Gaps : least <= g
  <2>1. Gaps \in SUBSET Nat /\ Gaps # {}
    <3>1. \A i \in D : M - listed[i].score \in Nat
      BY <1>1
    <3>2. M - listed[1].score \in Gaps
      BY <1>1
    <3>3. QED
      BY <3>1, <3>2
  <2> HIDE DEF Gaps
  <2>2. QED
    BY <2>1, LeastElement
<1> DEFINE Best == {i \in D : M - listed[i].score = least}
<1>3. PICK first \in Best : \A i \in Best : first <= i
  <2>1. Best \in SUBSET Nat /\ Best # {}
    BY <1>1, <1>2
  <2> HIDE DEF Best
  <2>2. QED
    BY <2>1, LeastElement
<1>4. first \in D /\ Ahead(first) = {}
  <2>1. \A i \in D : M - listed[i].score >= least
    BY <1>2
  <2>2. first \in D /\ M - listed[first].score = least
    BY <1>3
  <2>3. ASSUME NEW j \in D, Before(listed, j, first) PROVE FALSE
    <3>1. listed[j].score \in 0..M /\ listed[first].score \in 0..M /\ j \in Nat /\ first \in Nat
      <4>1. \A i \in D : i \in Nat
        BY <1>1
      <4>2. QED
        BY <1>1, <2>2, <2>3, <4>1
    <3>2. M - listed[j].score >= M - listed[first].score
      BY <2>1, <2>2
    <3>3. listed[j].score = listed[first].score /\ j < first
      <4>1. listed[j].score > listed[first].score
            \/ (listed[j].score = listed[first].score /\ j < first)
        BY <2>3 DEF Before
      <4>2. QED
        BY <3>1, <3>2, <4>1
    <3>4. j \in Best
      BY <2>2, <2>3, <3>3
    <3>5. first <= j
      BY <1>3, <3>4
    <3>6. QED
      BY <3>1, <3>3, <3>5
  <2>4. QED
    BY <2>2, <2>3
<1>5. \A i \in D : Cardinality(Ahead(i)) = 0 <=> Ahead(i) = {}
  <2>1. IsFiniteSet(D)
    BY <1>1, FS_Interval
  <2>2. \A i \in D : Ahead(i) \subseteq D
    OBVIOUS
  <2> HIDE DEF D, Ahead
  <2>3. QED
    BY <2>1, <2>2, FS_Subset, FS_EmptySet
<1> DEFINE top == Place(listed, 1)
<1>6. top \in D /\ Ahead(top) = {}
  <2>1. \E i \in D : Cardinality(Ahead(i)) = 1 - 1
    BY <1>4, <1>5
  <2>2. top = CHOOSE i \in D : Cardinality(Ahead(i)) = 1 - 1
    BY DEF Place, D
  <2> HIDE DEF top, D, Ahead
  <2>3. top \in D /\ Cardinality(Ahead(top)) = 1 - 1
    BY <2>1, <2>2
  <2>4. QED
    BY <2>3, <1>5
<1>7. Ranked(listed)[1] = listed[top]
  BY <1>1 DEF Ranked
<1>8. \A i \in D : listed[i].score <= listed[top].score
  <2>1. \A i \in D : ~ (listed[i].score > listed[top].score)
    BY <1>6 DEF Before
  <2>2. listed[top].score \in Int /\ \A i \in D : listed[i].score \in Int
    BY <1>1, <1>6
  <2> HIDE DEF top
  <2>3. QED
    BY <2>1, <2>2
<1> HIDE DEF top
<1>9. QED
  BY <1>6, <1>7, <1>8 DEF Elements, D

(* The actions of two lists, one behind the other.                         *)
LEMMA ElementsConcat ==
    ASSUME NEW S, NEW s \in Seq(S), NEW t \in Seq(S)
    PROVE  s \o t \in Seq(S) /\ Elements(s \o t) = Elements(s) \cup Elements(t)
<1>1. /\ s \o t \in Seq(S) /\ Len(s) \in Nat /\ Len(t) \in Nat
      /\ DOMAIN s = 1..Len(s) /\ DOMAIN t = 1..Len(t) /\ DOMAIN (s \o t) = 1..(Len(s) + Len(t))
      /\ \A i \in 1..Len(s) : (s \o t)[i] = s[i]
      /\ \A i \in 1..Len(t) : (s \o t)[Len(s) + i] = t[i]
  OBVIOUS
<1>2. ASSUME NEW x \in Elements(s) PROVE x \in Elements(s \o t)
  <2>1. PICK i \in 1..Len(s) : x = s[i]
    BY <1>1, <1>2 DEF Elements
  <2>2. i \in 1..(Len(s) + Len(t)) /\ (s \o t)[i] = x
    BY <1>1, <2>1
  <2>3. QED
    BY <1>1, <2>2 DEF Elements
<1>3. ASSUME NEW x \in Elements(t) PROVE x \in Elements(s \o t)
  <2>1. PICK i \in 1..Len(t) : x = t[i]
    BY <1>1, <1>3 DEF Elements
  <2>2. Len(s) + i \in 1..(Len(s) + Len(t)) /\ (s \o t)[Len(s) + i] = x
    BY <1>1, <2>1
  <2>3. QED
    BY <1>1, <2>2 DEF Elements
<1>4. ASSUME NEW x \in Elements(s \o t) PROVE x \in Elements(s) \cup Elements(t)
  <2>1. PICK i \in 1..(Len(s) + Len(t)) : x = (s \o t)[i]
    BY <1>1, <1>4 DEF Elements
  <2>2. CASE i \in 1..Len(s)
    BY <1>1, <2>1, <2>2 DEF Elements
  <2>3. CASE i \notin 1..Len(s)
    <3> DEFINE j == i - Len(s)
    <3>1. j \in 1..Len(t) /\ i = Len(s) + j
      BY <1>1, <2>1, <2>3
    <3>2. x = t[j]
      BY <1>1, <2>1, <3>1
    <3>3. QED
      BY <1>1, <3>1, <3>2 DEF Elements
  <2>4. QED
    BY <2>2, <2>3
<1>5. QED
  BY <1>1, <1>2, <1>3, <1>4

(* A conditional action is in the list or leaves it as it is.              *)
LEMMA WhenElements ==
    ASSUME NEW S, NEW a \in S, NEW condition \in BOOLEAN
    PROVE  /\ When(condition, a) \in Seq(S)
           /\ Elements(When(condition, a)) = {x \in {a} : condition}
<1>1. CASE condition
  <2>1. When(condition, a) = <<a>>
    BY <1>1 DEF When
  <2>2. <<a>> \in Seq(S) /\ Elements(<<a>>) = {a}
    BY DEF Elements
  <2>3. QED
    BY <1>1, <2>1, <2>2
<1>2. CASE ~condition
  <2>1. When(condition, a) = << >>
    BY <1>2 DEF When
  <2>2. << >> \in Seq(S) /\ Elements(<< >>) = {}
    BY DEF Elements
  <2>3. QED
    BY <1>2, <2>1, <2>2
<1>3. QED
  BY <1>1, <1>2

(* What a brief recommends is one of its actions, and none scores higher.  *)
THEOREM RecommendedIsBest ==
    ASSUME NEW S, NEW M \in Nat, \A a \in S : a.score \in 0..M,
           NEW actions \in Seq(S), NEW otherwise \in S, NEW status, NEW urgency
    PROVE  \E a \in S :
             /\ Brief(status, urgency, actions, otherwise).recommended = a.id
             /\ IF Elements(actions) = {} THEN a = otherwise
                ELSE a \in Elements(actions) /\ \A b \in Elements(actions) : b.score <= a.score
<1> DEFINE listed == IF actions = <<>> THEN <<otherwise>> ELSE actions
<1>1. listed \in Seq(S) /\ listed # <<>>
  OBVIOUS
<1>2. Elements(actions) = {} <=> actions = <<>>
  <2>1. actions # <<>> => actions[1] \in Elements(actions)
    BY DEF Elements
  <2>2. actions = <<>> => Elements(actions) = {}
    BY DEF Elements
  <2>3. QED
    BY <2>1, <2>2
<1>3. Elements(listed) = IF actions = <<>> THEN {otherwise} ELSE Elements(actions)
  BY DEF Elements
<1>4. Brief(status, urgency, actions, otherwise).recommended = Ranked(listed)[1].id
  BY DEF Brief
<1>5. \A x \in Elements(listed) : x \in S
  BY <1>1 DEF Elements
<1> HIDE DEF listed
<1>6. /\ Ranked(listed)[1] \in Elements(listed)
      /\ \A b \in Elements(listed) : b.score <= Ranked(listed)[1].score
  BY <1>1, BestFirst
<1>7. QED
  BY <1>2, <1>3, <1>4, <1>5, <1>6

(* Every action of a brief scores less. *)
ScoreLimit == 100 * 100
(* The score of an action, whose digits only its risk, impact, priority    *)
(* and confidence enter.                                                   *)
LEMMA ScoreOfAction ==
    ASSUME NEW id, NEW priority, NEW impact, NEW risk, NEW confidence, NEW tool
    PROVE  LET a == RankedAction(id, priority, impact, risk, confidence, tool)
           IN  /\ a.id = id
               /\ a.score = 45 * LevelScore(risk) + 30 * WorkflowImpactScore(impact)
                            + 15 * LevelScore(priority) + 10 * confidence
BY DEF RankedAction

(* The scores of the levels and of the impacts.                            *)
LEMMA Levels ==
    /\ LevelScore("high") = 90 /\ LevelScore("medium") = 60 /\ LevelScore("low") = 30
    /\ WorkflowImpactScore("critical_identity") = 95 /\ WorkflowImpactScore("decision_reliability") = 85
    /\ WorkflowImpactScore("context_coverage") = 70 /\ WorkflowImpactScore("freshness_hygiene") = 55
    /\ WorkflowImpactScore("monitoring") = 35
BY DEF LevelScore, WorkflowImpactScore

(* The brief of a health report recommends to resolve contradictions       *)
(* exactly when there are any.                                             *)
LEMMA HealthLeads ==
    ASSUME NEW r, r.contradictions \in Nat
    PROVE  MemoryHealthBrief(r).recommended \in {"resolve_contradictions", "resolve_contradictions_first"}
           <=> r.contradictions > 0
<1> DEFINE critical == r.low_confidence_high_impact > 0
           urgency == IF r.contradictions > 0 \/ critical THEN "high"
                      ELSE IF r.low_confidence > 0 \/ r.stale_high_impact > 0 THEN "medium" ELSE "low"
           status == IF urgency = "low" THEN "healthy" ELSE "attention_needed"
           first == RankedAction("resolve_contradictions", "high", "critical_identity", "high", 86, "facts_about")
           verify == IF critical
                     THEN RankedAction("verify_low_confidence", "high", "critical_identity", "high", 80, "facts_about")
                     ELSE RankedAction("verify_low_confidence", "medium", "decision_reliability", "medium", 68, "facts_about")
           refresh == RankedAction("refresh_stale_high_impact", "medium", "freshness_hygiene", "medium", 74, "what_changed")
           otherwise == RankedAction("monitor_health", "low", "monitoring", "low", 93, "memory_health")
           S == {first, verify, refresh, otherwise}
           c1 == r.contradictions > 0
           c2 == r.low_confidence > 0
           c3 == r.stale_high_impact > 0
           actions == When(c1, first) \o When(c2, verify) \o When(c3, refresh)
<1>1. MemoryHealthBrief(r) = Brief(status, urgency, actions, otherwise)
  BY DEF MemoryHealthBrief
<1>2. /\ first.id = "resolve_contradictions" /\ first.score = 9110
      /\ verify.id = "verify_low_confidence" /\ verify.score \in {9050, 6830}
      /\ refresh.id = "refresh_stale_high_impact" /\ refresh.score = 5990
      /\ otherwise.id = "monitor_health" /\ otherwise.score = 3780
  BY Levels, ScoreOfAction
<1>3. c1 \in BOOLEAN /\ c2 \in BOOLEAN /\ c3 \in BOOLEAN
  OBVIOUS
<1> HIDE DEF status, urgency, first, verify, refresh, otherwise, c2, c3
<1>4. /\ actions \in Seq(S)
      /\ Elements(actions) = {a \in {first} : c1} \cup {a \in {verify} : c2} \cup {a \in {refresh} : c3}
  <2>1. first \in S /\ verify \in S /\ refresh \in S
    OBVIOUS
  <2> HIDE DEF S
  <2> DEFINE w1 == When(c1, first)
             w2 == When(c2, verify)
             w3 == When(c3, refresh)
  <2>2. w1 \in Seq(S) /\ Elements(w1) = {a \in {first} : c1}
    BY <1>3, <2>1, WhenElements
  <2>3. w2 \in Seq(S) /\ Elements(w2) = {a \in {verify} : c2}
    BY <1>3, <2>1, WhenElements
  <2>4. w3 \in Seq(S) /\ Elements(w3) = {a \in {refresh} : c3}
    BY <1>3, <2>1, WhenElements
  <2> HIDE DEF w1, w2, w3
  <2> DEFINE w12 == w1 \o w2
  <2>5. w12 \in Seq(S) /\ Elements(w12) = Elements(w1) \cup Elements(w2)
    BY <2>2, <2>3, ElementsConcat
  <2> HIDE DEF w12
  <2>6. w12 \o w3 \in Seq(S) /\ Elements(w12 \o w3) = Elements(w12) \cup Elements(w3)
    BY <2>4, <2>5, ElementsConcat
  <2>7. actions = w12 \o w3
    BY DEF w1, w2, w3, w12
  <2> HIDE DEF actions
  <2>8. QED
    BY <2>2, <2>3, <2>4, <2>5, <2>6, <2>7
<1>5. ScoreLimit \in Nat /\ \A a \in S : a.score \in 0..ScoreLimit
  <2>1. ScoreLimit \in Nat /\ \A n \in Nat : n <= ScoreLimit => n \in 0..ScoreLimit
    BY DEF ScoreLimit
  <2>2. first.score \in Nat /\ first.score <= ScoreLimit
    BY <1>2 DEF ScoreLimit
  <2>3. verify.score \in Nat /\ verify.score <= ScoreLimit
    BY <1>2 DEF ScoreLimit
  <2>4. refresh.score \in Nat /\ refresh.score <= ScoreLimit
    BY <1>2 DEF ScoreLimit
  <2>5. otherwise.score \in Nat /\ otherwise.score <= ScoreLimit
    BY <1>2 DEF ScoreLimit
  <2> HIDE DEF ScoreLimit
  <2>6. QED
    BY <2>1, <2>2, <2>3, <2>4, <2>5 DEF S
<1> HIDE DEF S, actions
<1>6. PICK a \in S : /\ MemoryHealthBrief(r).recommended = a.id
                     /\ IF Elements(actions) = {} THEN a = otherwise
                        ELSE a \in Elements(actions) /\ \A b \in Elements(actions) : b.score <= a.score
  <2>1. otherwise \in S
    BY DEF S
  <2>2. actions \in Seq(S)
    BY <1>4
  <2> HIDE DEF c1
  <2>3. \E a \in S :
          /\ Brief(status, urgency, actions, otherwise).recommended = a.id
          /\ IF Elements(actions) = {} THEN a = otherwise
             ELSE a \in Elements(actions) /\ \A b \in Elements(actions) : b.score <= a.score
    BY <1>5, <2>1, <2>2, RecommendedIsBest
  <2>4. QED
    BY <1>1, <2>3
<1>7. CASE c1
  <2>1. first \in Elements(actions)
    BY <1>4, <1>7
  <2>2. a \in {first, verify, refresh} /\ first.score <= a.score
    BY <1>4, <1>6, <2>1
  <2>3. a = first
    BY <1>2, <2>2
  <2>4. QED
    BY <1>2, <1>6, <1>7, <2>3
<1>8. CASE ~c1
  <2>1. a \in {verify, refresh, otherwise}
    BY <1>4, <1>6, <1>8
  <2>2. QED
    BY <1>2, <1>6, <1>8, <2>1
<1>9. QED
  BY <1>7, <1>8

(* The brief of a task recommends to resolve contradictions exactly when   *)
(* there are any.                                                          *)
LEMMA TaskLeads ==
    ASSUME NEW r, r.contradictions \in Nat, r.has_subject
    PROVE  RecallForTaskBrief(r).recommended \in {"resolve_contradictions", "resolve_contradictions_first"}
           <=> r.contradictions > 0
<1> DEFINE some == r.key_facts > 0
           watched == ~some \/ r.low_confidence > 0 \/ r.stale_high_impact > 0 \/ r.contradictions > 0
           urgency == ""
           status == IF ~some THEN "no_context" ELSE IF watched THEN "attention_needed" ELSE "ready"
           ask == RankedAction("ask_clarifying_question", "high", "context_coverage", "high", 76, "recall_for_task")
           verify == RankedAction("verify_low_confidence_facts", "high", "decision_reliability", "high", 82, "memory_health")
           refresh == RankedAction("refresh_stale_high_impact_facts", "medium", "freshness_hygiene", "medium", 77, "what_changed")
           first == RankedAction("resolve_contradictions_first", "high", "critical_identity", "high", 80, "memory_health")
           prepare == RankedAction("prepare_task_brief", IF watched THEN "medium" ELSE "high",
                                   "decision_reliability", "medium", 91, "assemble_context")
           otherwise == RankedAction("monitor_task_memory", "low", "monitoring", "low", 93, "recall_for_task")
           S == {ask, verify, refresh, first, prepare, otherwise}
           c1 == ~some
           c2 == r.low_confidence > 0 /\ r.has_subject
           c3 == r.stale_high_impact > 0 /\ r.has_subject
           c4 == r.contradictions > 0 /\ r.has_subject
           c5 == some
           actions == When(c1, ask) \o When(c2, verify) \o When(c3, refresh) \o When(c4, first) \o When(c5, prepare)
<1>1. RecallForTaskBrief(r) = Brief(status, urgency, actions, otherwise)
  BY DEF RecallForTaskBrief
<1>2. /\ ask.id = "ask_clarifying_question" /\ ask.score = 8260
      /\ verify.id = "verify_low_confidence_facts" /\ verify.score = 8770
      /\ refresh.id = "refresh_stale_high_impact_facts" /\ refresh.score = 6020
      /\ first.id = "resolve_contradictions_first" /\ first.score = 9050
      /\ prepare.id = "prepare_task_brief" /\ prepare.score \in {7510, 7060}
      /\ otherwise.id = "monitor_task_memory" /\ otherwise.score = 3780
  BY Levels, ScoreOfAction
<1>3. c1 \in BOOLEAN /\ c2 \in BOOLEAN /\ c3 \in BOOLEAN /\ c4 \in BOOLEAN /\ c5 \in BOOLEAN
  OBVIOUS
<1>c. c4 <=> r.contradictions > 0
  OBVIOUS
<1> HIDE DEF status, urgency, ask, verify, refresh, first, prepare, otherwise, c1, c2, c3, c4, c5
<1>4. /\ actions \in Seq(S)
      /\ Elements(actions) = {a \in {ask} : c1} \cup {a \in {verify} : c2} \cup {a \in {refresh} : c3}
                              \cup {a \in {first} : c4} \cup {a \in {prepare} : c5}
  <2>1. ask \in S /\ verify \in S /\ refresh \in S /\ first \in S /\ prepare \in S
    OBVIOUS
  <2> HIDE DEF S
  <2> DEFINE w1 == When(c1, ask)
             w2 == When(c2, verify)
             w3 == When(c3, refresh)
             w4 == When(c4, first)
             w5 == When(c5, prepare)
  <2>2. w1 \in Seq(S) /\ Elements(w1) = {a \in {ask} : c1}
    BY <1>3, <2>1, WhenElements
  <2>3. w2 \in Seq(S) /\ Elements(w2) = {a \in {verify} : c2}
    BY <1>3, <2>1, WhenElements
  <2>4. w3 \in Seq(S) /\ Elements(w3) = {a \in {refresh} : c3}
    BY <1>3, <2>1, WhenElements
  <2>5. w4 \in Seq(S) /\ Elements(w4) = {a \in {first} : c4}
    BY <1>3, <2>1, WhenElements
  <2>6. w5 \in Seq(S) /\ Elements(w5) = {a \in {prepare} : c5}
    BY <1>3, <2>1, WhenElements
  <2> HIDE DEF w1, w2, w3, w4, w5
  <2> DEFINE w12 == w1 \o w2
             w13 == w12 \o w3
             w14 == w13 \o w4
  <2>7. actions = w14 \o w5
    BY DEF w1, w2, w3, w4, w5
  <2> HIDE DEF actions
  <2>8. w12 \in Seq(S) /\ Elements(w12) = Elements(w1) \cup Elements(w2)
    BY <2>2, <2>3, ElementsConcat
  <2> HIDE DEF w12
  <2>9. w13 \in Seq(S) /\ Elements(w13) = Elements(w12) \cup Elements(w3)
    BY <2>4, <2>8, ElementsConcat
  <2> HIDE DEF w13
  <2>10. w14 \in Seq(S) /\ Elements(w14) = Elements(w13) \cup Elements(w4)
    BY <2>5, <2>9, ElementsConcat
  <2> HIDE DEF w14
  <2>11. w14 \o w5 \in Seq(S) /\ Elements(w14 \o w5) = Elements(w14) \cup Elements(w5)
    BY <2>6, <2>10, ElementsConcat
  <2>12. QED
    BY <2>2, <2>3, <2>4, <2>5, <2>6, <2>7, <2>8, <2>9, <2>10, <2>11
<1>5. ScoreLimit \in Nat /\ \A a \in S : a.score \in 0..ScoreLimit
  <2>1. \A n \in Nat : n <= ScoreLimit => n \in 0..ScoreLimit
    BY DEF ScoreLimit
  <2>2. /\ ask.score <= ScoreLimit /\ verify.score <= ScoreLimit /\ refresh.score <= ScoreLimit
        /\ first.score <= ScoreLimit /\ prepare.score <= ScoreLimit /\ otherwise.score <= ScoreLimit
    BY <1>2 DEF ScoreLimit
  <2>3. /\ ask.score \in Nat /\ verify.score \in Nat /\ refresh.score \in Nat
        /\ first.score \in Nat /\ prepare.score \in Nat /\ otherwise.score \in Nat
    BY <1>2
  <2>4. ScoreLimit \in Nat
    BY DEF ScoreLimit
  <2> HIDE DEF ask, verify, refresh, first, prepare, otherwise
  <2>5. QED
    BY <2>1, <2>2, <2>3, <2>4
<1>6. otherwise \in S
  OBVIOUS
<1> HIDE DEF S, actions
<1>7. PICK a \in S : /\ RecallForTaskBrief(r).recommended = a.id
                     /\ IF Elements(actions) = {} THEN a = otherwise
                        ELSE a \in Elements(actions) /\ \A b \in Elements(actions) : b.score <= a.score
  <2>1. actions \in Seq(S)
    BY <1>4
  <2>2. \E a \in S :
          /\ Brief(status, urgency, actions, otherwise).recommended = a.id
          /\ IF Elements(actions) = {} THEN a = otherwise
             ELSE a \in Elements(actions) /\ \A b \in Elements(actions) : b.score <= a.score
    BY <1>5, <1>6, <2>1, RecommendedIsBest
  <2>3. QED
    BY <1>1, <2>2
<1>8. CASE c4
  <2>1. first \in Elements(actions)
    BY <1>4, <1>8
  <2>2. a \in {ask, verify, refresh, first, prepare} /\ first.score <= a.score
    BY <1>4, <1>7, <2>1
  <2>3. a = first
    BY <1>2, <2>2
  <2>4. QED
    BY <1>2, <1>7, <1>8, <1>c, <2>3
<1>9. CASE ~c4
  <2>1. a \in {ask, verify, refresh, prepare, otherwise}
    BY <1>4, <1>7, <1>9
  <2>2. QED
    BY <1>2, <1>7, <1>9, <1>c, <2>1
<1>10. QED
  BY <1>8, <1>9

-----------------------------------------------------------------------------
(* The invariants.  Data a caller gives, rows and calls.                   *)
Given == Assertions \cup UNION {ToSet(s.facts) : s \in Scenarios}
Predicates == {g.predicate : g \in Given}
Values == {g.object : g \in Given} \cup Objects
Confidences == {g.confidence : g \in Given} \cup {100}
Clock == 0..MaxClock
Ends == Clock \cup {NoTime}
Rows == [id : Nat, subject : {"entity"}, predicate : Predicates, object : Values,
         confidence : Confidences, valid_from : Clock, recorded_at : Clock,
         valid_to : Ends, expired_at : Ends]
Storing == [step : {"store"}, old : Nat, row : Rows]
Ending == [step : {"end", "build"}, id : Nat, at : Clock, new : SUBSET Objects]

(* A fact is ended in both fields or in none, and knows its place.         *)
FactsOK(fs) ==
    /\ fs \in Seq(Rows)
    /\ \A i \in DOMAIN fs : fs[i].id = i /\ (fs[i].valid_to = NoTime <=> fs[i].expired_at = NoTime)

(* No stamp is ahead of the clock; a call ends a fact that is stored.      *)
CallOK(c) ==
    /\ c.step \in {"end", "build"} => c.id \in Ids
    /\ c.step = "store" =>
         c.row.valid_to = NoTime /\ c.row.expired_at = NoTime /\ c.row.recorded_at <= clock
WritesInv ==
    /\ clock \in Clock /\ polled \in Clock
    /\ FactsOK(facts)
    /\ \A i \in Ids : facts[i].recorded_at <= clock
    /\ calls \in [Threads -> {NoCall} \cup Storing \cup Ending]
    /\ \A t \in Threads : CallOK(calls[t])

(* A replacement has the predicate of what it replaces, is not stamped     *)
(* before it and starts at the instant of the correction.                  *)
Replaces(new, old) == new.predicate = old.predicate /\ old.recorded_at <= new.recorded_at
CallReplaces(fs, c) ==
    c.step = "store" /\ c.old # 0 => c.old \in DOMAIN fs /\ Replaces(c.row, fs[c.old])
CorrectionsInv ==
    /\ \A t \in Threads : CallReplaces(facts, calls[t])
    /\ \A c \in replaced :
         /\ c.old \in Ids /\ c.new \in Ids /\ c.old # c.new
         /\ Replaces(facts[c.new], facts[c.old]) /\ facts[c.new].valid_from = c.at

(* An interrupted open leaves only entries without a registration that the *)
(* next one will look at.                                                  *)
OpeningInv ==
    /\ mode \in {"closed", "opening", "open"}
    /\ todo \in Seq(ToSet(Entries))
    /\ registry \in [ToSet(Entries) -> {"none", "default", "caller"}]
    /\ watch # "open" => mode = "open"
    /\ mode = "open" => \A e \in ToSet(Entries) : registry[e] # "none"
    /\ mode = "opening" => \A e \in ToSet(Entries) : registry[e] = "none" => e \in ToSet(todo)

(* What becomes of facts: they keep what they say and are never revived.   *)
SameClaim(f, g) ==
    /\ g.id = f.id /\ g.subject = f.subject /\ g.predicate = f.predicate /\ g.object = f.object
    /\ g.valid_from = f.valid_from /\ g.recorded_at = f.recorded_at
    /\ g.expired_at = NoTime => f.expired_at = NoTime
Follows(fs, gs) ==
    /\ Len(fs) <= Len(gs)
    /\ \A i \in DOMAIN fs : SameClaim(fs[i], gs[i])

(* Hence facts that were the same at both ends of a report were so in all  *)
(* of it, as far as their claims and whether they are current go.          *)
Undisturbed(fs, gs) ==
    /\ Len(fs) = Len(gs)
    /\ \A i \in DOMAIN fs : fs[i].expired_at = NoTime <=> gs[i].expired_at = NoTime
SlotConflict(fs, predicate) ==
    \E i, j \in ActiveFacts(fs) :
        fs[i].predicate = predicate /\ fs[j].predicate = predicate /\ fs[i].object # fs[j].object
First == {"resolve_contradictions", "resolve_contradictions_first"}
WithParts(r) ==
    [kind : {r.kind}, snapshot : {r.snapshot}, keys : {r.keys}, at : {r.at}, audit : {r.audit},
     contradictions : {r.contradictions}]
ReportInv ==
    \/ report = NoReport
    \/ /\ report.kind \in {"health", "task"}
       /\ report \in WithParts(report)
       /\ FactsOK(report.snapshot) /\ Follows(report.snapshot, facts)
       /\ report.audit \subseteq Singletons /\ IsFiniteSet(report.contradictions)
       /\ Undisturbed(report.snapshot, facts) =>
            (report.contradictions # {} <=>
               \E p \in Singletons \ report.audit : SlotConflict(report.snapshot, p))
    \/ /\ report.kind = "done"
       /\ FactsOK(report.snapshot) /\ Follows(report.snapshot, facts)
       /\ Undisturbed(report.snapshot, facts) =>
            (report.brief.recommended \in First <=>
               \E p \in Singletons : SlotConflict(report.snapshot, p))

-----------------------------------------------------------------------------
(* Facts as they change: what a call builds, ends and stores. *)
LEMMA RowBuilt ==
    ASSUME NEW predicate \in Predicates, NEW object \in Values, NEW confidence \in Confidences,
           NEW from \in Clock, NEW recorded \in Clock
    PROVE  LET row == Row(predicate, object, confidence, from, recorded)
           IN  /\ row \in Rows /\ row.valid_to = NoTime /\ row.expired_at = NoTime
               /\ row.recorded_at = recorded /\ row.valid_from = from /\ row.predicate = predicate
BY DEF Row, Rows, Ends

(* A stored row is the row that was built, under its id.                   *)
LEMMA RowStored ==
    ASSUME NEW row \in Rows, NEW id \in Nat
    PROVE  /\ Stored(row, id) \in Rows
           /\ Stored(row, id).id = id
           /\ Stored(row, id).subject = row.subject /\ Stored(row, id).predicate = row.predicate
           /\ Stored(row, id).object = row.object /\ Stored(row, id).valid_from = row.valid_from
           /\ Stored(row, id).recorded_at = row.recorded_at
           /\ Stored(row, id).valid_to = row.valid_to /\ Stored(row, id).expired_at = row.expired_at
BY DEF Stored, Rows

(* No instant is taken for an end that is missing.                         *)
LEMMA NoTimeIsNone == NoTime \notin Clock /\ Clock \subseteq Nat
BY TimesAssumption DEF Clock

(* StoreFact puts one fact behind the others. *)
Added(fs, row) == Append(fs, Stored(row, Len(fs) + 1))
(* The facts then.                                                         *)
LEMMA FactAdded ==
    ASSUME NEW fs, FactsOK(fs), NEW row \in Rows, row.valid_to = NoTime, row.expired_at = NoTime
    PROVE  /\ FactsOK(Added(fs, row)) /\ Follows(fs, Added(fs, row))
           /\ Len(Added(fs, row)) = Len(fs) + 1 /\ DOMAIN Added(fs, row) = 1..(Len(fs) + 1)
           /\ \A i \in DOMAIN fs : Added(fs, row)[i] = fs[i]
           /\ Added(fs, row)[Len(fs) + 1] = Stored(row, Len(fs) + 1)
<1> DEFINE id == Len(fs) + 1
           new == Stored(row, id)
           gs == Added(fs, row)
<1>1. fs \in Seq(Rows) /\ Len(fs) \in Nat /\ DOMAIN fs = 1..Len(fs) /\ id \in Nat
  BY DEF FactsOK
<1>2. new \in Rows /\ new.id = id /\ new.valid_to = NoTime /\ new.expired_at = NoTime
  BY <1>1, RowStored
<1> HIDE DEF new
<1>3. gs = Append(fs, new)
  BY DEF Added, new
<1>4. /\ gs \in Seq(Rows) /\ Len(gs) = Len(fs) + 1 /\ DOMAIN gs = 1..(Len(fs) + 1)
      /\ \A i \in DOMAIN fs : gs[i] = fs[i]
      /\ gs[Len(fs) + 1] = new
  BY <1>1, <1>2, <1>3
<1> HIDE DEF gs
<1>5. FactsOK(gs)
  <2> SUFFICES ASSUME NEW i \in DOMAIN gs
               PROVE  gs[i].id = i /\ (gs[i].valid_to = NoTime <=> gs[i].expired_at = NoTime)
    BY <1>4 DEF FactsOK
  <2>1. CASE i \in DOMAIN fs
    BY <1>4, <2>1 DEF FactsOK
  <2>2. CASE i \notin DOMAIN fs
    <3>1. i = id
      BY <1>1, <1>4, <2>2
    <3>2. QED
      BY <1>2, <1>4, <3>1
  <2>3. QED
    BY <2>1, <2>2
<1>6. Follows(fs, gs)
  BY <1>1, <1>4 DEF Follows, SameClaim
<1>7. QED
  BY <1>1, <1>4, <1>5, <1>6 DEF gs, new

(* EndOld ends one fact, in both fields. *)
Ended(fs, id, at) == [fs EXCEPT ![id].valid_to = at, ![id].expired_at = at]
(* The facts then.                                                         *)
LEMMA FactEnded ==
    ASSUME NEW fs, FactsOK(fs), NEW id \in DOMAIN fs, NEW at \in Clock
    PROVE  /\ FactsOK(Ended(fs, id, at)) /\ Follows(fs, Ended(fs, id, at))
           /\ Len(Ended(fs, id, at)) = Len(fs) /\ DOMAIN Ended(fs, id, at) = DOMAIN fs
           /\ \A i \in DOMAIN fs : i # id => Ended(fs, id, at)[i] = fs[i]
           /\ Ended(fs, id, at)[id].expired_at = at
           /\ Ended(fs, id, at)[id].recorded_at = fs[id].recorded_at
<1> DEFINE gs == Ended(fs, id, at)
           new == [fs[id] EXCEPT !.valid_to = at, !.expired_at = at]
<1>1. fs \in Seq(Rows) /\ Len(fs) \in Nat /\ DOMAIN fs = 1..Len(fs) /\ fs[id] \in Rows
  BY DEF FactsOK
<1>2. /\ new \in Rows /\ new.valid_to = at /\ new.expired_at = at /\ new.id = fs[id].id
      /\ new.subject = fs[id].subject /\ new.predicate = fs[id].predicate /\ new.object = fs[id].object
      /\ new.valid_from = fs[id].valid_from /\ new.recorded_at = fs[id].recorded_at
  BY <1>1 DEF Rows, Ends
<1>3. gs = [fs EXCEPT ![id] = new]
  BY <1>1 DEF Ended
<1> HIDE DEF new
<1>4. /\ gs \in Seq(Rows) /\ Len(gs) = Len(fs) /\ DOMAIN gs = DOMAIN fs
      /\ \A i \in DOMAIN fs : i # id => gs[i] = fs[i]
      /\ gs[id] = new
  BY <1>1, <1>2, <1>3
<1> HIDE DEF gs
<1>5. FactsOK(gs)
  BY <1>2, <1>4, NoTimeIsNone DEF FactsOK
<1>6. Follows(fs, gs)
  BY <1>1, <1>2, <1>4, NoTimeIsNone DEF Follows, SameClaim
<1>7. QED
  BY <1>2, <1>4, <1>5, <1>6 DEF gs

(* What has been asserted or was there before is given. *)
LEMMA GivenData ==
    ASSUME NEW g \in Given
    PROVE  g.predicate \in Predicates /\ g.object \in Values /\ g.confidence \in Confidences
BY DEF Predicates, Values, Confidences

(* A poller that starts finds the facts that were asserted before. *)
LEMMA InitialFacts ==
    ASSUME Init
    PROVE  FactsOK(facts) /\ \A i \in Ids : facts[i].recorded_at = 0 /\ facts[i].expired_at = NoTime
<1>1. PICK s \in Scenarios :
        facts = [i \in DOMAIN s.facts |-> Stored(Row(s.facts[i].predicate, s.facts[i].object,
                                                    s.facts[i].confidence, 0, 0), i)]
  BY DEF Init
<1>2. s.facts \in Seq(ToSet(s.facts))
  BY ScenariosAssumption
<1>3. Len(s.facts) \in Nat /\ DOMAIN s.facts = 1..Len(s.facts)
  BY <1>2
<1>4. 0 \in Clock
  BY TimesAssumption DEF Clock
<1>5. ASSUME NEW i \in DOMAIN s.facts
      PROVE  /\ facts[i] \in Rows /\ facts[i].id = i /\ facts[i].recorded_at = 0
             /\ facts[i].valid_to = NoTime /\ facts[i].expired_at = NoTime
  <2> DEFINE g == s.facts[i]
             row == Row(g.predicate, g.object, g.confidence, 0, 0)
  <2>1. g \in Given
    BY <1>2, <1>3 DEF Given, ToSet
  <2>2. g.predicate \in Predicates /\ g.object \in Values /\ g.confidence \in Confidences
    BY <2>1, GivenData
  <2>3. row \in Rows /\ row.valid_to = NoTime /\ row.expired_at = NoTime /\ row.recorded_at = 0
    BY <1>4, <2>2, RowBuilt
  <2>4. facts[i] = Stored(row, i)
    BY <1>1
  <2> HIDE DEF row
  <2>5. i \in Nat
    BY <1>3
  <2>6. QED
    BY <2>3, <2>4, <2>5, RowStored
<1>6. DOMAIN facts = 1..Len(s.facts)
  BY <1>1, <1>3
<1>7. \E n \in Nat : facts \in [1..n -> Rows]
  <2>1. \A i \in 1..Len(s.facts) : facts[i] \in Rows
    BY <1>3, <1>5
  <2>2. facts = [i \in 1..Len(s.facts) |-> facts[i]]
    BY <1>1, <1>3
  <2>3. facts \in [1..Len(s.facts) -> Rows]
    BY <2>1, <2>2
  <2>4. QED
    BY <1>3, <2>3
<1>8. facts \in Seq(Rows)
  BY <1>7
<1>9. QED
  BY <1>3, <1>5, <1>6, <1>8 DEF FactsOK, Ids

(* At the start no call is under way.                                      *)
LEMMA InitWrites == Init => WritesInv
<1> SUFFICES ASSUME Init PROVE WritesInv
  OBVIOUS
<1>1. FactsOK(facts) /\ \A i \in Ids : facts[i].recorded_at = 0
  BY InitialFacts
<1>2. 0 \in Clock /\ clock = 0 /\ polled = 0
  BY TimesAssumption DEF Init, Clock
<1>3. calls = [t \in Threads |-> NoCall]
  BY DEF Init
<1>4. NoCall.step = "idle"
  BY DEF NoCall
<1>5. calls \in [Threads -> {NoCall} \cup Storing \cup Ending]
  BY <1>3
<1>6. \A t \in Threads : calls[t].step = "idle"
  BY <1>3, <1>4
<1>7. QED
  BY <1>1, <1>2, <1>5, <1>6 DEF WritesInv, CallOK

(* The steps that leave facts, calls and the poller alone. *)
Bystanding ==
    \/ Open \/ RegisterNext \/ (\E e \in ToSet(Entries) : CallerRegisters(e))
    \/ MemoryHealth \/ RecallForTask \/ Answer \/ (\E predicate \in Singletons : Audit(predicate))
    \/ UNCHANGED vars
(* They leave the clock, the calls and the poller alone.                   *)
LEMMA BystandersLeaveWrites ==
    Bystanding => UNCHANGED <<clock, facts, calls, left, polled, reported, late, replaced>>
BY DEF Bystanding, Open, RegisterNext, CallerRegisters, MemoryHealth, RecallForTask, Answer, Audit,
       vars, memory, poll, writing

(* Each step is one of these, the clock's, a poll or one of a call.        *)
LEMMA NextSplits ==
    [Next]_vars =>
      \/ Bystanding \/ Tick \/ Stop \/ WhatChanged
      \/ \E t \in Threads :
           \/ \E a \in Assertions : AssertFact(t, a)
           \/ \E id \in Ids : InvalidateFact(t, id)
           \/ \E id \in Ids, object \in Objects : CorrectFact(t, id, object)
           \/ EndOld(t) \/ BuildReplacement(t) \/ StoreFact(t) \/ WriteFails(t)
BY DEF Next, Bystanding

(* A call that is entered. *)
LEMMA CallsEntered ==
    ASSUME WritesInv, NEW t \in Threads
    PROVE  /\ \A a \in Assertions : AssertFact(t, a) =>
                \E row \in Rows :
                  /\ calls' = [calls EXCEPT ![t] = [step |-> "store", old |-> 0, row |-> row]]
                  /\ row.valid_to = NoTime /\ row.expired_at = NoTime /\ row.recorded_at = clock
                  /\ UNCHANGED <<clock, facts, report, polled, reported, late, replaced>>
           /\ \A id \in Ids : InvalidateFact(t, id) \/ (\E object \in Objects : CorrectFact(t, id, object)) =>
                \E new \in SUBSET Objects :
                  /\ calls' = [calls EXCEPT ![t] = [step |-> "end", id |-> id, at |-> clock, new |-> new]]
                  /\ UNCHANGED <<clock, facts, report, polled, reported, late, replaced>>
<1>1. clock \in Clock /\ 0 \in Clock
  BY TimesAssumption DEF WritesInv, Clock
<1>2. ASSUME NEW a \in Assertions, AssertFact(t, a)
      PROVE  \E row \in Rows :
               /\ calls' = [calls EXCEPT ![t] = [step |-> "store", old |-> 0, row |-> row]]
               /\ row.valid_to = NoTime /\ row.expired_at = NoTime /\ row.recorded_at = clock
               /\ UNCHANGED <<clock, facts, report, polled, reported, late, replaced>>
  <2> DEFINE from == IF a.backdated THEN 0 ELSE clock
             row == Row(a.predicate, a.object, a.confidence, from, clock)
  <2>1. a.predicate \in Predicates /\ a.object \in Values /\ a.confidence \in Confidences
    BY GivenData DEF Given
  <2>2. from \in Clock
    BY <1>1
  <2>3. row \in Rows /\ row.valid_to = NoTime /\ row.expired_at = NoTime /\ row.recorded_at = clock
    BY <1>1, <2>1, <2>2, RowBuilt
  <2>4. /\ calls' = [calls EXCEPT ![t] = [step |-> "store", old |-> 0, row |-> row]]
        /\ UNCHANGED <<clock, facts, report, polled, reported, late, replaced>>
    BY <1>2 DEF AssertFact, Enter, poll
  <2> HIDE DEF row
  <2>5. QED
    BY <2>3, <2>4
<1>3. ASSUME NEW id \in Ids, NEW new \in SUBSET Objects,
             Enter(t, [step |-> "end", id |-> id, at |-> clock, new |-> new])
      PROVE  /\ calls' = [calls EXCEPT ![t] = [step |-> "end", id |-> id, at |-> clock, new |-> new]]
             /\ UNCHANGED <<clock, facts, report, polled, reported, late, replaced>>
  BY <1>3 DEF Enter, poll
<1>4. ASSUME NEW id \in Ids, InvalidateFact(t, id) \/ (\E object \in Objects : CorrectFact(t, id, object))
      PROVE  \E new \in SUBSET Objects : Enter(t, [step |-> "end", id |-> id, at |-> clock, new |-> new])
  <2>1. CASE InvalidateFact(t, id)
    BY <2>1 DEF InvalidateFact
  <2>2. ASSUME NEW object \in Objects, CorrectFact(t, id, object)
        PROVE  \E new \in SUBSET Objects : Enter(t, [step |-> "end", id |-> id, at |-> clock, new |-> new])
    <3>1. {object} \in SUBSET Objects
      OBVIOUS
    <3>2. QED
      BY <2>2, <3>1 DEF CorrectFact
  <2>3. QED
    BY <1>4, <2>1, <2>2
<1>5. QED
  BY <1>2, <1>3, <1>4

(* Facts that do not change follow themselves.                             *)
LEMMA FollowsItself ==
    ASSUME NEW fs, FactsOK(fs)
    PROVE  Follows(fs, fs)
<1>1. Len(fs) \in Nat
  BY DEF FactsOK
<1>2. QED
  BY <1>1 DEF Follows, SameClaim


(* A thread's call becomes c, the others go on: time may pass and facts    *)
(* may come in between.                                                    *)
LEMMA CallChanges ==
    ASSUME WritesInv, NEW t \in Threads, NEW c \in {NoCall} \cup Storing \cup Ending,
           calls' = [calls EXCEPT ![t] = c], clock' = clock,
           FactsOK(facts'), Follows(facts, facts'),
           c.step \in {"end", "build"} => c.id \in Ids',
           c.step = "store" =>
             c.row.valid_to = NoTime /\ c.row.expired_at = NoTime /\ c.row.recorded_at <= clock
    PROVE  /\ calls' \in [Threads -> {NoCall} \cup Storing \cup Ending]
           /\ \A u \in Threads : CallOK(calls[u])'
<1>1. calls \in [Threads -> {NoCall} \cup Storing \cup Ending] /\ \A u \in Threads : CallOK(calls[u])
  BY DEF WritesInv
<1>2. calls'[t] = c /\ \A u \in Threads : u # t => calls'[u] = calls[u]
  BY <1>1
<1>3. Ids \subseteq Ids'
  BY DEF WritesInv, FactsOK, Follows, Ids
<1>4. calls' \in [Threads -> {NoCall} \cup Storing \cup Ending]
  BY <1>1
<1>5. ASSUME NEW u \in Threads PROVE CallOK(calls[u])'
  <2>1. CASE u = t
    BY <1>2, <2>1 DEF CallOK
  <2>2. CASE u # t
    BY <1>1, <1>2, <1>3, <2>2 DEF CallOK
  <2>3. QED
    BY <2>1, <2>2
<1>6. QED
  BY <1>4, <1>5

(* No step puts a stamp ahead of the clock or takes a fact away.           *)
LEMMA WritesStep ==
    ASSUME WritesInv, [Next]_vars
    PROVE  WritesInv' /\ Follows(facts, facts')
<1>0. /\ FactsOK(facts) /\ clock \in Clock /\ polled \in Clock
      /\ \A i \in Ids : facts[i].recorded_at <= clock
      /\ calls \in [Threads -> {NoCall} \cup Storing \cup Ending]
      /\ \A t \in Threads : CallOK(calls[t])
      /\ Follows(facts, facts)
  BY FollowsItself DEF WritesInv
<1>n. NoCall.step = "idle"
  BY DEF NoCall
<1>1. CASE Bystanding
  <2>1. UNCHANGED <<clock, facts, calls, polled>>
    BY <1>1, BystandersLeaveWrites
  <2>2. QED
    BY <1>0, <2>1 DEF WritesInv, CallOK, Ids
<1>2. CASE Tick
  <2>1. UNCHANGED <<facts, calls, polled>> /\ clock' = clock + 1 /\ clock' \in Clock
    BY <1>0, <1>2, TimesAssumption DEF Tick, writing, poll, Clock
  <2>2. \A i \in Ids : facts[i] \in Rows
    BY <1>0 DEF FactsOK, Ids
  <2>3. \A i \in Ids : facts[i].recorded_at <= clock + 1
    <3>1. \A f \in Rows : f.recorded_at \in Clock
      BY DEF Rows
    <3>2. QED
      BY <1>0, <2>2, <3>1 DEF Clock
  <2>4. ASSUME NEW t \in Threads PROVE CallOK(calls[t])'
    <3>1. calls[t].step = "store" => calls[t] \in Storing
      BY <1>0, <1>n DEF Ending
    <3>2. calls[t].step = "store" => calls[t].row.recorded_at \in Clock
      BY <3>1 DEF Storing, Rows
    <3>3. CallOK(calls[t])
      BY <1>0
    <3>4. QED
      BY <1>0, <2>1, <3>2, <3>3 DEF CallOK, Ids, Clock
  <2>5. QED
    BY <1>0, <2>1, <2>3, <2>4 DEF WritesInv, Ids
<1>3. CASE Stop
  <2>1. UNCHANGED <<clock, facts, polled>> /\ calls' = [t \in Threads |-> NoCall]
    BY <1>3 DEF Stop, poll
  <2>2. QED
    BY <1>0, <1>n, <2>1 DEF WritesInv, CallOK, Ids
<1>4. CASE WhatChanged
  <2>1. UNCHANGED <<clock, facts, calls>> /\ polled' = clock
    BY <1>4 DEF WhatChanged, writing
  <2>2. QED
    BY <1>0, <2>1 DEF WritesInv, CallOK, Ids
<1>5. ASSUME NEW t \in Threads, NEW c \in {NoCall} \cup Storing \cup Ending,
             calls' = [calls EXCEPT ![t] = c], UNCHANGED <<clock, facts, polled>>,
             c.step \in {"end", "build"} => c.id \in Ids,
             c.step = "store" =>
               c.row.valid_to = NoTime /\ c.row.expired_at = NoTime /\ c.row.recorded_at <= clock
      PROVE  WritesInv' /\ Follows(facts, facts')
  <2>1. c.step \in {"end", "build"} => c.id \in Ids'
    BY <1>5 DEF Ids
  <2>2. FactsOK(facts') /\ Follows(facts, facts')
    BY <1>0, <1>5
  <2>3. calls' \in [Threads -> {NoCall} \cup Storing \cup Ending] /\ \A u \in Threads : CallOK(calls[u])'
    BY <1>5, <2>1, <2>2, CallChanges
  <2>4. QED
    BY <1>0, <1>5, <2>2, <2>3 DEF WritesInv, Ids
<1>6. ASSUME NEW t \in Threads, NEW a \in Assertions, AssertFact(t, a)
      PROVE  WritesInv' /\ Follows(facts, facts')
  <2>1. PICK row \in Rows :
          /\ calls' = [calls EXCEPT ![t] = [step |-> "store", old |-> 0, row |-> row]]
          /\ row.valid_to = NoTime /\ row.expired_at = NoTime /\ row.recorded_at = clock
          /\ UNCHANGED <<clock, facts, report, polled, reported, late, replaced>>
    BY <1>6, CallsEntered
  <2> DEFINE c == [step |-> "store", old |-> 0, row |-> row]
  <2>2. c \in Storing /\ c.step = "store" /\ c.row = row
    BY DEF Storing
  <2>3. calls' = [calls EXCEPT ![t] = c]
    BY <2>1
  <2> HIDE DEF c
  <2>4. c.step = "store" =>
          c.row.valid_to = NoTime /\ c.row.expired_at = NoTime /\ c.row.recorded_at <= clock
    BY <1>0, <2>1, <2>2 DEF Clock
  <2>5. ~(c.step \in {"end", "build"})
    BY <2>2
  <2>6. QED
    BY <1>5, <2>1, <2>2, <2>3, <2>4, <2>5
<1>7. ASSUME NEW t \in Threads, NEW id \in Ids,
             InvalidateFact(t, id) \/ (\E object \in Objects : CorrectFact(t, id, object))
      PROVE  WritesInv' /\ Follows(facts, facts')
  <2>1. PICK new \in SUBSET Objects :
          /\ calls' = [calls EXCEPT ![t] = [step |-> "end", id |-> id, at |-> clock, new |-> new]]
          /\ UNCHANGED <<clock, facts, report, polled, reported, late, replaced>>
    BY <1>7, CallsEntered
  <2> DEFINE c == [step |-> "end", id |-> id, at |-> clock, new |-> new]
  <2>2. c \in Ending /\ c.step = "end" /\ c.id = id
    BY <1>0 DEF Ending, Ids, FactsOK
  <2>3. calls' = [calls EXCEPT ![t] = c]
    BY <2>1
  <2> HIDE DEF c
  <2>4. QED
    BY <1>5, <1>7, <2>1, <2>2, <2>3
<1>8. ASSUME NEW t \in Threads, EndOld(t)
      PROVE  WritesInv' /\ Follows(facts, facts')
  <2> DEFINE c == calls[t]
             next == IF c.new = {} THEN NoCall ELSE [c EXCEPT !.step = "build"]
  <2>1. c \in Ending /\ c.step = "end" /\ c.id \in Ids /\ c.at \in Clock
    <3>1. c.step = "end" /\ c \in {NoCall} \cup Storing \cup Ending /\ CallOK(c)
      BY <1>0, <1>8 DEF EndOld
    <3>2. c \in Ending
      BY <1>n, <3>1 DEF Storing
    <3>3. QED
      BY <3>1, <3>2 DEF Ending, CallOK
  <2>2. /\ facts' = Ended(facts, c.id, c.at) /\ calls' = [calls EXCEPT ![t] = next]
        /\ UNCHANGED <<clock, polled>>
    BY <1>8 DEF EndOld, Ended
  <2>3. next \in {NoCall} \cup Ending /\ (next.step = "build" => next.id = c.id)
        /\ next.step \in {"idle", "build"}
    BY <1>n, <2>1 DEF Ending
  <2> HIDE DEF c, next
  <2>4. /\ FactsOK(facts') /\ Follows(facts, facts') /\ DOMAIN facts' = DOMAIN facts
        /\ \A i \in DOMAIN facts : facts'[i].recorded_at = facts[i].recorded_at
    <3> DEFINE gs == Ended(facts, c.id, c.at)
    <3>1. /\ FactsOK(gs) /\ Follows(facts, gs) /\ DOMAIN gs = DOMAIN facts
          /\ \A i \in DOMAIN facts : i # c.id => gs[i] = facts[i]
          /\ gs[c.id].recorded_at = facts[c.id].recorded_at
      BY <1>0, <2>1, FactEnded DEF Ids
    <3> HIDE DEF gs
    <3>2. \A i \in DOMAIN facts : gs[i].recorded_at = facts[i].recorded_at
      BY <3>1
    <3>3. QED
      BY <2>2, <3>1, <3>2 DEF gs
  <2>5. next.step \in {"end", "build"} => next.id \in Ids'
    BY <2>1, <2>3, <2>4 DEF Ids
  <2>6. calls' \in [Threads -> {NoCall} \cup Storing \cup Ending] /\ \A u \in Threads : CallOK(calls[u])'
    BY <2>2, <2>3, <2>4, <2>5, CallChanges
  <2>7. QED
    BY <1>0, <2>2, <2>4, <2>6 DEF WritesInv, Ids
<1>9. ASSUME NEW t \in Threads, BuildReplacement(t)
      PROVE  WritesInv' /\ Follows(facts, facts')
  <2> DEFINE c == calls[t]
  <2>1. c \in Ending /\ c.id \in Ids /\ c.at \in Clock /\ c.new \in SUBSET Objects
    <3>1. c.step = "build" /\ c \in {NoCall} \cup Storing \cup Ending /\ CallOK(c)
      BY <1>0, <1>9 DEF BuildReplacement
    <3>2. c \in Ending
      BY <1>n, <3>1 DEF Storing
    <3>3. QED
      BY <3>1, <3>2 DEF Ending, CallOK
  <2>2. PICK object \in c.new :
          calls' = [calls EXCEPT ![t] = [step |-> "store", old |-> c.id,
                      row |-> Row(facts[c.id].predicate, object, 100, c.at, clock)]]
    BY <1>9 DEF BuildReplacement
  <2> DEFINE row == Row(facts[c.id].predicate, object, 100, c.at, clock)
             next == [step |-> "store", old |-> c.id, row |-> row]
  <2>3. facts[c.id].predicate \in Predicates
    <3>1. facts[c.id] \in Rows
      BY <1>0, <2>1 DEF FactsOK, Ids
    <3>2. QED
      BY <3>1 DEF Rows
  <2>4. object \in Values /\ 100 \in Confidences
    BY <2>1, <2>2 DEF Values, Confidences
  <2> HIDE DEF c
  <2>5. row \in Rows /\ row.valid_to = NoTime /\ row.expired_at = NoTime /\ row.recorded_at = clock
    BY <1>0, <2>1, <2>3, <2>4, RowBuilt
  <2>6. calls' = [calls EXCEPT ![t] = next]
    BY <2>2
  <2> HIDE DEF row
  <2>7. next \in Storing /\ next.step = "store" /\ next.row = row
    BY <1>0, <2>1, <2>5 DEF Storing, Ids, FactsOK
  <2>8. UNCHANGED <<clock, facts, polled>>
    BY <1>9 DEF BuildReplacement, poll
  <2> HIDE DEF next
  <2>9. next.step = "store" =>
          next.row.valid_to = NoTime /\ next.row.expired_at = NoTime /\ next.row.recorded_at <= clock
    BY <1>0, <2>5, <2>7 DEF Clock
  <2>10. ~(next.step \in {"end", "build"})
    BY <2>7
  <2>11. QED
    BY <1>5, <2>6, <2>7, <2>8, <2>9, <2>10
<1>10. ASSUME NEW t \in Threads, StoreFact(t)
       PROVE  WritesInv' /\ Follows(facts, facts')
  <2> DEFINE c == calls[t]
  <2>1. /\ c.row \in Rows /\ c.row.valid_to = NoTime /\ c.row.expired_at = NoTime
        /\ c.row.recorded_at <= clock
    <3>1. c.step = "store" /\ c \in {NoCall} \cup Storing \cup Ending /\ CallOK(c)
      BY <1>0, <1>10 DEF StoreFact
    <3>2. c \in Storing
      BY <1>n, <3>1 DEF Ending
    <3>3. QED
      BY <3>1, <3>2 DEF Storing, CallOK
  <2>2. facts' = Added(facts, c.row) /\ calls' = [calls EXCEPT ![t] = NoCall] /\ UNCHANGED <<clock, polled>>
    BY <1>10 DEF StoreFact, Added
  <2> HIDE DEF c
  <2>3. /\ FactsOK(facts') /\ Follows(facts, facts') /\ DOMAIN facts' = 1..(Len(facts) + 1)
        /\ \A i \in DOMAIN facts : facts'[i] = facts[i]
        /\ facts'[Len(facts) + 1] = Stored(c.row, Len(facts) + 1)
    BY <1>0, <2>1, <2>2, FactAdded
  <2>4. Len(facts) \in Nat /\ DOMAIN facts = 1..Len(facts)
    BY <1>0 DEF FactsOK
  <2>5. \A i \in Ids' : facts'[i].recorded_at <= clock'
    <3>1. facts'[Len(facts) + 1].recorded_at <= clock
      <4>1. Stored(c.row, Len(facts) + 1).recorded_at = c.row.recorded_at
        BY <2>1 DEF Stored, Rows
      <4>2. QED
        BY <2>1, <2>3, <4>1
    <3>2. QED
      BY <1>0, <2>2, <2>3, <2>4, <3>1 DEF Ids
  <2>6. calls' \in [Threads -> {NoCall} \cup Storing \cup Ending] /\ \A u \in Threads : CallOK(calls[u])'
    BY <1>n, <2>2, <2>3, CallChanges
  <2>7. QED
    BY <1>0, <2>2, <2>3, <2>5, <2>6 DEF WritesInv
<1>11. ASSUME NEW t \in Threads, WriteFails(t)
       PROVE  WritesInv' /\ Follows(facts, facts')
  <2>1. calls' = [calls EXCEPT ![t] = NoCall] /\ UNCHANGED <<clock, facts, polled>>
    BY <1>11 DEF WriteFails, poll
  <2>2. QED
    BY <1>5, <1>n, <2>1
<1>12. QED
  BY <1>1, <1>2, <1>3, <1>4, <1>6, <1>7, <1>8, <1>9, <1>10, <1>11, NextSplits

(* What facts claim of each other stays true of them. *)
LEMMA ReplacesLasts ==
    ASSUME WritesInv, Follows(facts, facts'), FactsOK(facts')
    PROVE  /\ Ids \subseteq Ids'
           /\ \A i \in Ids : /\ facts'[i].predicate = facts[i].predicate
                             /\ facts'[i].recorded_at = facts[i].recorded_at
                             /\ facts'[i].valid_from = facts[i].valid_from
BY DEF WritesInv, FactsOK, Follows, SameClaim, Ids

(* The calls of the other threads, when one thread's becomes c. *)
LEMMA CallsStillReplace ==
    ASSUME WritesInv, CorrectionsInv, Follows(facts, facts'), FactsOK(facts'),
           NEW t \in Threads, NEW c, calls' = [calls EXCEPT ![t] = c], CallReplaces(facts', c)
    PROVE  \A u \in Threads : CallReplaces(facts', calls'[u])
<1>1. \A u \in Threads : u # t => calls'[u] = calls[u]
  BY DEF WritesInv
<1>2. calls'[t] = c
  BY DEF WritesInv
<1>3. Ids \subseteq Ids' /\ \A i \in Ids : facts'[i].predicate = facts[i].predicate
                                         /\ facts'[i].recorded_at = facts[i].recorded_at
  BY ReplacesLasts
<1>4. ASSUME NEW u \in Threads, u # t PROVE CallReplaces(facts', calls'[u])
  <2>1. CallReplaces(facts, calls[u]) /\ calls'[u] = calls[u]
    BY <1>1, <1>4 DEF CorrectionsInv
  <2>2. QED
    BY <1>3, <2>1 DEF CallReplaces, Replaces, Ids
<1>5. CallReplaces(facts', calls'[t])
  BY <1>2 DEF CallReplaces
<1>6. QED
  BY <1>4, <1>5

(* A correction that was made stays one.                                   *)
LEMMA PairsLast ==
    ASSUME WritesInv, CorrectionsInv, Follows(facts, facts'), FactsOK(facts'), NEW c \in replaced
    PROVE  /\ c.old \in Ids' /\ c.new \in Ids' /\ c.old # c.new
           /\ Replaces(facts'[c.new], facts'[c.old]) /\ facts'[c.new].valid_from = c.at
<1>1. /\ c.old \in Ids /\ c.new \in Ids /\ c.old # c.new
      /\ Replaces(facts[c.new], facts[c.old]) /\ facts[c.new].valid_from = c.at
  BY DEF CorrectionsInv
<1>2. QED
  BY <1>1, ReplacesLasts DEF Replaces

(* A replacement is built from the fact it replaces, after its end.        *)
LEMMA CorrectionsStep ==
    ASSUME WritesInv, CorrectionsInv, [Next]_vars
    PROVE  CorrectionsInv'
<1>0. /\ FactsOK(facts) /\ clock \in Clock /\ \A i \in Ids : facts[i].recorded_at <= clock
      /\ calls \in [Threads -> {NoCall} \cup Storing \cup Ending]
      /\ \A t \in Threads : CallOK(calls[t]) /\ CallReplaces(facts, calls[t])
      /\ FactsOK(facts') /\ Follows(facts, facts')
  BY WritesStep DEF WritesInv, CorrectionsInv, Ids
<1>n. NoCall.step = "idle"
  BY DEF NoCall
<1>1. ASSUME UNCHANGED <<facts, calls, replaced>> PROVE CorrectionsInv'
  BY <1>1 DEF CorrectionsInv, CallReplaces, Replaces, Ids
<1>2. ASSUME NEW t \in Threads, NEW c, calls' = [calls EXCEPT ![t] = c], CallReplaces(facts', c),
             UNCHANGED replaced
      PROVE  CorrectionsInv'
  <2>1. \A u \in Threads : CallReplaces(facts', calls'[u])
    BY <1>0, <1>2, CallsStillReplace
  <2>2. \A d \in replaced : /\ d.old \in Ids' /\ d.new \in Ids' /\ d.old # d.new
                            /\ Replaces(facts'[d.new], facts'[d.old]) /\ facts'[d.new].valid_from = d.at
    BY <1>0, PairsLast
  <2>3. QED
    BY <1>2, <2>1, <2>2 DEF CorrectionsInv
<1>3. CASE Bystanding
  BY <1>1, <1>3, BystandersLeaveWrites
<1>4. CASE Tick
  BY <1>1, <1>4 DEF Tick, writing
<1>5. CASE WhatChanged
  BY <1>1, <1>5 DEF WhatChanged, writing
<1>6. CASE Stop
  <2>1. UNCHANGED <<facts, replaced>> /\ calls' = [t \in Threads |-> NoCall]
    BY <1>6 DEF Stop
  <2>2. QED
    BY <1>n, <2>1 DEF CorrectionsInv, CallReplaces, Replaces, Ids
<1>7. ASSUME NEW t \in Threads, NEW a \in Assertions, AssertFact(t, a)
      PROVE  CorrectionsInv'
  <2>1. PICK row \in Rows :
          /\ calls' = [calls EXCEPT ![t] = [step |-> "store", old |-> 0, row |-> row]]
          /\ UNCHANGED <<clock, facts, report, polled, reported, late, replaced>>
    BY <1>7, CallsEntered
  <2> DEFINE c == [step |-> "store", old |-> 0, row |-> row]
  <2>2. CallReplaces(facts', c)
    BY DEF CallReplaces
  <2>3. calls' = [calls EXCEPT ![t] = c]
    BY <2>1
  <2> HIDE DEF c
  <2>4. QED
    BY <1>2, <2>1, <2>2, <2>3
<1>8. ASSUME NEW t \in Threads, NEW id \in Ids,
             InvalidateFact(t, id) \/ (\E object \in Objects : CorrectFact(t, id, object))
      PROVE  CorrectionsInv'
  <2>1. PICK new \in SUBSET Objects :
          /\ calls' = [calls EXCEPT ![t] = [step |-> "end", id |-> id, at |-> clock, new |-> new]]
          /\ UNCHANGED <<clock, facts, report, polled, reported, late, replaced>>
    BY <1>8, CallsEntered
  <2> DEFINE c == [step |-> "end", id |-> id, at |-> clock, new |-> new]
  <2>2. CallReplaces(facts', c)
    BY DEF CallReplaces
  <2>3. calls' = [calls EXCEPT ![t] = c]
    BY <2>1
  <2> HIDE DEF c
  <2>4. QED
    BY <1>2, <2>1, <2>2, <2>3
<1>9. ASSUME NEW t \in Threads, EndOld(t)
      PROVE  CorrectionsInv'
  <2> DEFINE c == calls[t]
             next == IF c.new = {} THEN NoCall ELSE [c EXCEPT !.step = "build"]
  <2>1. c \in Ending
    <3>1. c.step = "end" /\ c \in {NoCall} \cup Storing \cup Ending
      BY <1>0, <1>9 DEF EndOld
    <3>2. QED
      BY <1>n, <3>1 DEF Storing
  <2>2. calls' = [calls EXCEPT ![t] = next] /\ UNCHANGED replaced
    BY <1>9 DEF EndOld
  <2>3. next.step \in {"idle", "build"}
    BY <1>n, <2>1 DEF Ending
  <2> HIDE DEF next
  <2>4. CallReplaces(facts', next)
    BY <2>3 DEF CallReplaces
  <2>5. QED
    BY <1>2, <2>2, <2>4
<1>10. ASSUME NEW t \in Threads, BuildReplacement(t)
       PROVE  CorrectionsInv'
  <2> DEFINE c == calls[t]
  <2>1. c \in Ending /\ c.id \in Ids
    <3>1. c.step = "build" /\ c \in {NoCall} \cup Storing \cup Ending /\ CallOK(c)
      BY <1>0, <1>10 DEF BuildReplacement
    <3>2. c \in Ending
      BY <1>n, <3>1 DEF Storing
    <3>3. QED
      BY <3>1, <3>2 DEF CallOK
  <2>2. PICK object \in c.new :
          calls' = [calls EXCEPT ![t] = [step |-> "store", old |-> c.id,
                      row |-> Row(facts[c.id].predicate, object, 100, c.at, clock)]]
    BY <1>10 DEF BuildReplacement
  <2> DEFINE row == Row(facts[c.id].predicate, object, 100, c.at, clock)
             next == [step |-> "store", old |-> c.id, row |-> row]
  <2>3. row.predicate = facts[c.id].predicate /\ row.recorded_at = clock
    BY DEF Row
  <2>4. UNCHANGED <<facts, replaced>>
    BY <1>10 DEF BuildReplacement
  <2>5. calls' = [calls EXCEPT ![t] = next]
    BY <2>2
  <2>6. next.old = c.id /\ next.row = row
    OBVIOUS
  <2> HIDE DEF c, row, next
  <2>7. c.id \in Ids' /\ Replaces(row, facts'[c.id])
    BY <1>0, <2>1, <2>3, <2>4 DEF Replaces, Ids
  <2>8. CallReplaces(facts', next)
    BY <2>6, <2>7 DEF CallReplaces, Replaces, Ids
  <2>9. QED
    BY <1>2, <2>4, <2>5, <2>8
<1>11. ASSUME NEW t \in Threads, StoreFact(t)
       PROVE  CorrectionsInv'
  <2> DEFINE c == calls[t]
             id == Len(facts) + 1
             pair == [old |-> c.old, new |-> id, at |-> c.row.valid_from]
  <2>1. /\ c.row \in Rows /\ c.row.valid_to = NoTime /\ c.row.expired_at = NoTime
        /\ c.old # 0 => c.old \in Ids /\ Replaces(c.row, facts[c.old])
    <3>1. c.step = "store" /\ c \in {NoCall} \cup Storing \cup Ending /\ CallOK(c) /\ CallReplaces(facts, c)
      BY <1>0, <1>11 DEF StoreFact
    <3>2. c \in Storing
      BY <1>n, <3>1 DEF Ending
    <3>3. QED
      BY <3>1, <3>2 DEF Storing, CallOK, CallReplaces, Ids
  <2>2. /\ facts' = Added(facts, c.row) /\ calls' = [calls EXCEPT ![t] = NoCall]
        /\ replaced' = IF c.old = 0 THEN replaced ELSE replaced \cup {pair}
    BY <1>11 DEF StoreFact, Added
  <2> HIDE DEF c
  <2>3. CallReplaces(facts', NoCall)
    BY <1>n DEF CallReplaces
  <2>4. \A u \in Threads : CallReplaces(facts', calls'[u])
    BY <1>0, <2>2, <2>3, CallsStillReplace
  <2>5. \A d \in replaced : /\ d.old \in Ids' /\ d.new \in Ids' /\ d.old # d.new
                            /\ Replaces(facts'[d.new], facts'[d.old]) /\ facts'[d.new].valid_from = d.at
    BY <1>0, PairsLast
  <2>6. /\ DOMAIN facts' = 1..(Len(facts) + 1) /\ Len(facts) \in Nat /\ DOMAIN facts = 1..Len(facts)
        /\ \A i \in DOMAIN facts : facts'[i] = facts[i]
        /\ facts'[id] = Stored(c.row, id)
    BY <1>0, <2>1, <2>2, FactAdded DEF FactsOK
  <2>7. /\ facts'[id].predicate = c.row.predicate /\ facts'[id].recorded_at = c.row.recorded_at
        /\ facts'[id].valid_from = c.row.valid_from
    BY <2>1, <2>6 DEF Stored, Rows
  <2>8. c.old # 0 => /\ c.old \in Ids' /\ id \in Ids' /\ c.old # id
                     /\ Replaces(facts'[id], facts'[c.old]) /\ facts'[id].valid_from = pair.at
    BY <2>1, <2>6, <2>7 DEF Replaces, Ids
  <2>9. pair.old = c.old /\ pair.new = id
    OBVIOUS
  <2> HIDE DEF pair, id
  <2>10. \A d \in replaced' : /\ d.old \in Ids' /\ d.new \in Ids' /\ d.old # d.new
                             /\ Replaces(facts'[d.new], facts'[d.old]) /\ facts'[d.new].valid_from = d.at
    BY <2>2, <2>5, <2>8, <2>9
  <2>11. QED
    BY <2>4, <2>10 DEF CorrectionsInv
<1>12. ASSUME NEW t \in Threads, WriteFails(t)
       PROVE  CorrectionsInv'
  <2>1. calls' = [calls EXCEPT ![t] = NoCall] /\ UNCHANGED replaced
    BY <1>12 DEF WriteFails
  <2>2. CallReplaces(facts', NoCall)
    BY <1>n DEF CallReplaces
  <2>3. QED
    BY <1>2, <2>1, <2>2
<1>13. QED
  BY <1>3, <1>4, <1>5, <1>6, <1>7, <1>8, <1>9, <1>10, <1>11, <1>12, NextSplits

(* At the start nothing was corrected.                                     *)
LEMMA InitCorrections == Init => CorrectionsInv
BY DEF Init, CorrectionsInv, CallReplaces, NoCall

(* The pair of a correction is reported: no other end of the predicate at  *)
(* the instant at which the new fact starts can be taken for its own.      *)
LEMMA PairIsReported ==
    ASSUME WritesInv, CorrectionsInv
    PROVE  CorrectionsPaired
<1> SUFFICES ASSUME NEW c \in replaced,
                    {id \in Ids : facts[id].predicate = facts[c.old].predicate
                                  /\ facts[id].expired_at = c.at} = {c.old}
             PROVE  [new |-> c.new, olds |-> {c.old}] \in Corrections(0)
  BY DEF CorrectionsPaired
<1> DEFINE new == facts[c.new]
<1>1. /\ c.old \in Ids /\ c.new \in Ids /\ c.old # c.new
      /\ facts[c.old].predicate = new.predicate /\ facts[c.old].recorded_at <= new.recorded_at
      /\ new.valid_from = c.at
  BY DEF CorrectionsInv, Replaces
<1>2. facts[c.old].id = c.old /\ new.id = c.new
  BY <1>1 DEF WritesInv, FactsOK, Ids
<1>3. facts[c.old].expired_at = c.at
  OBVIOUS
<1>4. ExactMatches(new) = {c.old}
  <2>1. c.old \in ExactMatches(new)
    BY <1>1, <1>2, <1>3 DEF ExactMatches, SameKind
  <2>2. \A id \in ExactMatches(new) : id = c.old
    BY <1>1 DEF ExactMatches, SameKind
  <2>3. QED
    BY <2>1, <2>2
<1>5. OldMatch(new) = {c.old}
  <2>1. facts[c.old].recorded_at \in Int
    <3>1. facts[c.old] \in Rows
      BY <1>1 DEF WritesInv, FactsOK, Ids
    <3>2. QED
      BY <3>1, TimesAssumption DEF Rows, Clock
  <2>2. OldMatch(new) = {id \in ExactMatches(new) :
                           \A other \in ExactMatches(new) : facts[other].recorded_at <= facts[id].recorded_at}
    BY <1>4 DEF OldMatch
  <2>3. QED
    BY <1>4, <2>1, <2>2
<1>6. c.new \in RecordedSince(0)
  <2>1. new \in Rows
    BY <1>1 DEF WritesInv, FactsOK, Ids
  <2>2. new.recorded_at \in Clock
    BY <2>1 DEF Rows
  <2>3. QED
    BY <1>1, <2>2, TimesAssumption DEF RecordedSince, Clock
<1>7. QED
  BY <1>5, <1>6 DEF Corrections

-----------------------------------------------------------------------------
(* Polls. *)
LEMMA InitPolls == Init => NothingMissed
<1> SUFFICES ASSUME Init PROVE NothingMissed
  OBVIOUS
<1>1. polled = 0 /\ \A i \in Ids : facts[i].recorded_at = 0 /\ facts[i].expired_at = NoTime
  BY InitialFacts DEF Init
<1>2. QED
  BY <1>1 DEF NothingMissed

(* A poll returns all that was stored since the last one.                  *)
LEMMA PollsStep ==
    ASSUME WritesInv, NothingMissed, [Next]_vars
    PROVE  NothingMissed'
<1>0. /\ FactsOK(facts) /\ clock \in Clock /\ polled \in Clock
      /\ calls \in [Threads -> {NoCall} \cup Storing \cup Ending]
      /\ \A t \in Threads : CallOK(calls[t])
  BY DEF WritesInv
<1>n. NoCall.step = "idle"
  BY DEF NoCall
<1>t. \A i \in Ids : facts[i].recorded_at \in Int /\ facts[i].expired_at \in Clock \cup {NoTime}
  <2>1. \A i \in Ids : facts[i] \in Rows
    BY <1>0 DEF FactsOK, Ids
  <2>2. QED
    BY <2>1, TimesAssumption DEF Rows, Ends, Clock
<1>1. ASSUME UNCHANGED <<facts, polled, reported, late>> PROVE NothingMissed'
  BY <1>1 DEF NothingMissed, Ids
<1>2. CASE Bystanding \/ Tick \/ Stop
  BY <1>1, <1>2, BystandersLeaveWrites DEF Tick, Stop, poll
<1>3. CASE WhatChanged
  <2>1. /\ facts' = facts /\ late' = late /\ polled' = clock
        /\ reported' = reported \cup {<<id, "new">> : id \in RecordedSince(polled)}
                                \cup {<<id, "end">> : id \in EndedSince(polled)}
    BY <1>3 DEF WhatChanged
  <2>2. ASSUME NEW i \in Ids
        PROVE  /\ <<i, "new">> \notin late => <<i, "new">> \in reported'
               /\ facts[i].expired_at # NoTime /\ <<i, "end">> \notin late => <<i, "end">> \in reported'
    <3>1. facts[i].recorded_at < polled \/ i \in RecordedSince(polled)
      BY <1>0, <1>t DEF RecordedSince, Clock
    <3>2. facts[i].expired_at # NoTime => facts[i].expired_at < polled \/ i \in EndedSince(polled)
      BY <1>0, <1>t, TimesAssumption DEF EndedSince, Clock
    <3>3. QED
      BY <2>1, <3>1, <3>2 DEF NothingMissed
  <2>3. QED
    BY <2>1, <2>2 DEF NothingMissed, Ids
<1>4. ASSUME NEW t \in Threads, EndOld(t) PROVE NothingMissed'
  <2> DEFINE c == calls[t]
             event == <<c.id, "end">>
  <2>1. c.id \in Ids /\ c.at \in Clock
    <3>1. c.step = "end" /\ c \in {NoCall} \cup Storing \cup Ending /\ CallOK(c)
      BY <1>0, <1>4 DEF EndOld
    <3>2. c \in Ending
      BY <1>n, <3>1 DEF Storing
    <3>3. QED
      BY <3>1, <3>2 DEF Ending, CallOK
  <2>2. /\ facts' = Ended(facts, c.id, c.at) /\ polled' = polled
        /\ late' = IF c.at < polled THEN late \cup {event} ELSE late \ {event}
        /\ reported' = reported \ {event}
    BY <1>4 DEF EndOld, Ended, Late
  <2> HIDE DEF c
  <2>3. /\ DOMAIN facts' = DOMAIN facts
        /\ \A i \in Ids : i # c.id => facts'[i] = facts[i]
        /\ facts'[c.id].expired_at = c.at /\ facts'[c.id].recorded_at = facts[c.id].recorded_at
    BY <1>0, <2>1, <2>2, FactEnded DEF Ids
  <2>4. ASSUME NEW i \in Ids
        PROVE  /\ facts'[i].recorded_at < polled /\ <<i, "new">> \notin late' => <<i, "new">> \in reported'
               /\ facts'[i].expired_at # NoTime /\ facts'[i].expired_at < polled /\ <<i, "end">> \notin late'
                    => <<i, "end">> \in reported'
    <3>1. <<i, "new">> # event
      OBVIOUS
    <3>2. facts'[i].recorded_at < polled /\ <<i, "new">> \notin late' => <<i, "new">> \in reported'
      BY <2>2, <2>3, <3>1 DEF NothingMissed
    <3>3. CASE i = c.id
      BY <2>2, <2>3, <3>2, <3>3
    <3>4. CASE i # c.id
      <4>1. <<i, "end">> # event
        BY <3>4
      <4>2. QED
        BY <2>2, <2>3, <3>2, <3>4, <4>1 DEF NothingMissed
    <3>5. QED
      BY <3>3, <3>4
  <2>5. QED
    BY <2>2, <2>3, <2>4 DEF NothingMissed, Ids
<1>5. ASSUME NEW t \in Threads, StoreFact(t) PROVE NothingMissed'
  <2> DEFINE c == calls[t]
             id == Len(facts) + 1
             event == <<id, "new">>
  <2>1. /\ c.row \in Rows /\ c.row.valid_to = NoTime /\ c.row.expired_at = NoTime
    <3>1. c.step = "store" /\ c \in {NoCall} \cup Storing \cup Ending /\ CallOK(c)
      BY <1>0, <1>5 DEF StoreFact
    <3>2. c \in Storing
      BY <1>n, <3>1 DEF Ending
    <3>3. QED
      BY <3>1, <3>2 DEF Storing, CallOK
  <2>2. /\ facts' = Added(facts, c.row) /\ polled' = polled /\ reported' = reported
        /\ late' = IF c.row.recorded_at < polled THEN late \cup {event} ELSE late \ {event}
    BY <1>5 DEF StoreFact, Added, Late
  <2> HIDE DEF c
  <2>3. /\ DOMAIN facts' = 1..id /\ Len(facts) \in Nat /\ DOMAIN facts = 1..Len(facts)
        /\ \A i \in DOMAIN facts : facts'[i] = facts[i]
        /\ facts'[id] = Stored(c.row, id)
    BY <1>0, <2>1, <2>2, FactAdded DEF FactsOK
  <2>4. facts'[id].recorded_at = c.row.recorded_at /\ facts'[id].expired_at = NoTime
    BY <2>1, <2>3 DEF Stored, Rows
  <2>5. ASSUME NEW i \in 1..id
        PROVE  /\ facts'[i].recorded_at < polled /\ <<i, "new">> \notin late' => <<i, "new">> \in reported'
               /\ facts'[i].expired_at # NoTime /\ facts'[i].expired_at < polled /\ <<i, "end">> \notin late'
                    => <<i, "end">> \in reported'
    <3>1. <<i, "end">> # event
      OBVIOUS
    <3>2. CASE i = id
      BY <2>2, <2>4, <3>2
    <3>3. CASE i # id
      <4>1. <<i, "new">> # event /\ i \in Ids
        BY <2>3, <3>3 DEF Ids
      <4>2. facts'[i] = facts[i]
        BY <2>3, <4>1 DEF Ids
      <4>3. QED
        BY <2>2, <3>1, <4>1, <4>2 DEF NothingMissed
    <3>4. QED
      BY <3>2, <3>3
  <2>6. Ids' = 1..id
    BY <2>3 DEF Ids
  <2>7. QED
    BY <2>2, <2>5, <2>6 DEF NothingMissed
<1>6. ASSUME NEW t \in Threads,
             \/ \E a \in Assertions : AssertFact(t, a)
             \/ \E id \in Ids : InvalidateFact(t, id)
             \/ \E id \in Ids, object \in Objects : CorrectFact(t, id, object)
             \/ BuildReplacement(t) \/ WriteFails(t)
      PROVE  NothingMissed'
  BY <1>1, <1>6 DEF AssertFact, InvalidateFact, CorrectFact, Enter, BuildReplacement, WriteFails, poll
<1>7. QED
  BY <1>2, <1>3, <1>4, <1>5, <1>6, NextSplits

-----------------------------------------------------------------------------
(* Opening. *)
LEMMA InitOpening == Init => OpeningInv
<1> SUFFICES ASSUME Init PROVE OpeningInv
  OBVIOUS
<1>1. registry = [e \in ToSet(Entries) |-> IF watch = "open" THEN "none" ELSE "default"]
      /\ mode = (IF watch = "open" THEN "closed" ELSE "open") /\ todo = <<>>
  BY DEF Init
<1>2. QED
  BY <1>1 DEF OpeningInv

(* Each registration is looked at before the memory is open.               *)
LEMMA OpeningStep ==
    ASSUME OpeningInv, [Next]_vars
    PROVE  OpeningInv'
<1>0. /\ mode \in {"closed", "opening", "open"}
      /\ todo \in Seq(ToSet(Entries))
      /\ registry \in [ToSet(Entries) -> {"none", "default", "caller"}]
      /\ watch # "open" => mode = "open"
      /\ mode = "open" => \A e \in ToSet(Entries) : registry[e] # "none"
      /\ mode = "opening" => \A e \in ToSet(Entries) : registry[e] = "none" => e \in ToSet(todo)
  BY DEF OpeningInv
<1>1. CASE Open
  <2>1. /\ mode = "closed" /\ mode' = "opening" /\ todo' = Entries /\ UNCHANGED <<watch, registry>>
    BY <1>1 DEF Open
  <2>2. QED
    BY <1>0, <2>1, EntriesAssumption DEF OpeningInv
<1>2. CASE RegisterNext
  <2> DEFINE e == Head(todo)
  <2>1. /\ mode = "opening" /\ todo # <<>> /\ todo' = Tail(todo) /\ watch' = watch
        /\ registry' = [registry EXCEPT ![e] = IF registry[e] = "none" THEN "default" ELSE registry[e]]
        /\ mode' = IF Tail(todo) = <<>> THEN "open" ELSE "opening"
    BY <1>2 DEF RegisterNext, RegisterDefault
  <2>2. /\ e \in ToSet(Entries) /\ Tail(todo) \in Seq(ToSet(Entries))
        /\ ToSet(todo) = {e} \cup ToSet(Tail(todo))
    <3>1. /\ Len(todo) \in Nat /\ DOMAIN todo = 1..Len(todo) /\ 1 \in DOMAIN todo /\ e = todo[1]
          /\ DOMAIN Tail(todo) = 1..(Len(todo) - 1)
          /\ \A i \in DOMAIN Tail(todo) : Tail(todo)[i] = todo[i + 1]
          /\ Tail(todo) \in Seq(ToSet(Entries)) /\ e \in ToSet(Entries)
      BY <1>0, <2>1
    <3>2. \A i \in DOMAIN todo : i # 1 => i - 1 \in DOMAIN Tail(todo) /\ Tail(todo)[i - 1] = todo[i]
      BY <3>1
    <3>3. \A x \in ToSet(todo) : x = e \/ x \in ToSet(Tail(todo))
      <4> SUFFICES ASSUME NEW x \in ToSet(todo), x # e PROVE x \in ToSet(Tail(todo))
        OBVIOUS
      <4>1. PICK i \in DOMAIN todo : x = todo[i]
        BY DEF ToSet
      <4>2. i # 1
        BY <3>1, <4>1
      <4>3. i - 1 \in DOMAIN Tail(todo) /\ Tail(todo)[i - 1] = x
        BY <3>2, <4>1, <4>2
      <4>4. QED
        BY <4>3 DEF ToSet
    <3>4. \A x \in ToSet(Tail(todo)) : x \in ToSet(todo)
      <4>1. \A i \in DOMAIN Tail(todo) : i + 1 \in DOMAIN todo
        BY <3>1
      <4>2. QED
        BY <3>1, <4>1 DEF ToSet
    <3>5. e \in ToSet(todo)
      BY <3>1 DEF ToSet
    <3>6. QED
      BY <3>1, <3>3, <3>4, <3>5
  <2> HIDE DEF e
  <2>3. /\ registry' \in [ToSet(Entries) -> {"none", "default", "caller"}]
        /\ registry'[e] # "none"
        /\ \A x \in ToSet(Entries) : x # e => registry'[x] = registry[x]
    BY <1>0, <2>1, <2>2
  <2>4. \A x \in ToSet(Entries) : registry'[x] = "none" => x \in ToSet(Tail(todo))
    BY <1>0, <2>1, <2>2, <2>3
  <2>5. Tail(todo) = <<>> => ToSet(Tail(todo)) = {}
    BY DEF ToSet
  <2>6. watch' # "open" => FALSE
    BY <1>0, <2>1
  <2>7. QED
    BY <2>1, <2>2, <2>3, <2>4, <2>5, <2>6 DEF OpeningInv
<1>3. CASE Stop
  <2>1. watch = "open" /\ mode' = "closed" /\ todo' = <<>> /\ UNCHANGED <<watch, registry>>
    BY <1>3 DEF Stop
  <2>2. QED
    BY <1>0, <2>1 DEF OpeningInv
<1>4. ASSUME NEW e \in ToSet(Entries), CallerRegisters(e) PROVE OpeningInv'
  <2>1. mode # "opening" /\ registry' = [registry EXCEPT ![e] = "caller"] /\ UNCHANGED <<watch, mode, todo>>
    BY <1>4 DEF CallerRegisters
  <2>2. registry' \in [ToSet(Entries) -> {"none", "default", "caller"}]
    BY <1>0, <2>1
  <2>3. \A x \in ToSet(Entries) : registry[x] # "none" => registry'[x] # "none"
    BY <1>0, <2>1
  <2>4. QED
    BY <1>0, <2>1, <2>2, <2>3 DEF OpeningInv
<1>5. ASSUME UNCHANGED memory PROVE OpeningInv'
  BY <1>0, <1>5 DEF OpeningInv, memory
<1>6. CASE \/ MemoryHealth \/ RecallForTask \/ Answer \/ (\E predicate \in Singletons : Audit(predicate))
           \/ Tick \/ WhatChanged \/ UNCHANGED vars
  BY <1>5, <1>6 DEF MemoryHealth, RecallForTask, Answer, Audit, Tick, WhatChanged, vars
<1>7. ASSUME NEW t \in Threads,
             \/ \E a \in Assertions : AssertFact(t, a)
             \/ \E id \in Ids : InvalidateFact(t, id)
             \/ \E id \in Ids, object \in Objects : CorrectFact(t, id, object)
             \/ EndOld(t) \/ BuildReplacement(t) \/ StoreFact(t) \/ WriteFails(t)
      PROVE  OpeningInv'
  BY <1>5, <1>7 DEF AssertFact, InvalidateFact, CorrectFact, Enter, EndOld, BuildReplacement,
                    StoreFact, WriteFails
<1>8. QED
  BY <1>1, <1>2, <1>3, <1>4, <1>6, <1>7 DEF Next

(* No step takes a caller's registration away, and the step after which a  *)
(* memory is open leaves no entry without one.                             *)
LEMMA DefaultsStep ==
    ASSUME OpeningInv, [Next]_vars
    PROVE  /\ \A e \in DOMAIN registry : registry[e] = "caller" => registry'[e] = "caller"
           /\ mode' = "open" => \A e \in DOMAIN registry : registry'[e] # "none"
<1>0. registry \in [ToSet(Entries) -> {"none", "default", "caller"}] /\ todo \in Seq(ToSet(Entries))
  BY DEF OpeningInv
<1>1. \A e \in DOMAIN registry : registry[e] = "caller" => registry'[e] = "caller"
  <2>1. CASE registry' = registry
    BY <2>1
  <2>2. CASE RegisterNext
    <3>1. /\ Head(todo) \in ToSet(Entries)
          /\ registry' = [registry EXCEPT ![Head(todo)] =
                            IF registry[Head(todo)] = "none" THEN "default" ELSE registry[Head(todo)]]
      BY <1>0, <2>2 DEF RegisterNext, RegisterDefault
    <3>2. QED
      BY <1>0, <3>1
  <2>3. ASSUME NEW e \in ToSet(Entries), CallerRegisters(e)
        PROVE  \A x \in DOMAIN registry : registry[x] = "caller" => registry'[x] = "caller"
    <3>1. registry' = [registry EXCEPT ![e] = "caller"]
      BY <2>3 DEF CallerRegisters
    <3>2. QED
      BY <1>0, <3>1
  <2>4. registry' = registry \/ RegisterNext \/ (\E e \in ToSet(Entries) : CallerRegisters(e))
    BY DEF Next, vars, memory, Tick, Open, Stop, WhatChanged, MemoryHealth, RecallForTask, Answer, Audit,
           AssertFact, InvalidateFact, CorrectFact, Enter, EndOld, BuildReplacement, StoreFact, WriteFails
  <2>5. QED
    BY <2>1, <2>2, <2>3, <2>4
<1>2. mode' = "open" => \A e \in DOMAIN registry : registry'[e] # "none"
  BY <1>0, OpeningStep DEF OpeningInv
<1>3. QED
  BY <1>1, <1>2

-----------------------------------------------------------------------------
(* Reports. *)
LEMMA InitReports == Init => ReportInv
BY DEF Init, ReportInv

(* What a detection finds, there are finitely many of. *)
LEMMA FindingsAreFinite ==
    ASSUME NEW fs, FactsOK(fs), NEW ids \in SUBSET DOMAIN fs
    PROVE  IsFiniteSet(Among(fs, ids))
<1> DEFINE pairs == {p \in ids \X ids : p[1] < p[2] /\ DetectPairwise(fs[p[1]], fs[p[2]])}
           f == [p \in pairs |-> Contradiction(fs[p[1]], fs[p[2]])]
<1>1. IsFiniteSet(DOMAIN fs)
  <2>1. Len(fs) \in Nat /\ DOMAIN fs = 1..Len(fs)
    BY DEF FactsOK
  <2>2. QED
    BY <2>1, FS_Interval
<1>2. IsFiniteSet(ids)
  BY <1>1, FS_Subset
<1>3. IsFiniteSet(ids \X ids)
  BY <1>2, FS_Product
<1>4. IsFiniteSet(pairs)
  <2>1. pairs \in SUBSET (ids \X ids)
    OBVIOUS
  <2> HIDE DEF pairs
  <2>2. QED
    BY <1>3, <2>1, FS_Subset
<1>5. Among(fs, ids) = {Contradiction(fs[p[1]], fs[p[2]]) : p \in pairs}
  BY DEF Among
<1> HIDE DEF pairs
<1>6. f \in Surjection(pairs, Among(fs, ids))
  <2>1. f \in [pairs -> Among(fs, ids)]
    BY <1>5
  <2>2. \A c \in Among(fs, ids) : \E p \in pairs : f[p] = c
    BY <1>5
  <2>3. QED
    BY <2>1, <2>2 DEF Surjection
<1>7. QED
  BY <1>4, <1>6, FS_Surjection

(* Detection in a slot finds something exactly when two current facts of   *)
(* it claim different values: current facts have no end, hence overlap.    *)
LEMMA DetectionFindsConflicts ==
    ASSUME NEW fs, FactsOK(fs), NEW predicate \in Singletons
    PROVE  /\ DetectContradictions(Singletons, fs, "entity", predicate) # {} <=> SlotConflict(fs, predicate)
           /\ IsFiniteSet(DetectContradictions(Singletons, fs, "entity", predicate))
<1> DEFINE slot == Slot(fs, "entity", predicate)
<1>1. DetectContradictions(Singletons, fs, "entity", predicate) = Among(fs, slot)
  BY DEF DetectContradictions
<1>2. /\ Len(fs) \in Nat /\ DOMAIN fs = 1..Len(fs)
      /\ \A i \in DOMAIN fs : fs[i] \in Rows /\ (fs[i].valid_to = NoTime <=> fs[i].expired_at = NoTime)
  BY DEF FactsOK
<1>3. slot = {i \in ActiveFacts(fs) : fs[i].predicate = predicate}
  <2>1. \A i \in DOMAIN fs : fs[i].subject = "entity"
    BY <1>2 DEF Rows
  <2>2. QED
    BY <1>2, <2>1 DEF Slot, ActiveFacts, Active
<1>4. slot \in SUBSET DOMAIN fs
  BY <1>3 DEF ActiveFacts
<1>5. ASSUME NEW i \in slot, NEW j \in slot
      PROVE  DetectPairwise(fs[i], fs[j]) <=> fs[i].object # fs[j].object
  <2>1. /\ fs[i].subject = "entity" /\ fs[j].subject = "entity"
        /\ fs[i].predicate = predicate /\ fs[j].predicate = predicate
        /\ fs[i].expired_at = NoTime /\ fs[j].expired_at = NoTime
        /\ fs[i].valid_to = NoTime /\ fs[j].valid_to = NoTime
    BY <1>2, <1>5 DEF Slot
  <2>2. fs[i].valid_from \in Clock /\ fs[j].valid_from \in Clock
    BY <1>2, <1>4, <1>5 DEF Rows
  <2>3. fs[i].valid_from < MaxTime /\ fs[j].valid_from < MaxTime
    BY <2>2, TimesAssumption DEF Clock
  <2>4. ValidTimeOverlap(fs[i], fs[j])
    BY <2>1, <2>3 DEF ValidTimeOverlap, End
  <2>5. QED
    BY <2>1, <2>4 DEF DetectPairwise, ValuesConflict
<1>6. \A i, j \in slot : i \in Nat /\ j \in Nat
  BY <1>2, <1>4
<1> HIDE DEF slot
<1>7. Among(fs, slot) # {} <=> \E i, j \in slot : fs[i].object # fs[j].object
  <2>1. ASSUME Among(fs, slot) # {} PROVE \E i, j \in slot : fs[i].object # fs[j].object
    <3>1. PICK p \in slot \X slot : p[1] < p[2] /\ DetectPairwise(fs[p[1]], fs[p[2]])
      BY <2>1 DEF Among
    <3>2. QED
      BY <1>5, <3>1
  <2>2. ASSUME NEW i \in slot, NEW j \in slot, fs[i].object # fs[j].object PROVE Among(fs, slot) # {}
    <3>1. CASE i < j
      <4>1. <<i, j>> \in {p \in slot \X slot : p[1] < p[2] /\ DetectPairwise(fs[p[1]], fs[p[2]])}
        BY <1>5, <2>2, <3>1
      <4>2. QED
        BY <4>1 DEF Among
    <3>2. CASE j < i
      <4>1. <<j, i>> \in {p \in slot \X slot : p[1] < p[2] /\ DetectPairwise(fs[p[1]], fs[p[2]])}
        BY <1>5, <2>2, <3>2
      <4>2. QED
        BY <4>1 DEF Among
    <3>3. CASE i = j
      BY <2>2, <3>3
    <3>4. QED
      BY <1>6, <3>1, <3>2, <3>3
  <2>3. QED
    BY <2>1, <2>2
<1>8. SlotConflict(fs, predicate) <=> \E i, j \in slot : fs[i].object # fs[j].object
  BY <1>3 DEF SlotConflict
<1>9. QED
  BY <1>1, <1>4, <1>7, <1>8, FindingsAreFinite

(* What was disturbed stays so.                                            *)
LEMMA FollowsOn ==
    ASSUME NEW fs, NEW gs, NEW hs, FactsOK(fs), FactsOK(gs), FactsOK(hs), Follows(fs, gs), Follows(gs, hs)
    PROVE  /\ Follows(fs, hs)
           /\ Undisturbed(fs, hs) => Undisturbed(fs, gs)
<1>1. /\ Len(fs) \in Nat /\ Len(gs) \in Nat /\ Len(hs) \in Nat
      /\ DOMAIN fs = 1..Len(fs) /\ DOMAIN gs = 1..Len(gs) /\ DOMAIN hs = 1..Len(hs)
  BY DEF FactsOK
<1>2. Len(fs) <= Len(gs) /\ Len(gs) <= Len(hs)
  BY DEF Follows
<1>3. \A i \in DOMAIN fs : i \in DOMAIN gs /\ SameClaim(fs[i], gs[i]) /\ SameClaim(gs[i], hs[i])
  BY <1>1, <1>2 DEF Follows
<1>4. Follows(fs, hs)
  BY <1>1, <1>2, <1>3 DEF Follows, SameClaim
<1>5. ASSUME Undisturbed(fs, hs) PROVE Undisturbed(fs, gs)
  <2>1. Len(fs) = Len(gs)
    <3>1. Len(fs) = Len(hs)
      BY <1>5 DEF Undisturbed
    <3>2. Len(fs) \in Nat /\ Len(gs) \in Nat /\ Len(fs) <= Len(gs) /\ Len(gs) <= Len(hs)
      BY <1>1, <1>2
    <3>3. QED
      BY <3>1, <3>2
  <2>2. \A i \in DOMAIN fs : fs[i].expired_at = NoTime <=> gs[i].expired_at = NoTime
    BY <1>3, <1>5 DEF Undisturbed, SameClaim
  <2>3. QED
    BY <2>1, <2>2 DEF Undisturbed
<1>6. QED
  BY <1>4, <1>5

(* Undisturbed facts keep their conflicts.                                 *)
LEMMA UndisturbedConflicts ==
    ASSUME NEW fs, NEW gs, FactsOK(fs), FactsOK(gs), Follows(fs, gs), Undisturbed(fs, gs), NEW predicate
    PROVE  SlotConflict(fs, predicate) <=> SlotConflict(gs, predicate)
<1>1. DOMAIN fs = DOMAIN gs
  BY DEF FactsOK, Undisturbed
<1>2. \A i \in DOMAIN fs : /\ gs[i].predicate = fs[i].predicate /\ gs[i].object = fs[i].object
                           /\ Active(fs[i]) <=> Active(gs[i])
  BY <1>1 DEF Follows, SameClaim, FactsOK, Undisturbed, Active
<1>3. ActiveFacts(fs) = ActiveFacts(gs) /\ ActiveFacts(fs) \subseteq DOMAIN fs
  BY <1>1, <1>2 DEF ActiveFacts
<1>4. \A i \in ActiveFacts(fs) : gs[i].predicate = fs[i].predicate /\ gs[i].object = fs[i].object
  BY <1>2, <1>3
<1>5. QED
  BY <1>3, <1>4 DEF SlotConflict

(* A report under way: what its audit has found so far.                   *)
Found(snapshot, audit, contradictions) ==
    /\ FactsOK(snapshot) /\ Follows(snapshot, facts)
    /\ audit \subseteq Singletons /\ IsFiniteSet(contradictions)
    /\ Undisturbed(snapshot, facts) =>
         (contradictions # {} <=> \E p \in Singletons \ audit : SlotConflict(snapshot, p))

Audited(r, audit, contradictions) == [r EXCEPT !.audit = audit, !.contradictions = contradictions]
(* The parts of a report after an audit.                                   *)
LEMMA PartsReplaced ==
    ASSUME NEW r, r \in WithParts(r), NEW audit, NEW contradictions
    PROVE  /\ Audited(r, audit, contradictions) \in WithParts(Audited(r, audit, contradictions))
           /\ Audited(r, audit, contradictions).kind = r.kind
           /\ Audited(r, audit, contradictions).snapshot = r.snapshot
           /\ Audited(r, audit, contradictions).audit = audit
           /\ Audited(r, audit, contradictions).contradictions = contradictions
BY DEF Audited, WithParts

(* A report that goes on while facts change. *)
LEMMA ReportGoesOn ==
    ASSUME ReportInv, FactsOK(facts), FactsOK(facts'), Follows(facts, facts'), report' = report
    PROVE  ReportInv'
<1>1. CASE report = NoReport
  BY <1>1 DEF ReportInv
<1>2. ASSUME FactsOK(report.snapshot), Follows(report.snapshot, facts)
      PROVE  /\ Follows(report.snapshot, facts')
             /\ Undisturbed(report.snapshot, facts') => Undisturbed(report.snapshot, facts)
  BY <1>2, FollowsOn
<1>3. CASE report.kind \in {"health", "task"}
  BY <1>2, <1>3 DEF ReportInv, NoReport
<1>4. CASE report.kind = "done"
  BY <1>2, <1>4 DEF ReportInv, NoReport
<1>5. QED
  BY <1>1, <1>3, <1>4 DEF ReportInv

(* It begins with nothing found and every predicate yet to be audited. *)
LEMMA ReportsBegin ==
    ASSUME FactsOK(facts)
    PROVE  Found(facts, Singletons, {})
<1>1. Follows(facts, facts)
  BY FollowsItself
<1>2. QED
  BY <1>1, FS_EmptySet DEF Found

(* An audit adds what there is in one slot.                                *)
LEMMA AuditStep ==
    ASSUME ReportInv, FactsOK(facts), NEW predicate \in Singletons, Audit(predicate)
    PROVE  ReportInv'
<1> DEFINE found == DetectContradictions(Singletons, facts, "entity", predicate)
           snapshot == report.snapshot
           audit == report.audit \ {predicate}
           contradictions == report.contradictions \cup found
<1>1. /\ report.kind \in {"health", "task"} /\ predicate \in report.audit /\ facts' = facts
      /\ report' = Audited(report, audit, contradictions)
  BY DEF Audit, Audited
<1>2. report \in WithParts(report) /\ Found(snapshot, report.audit, report.contradictions)
  BY <1>1 DEF ReportInv, NoReport, Found
<1>3. /\ report' \in WithParts(report')
      /\ report'.kind \in {"health", "task"} /\ report'.snapshot = snapshot
      /\ report'.audit = audit /\ report'.contradictions = contradictions
  <2> HIDE DEF audit, contradictions
  <2>1. QED
    BY <1>1, <1>2, PartsReplaced
<1>4. (found # {} <=> SlotConflict(facts, predicate)) /\ IsFiniteSet(found)
  BY DetectionFindsConflicts
<1> HIDE DEF found
<1>5. Found(snapshot, audit, contradictions)
  <2>1. audit \subseteq Singletons /\ IsFiniteSet(contradictions)
    BY <1>2, <1>4, FS_Union DEF Found
  <2>2. ASSUME Undisturbed(snapshot, facts)
        PROVE  contradictions # {} <=> \E p \in Singletons \ audit : SlotConflict(snapshot, p)
    <3>1. SlotConflict(snapshot, predicate) <=> SlotConflict(facts, predicate)
      BY <1>2, <2>2, UndisturbedConflicts DEF Found
    <3>2. report.contradictions # {} <=> \E p \in Singletons \ report.audit : SlotConflict(snapshot, p)
      BY <1>2, <2>2 DEF Found
    <3>3. Singletons \ audit = (Singletons \ report.audit) \cup {predicate}
      BY <1>1
    <3> HIDE DEF audit
    <3>4. QED
      BY <1>4, <3>1, <3>2, <3>3
  <2>3. QED
    BY <1>2, <2>1, <2>2 DEF Found
<1> HIDE DEF snapshot, audit, contradictions
<1>6. /\ FactsOK(snapshot) /\ Follows(snapshot, facts')
      /\ audit \subseteq Singletons /\ IsFiniteSet(contradictions)
      /\ Undisturbed(snapshot, facts') =>
           (contradictions # {} <=> \E p \in Singletons \ audit : SlotConflict(snapshot, p))
  BY <1>1, <1>5 DEF Found
<1>7. QED
  BY <1>3, <1>6 DEF ReportInv

(* The brief of a report says first to resolve contradictions exactly when *)
(* its audit has found some.                                               *)
LEMMA BriefsLead ==
    ASSUME NEW r, IsFiniteSet(r.contradictions)
    PROVE  /\ HealthBrief(r).recommended \in First <=> r.contradictions # {}
           /\ TaskBrief(r).recommended \in First <=> r.contradictions # {}
<1> DEFINE n == Cardinality(r.contradictions)
<1>1. n \in Nat /\ (n > 0 <=> r.contradictions # {})
  BY FS_CardinalityType, FS_EmptySet
<1> HIDE DEF n
<1>2. HealthBrief(r).recommended \in First <=> n > 0
  <2> DEFINE low == Low(r.snapshot, r.keys)
             counts == [low_confidence |-> Cardinality(low),
                        low_confidence_high_impact |-> Cardinality({i \in low : r.snapshot[i].predicate \in HighImpact}),
                        stale_high_impact |-> Cardinality(Stale(r.snapshot, r.keys)),
                        contradictions |-> n]
  <2>1. HealthBrief(r) = MemoryHealthBrief(counts)
    BY DEF HealthBrief, n
  <2>2. counts.contradictions = n
    OBVIOUS
  <2> HIDE DEF counts
  <2>3. QED
    BY <1>1, <2>1, <2>2, HealthLeads DEF First
<1>3. TaskBrief(r).recommended \in First <=> n > 0
  <2> DEFINE counts == [key_facts |-> Cardinality(r.keys), has_subject |-> TRUE,
                        low_confidence |-> Cardinality(Low(r.snapshot, r.keys)),
                        stale_high_impact |-> Cardinality(Stale(r.snapshot, r.keys)),
                        contradictions |-> n]
  <2>1. TaskBrief(r) = RecallForTaskBrief(counts)
    BY DEF TaskBrief, n
  <2>2. counts.contradictions = n /\ counts.has_subject
    OBVIOUS
  <2> HIDE DEF counts
  <2>3. QED
    BY <1>1, <2>1, <2>2, TaskLeads DEF First
<1>4. QED
  BY <1>1, <1>2, <1>3

(* The answer says what the audit has found.                               *)
LEMMA AnswerStep ==
    ASSUME ReportInv, Answer
    PROVE  ReportInv'
<1>1. /\ report.kind \in {"health", "task"} /\ report.audit = {} /\ facts' = facts
      /\ report'.kind = "done" /\ report'.snapshot = report.snapshot
      /\ report'.brief = IF report.kind = "health" THEN HealthBrief(report) ELSE TaskBrief(report)
  BY DEF Answer
<1>2. Found(report.snapshot, {}, report.contradictions)
  BY <1>1 DEF ReportInv, NoReport, Found
<1>3. report'.brief.recommended \in First <=> report.contradictions # {}
  BY <1>1, <1>2, BriefsLead DEF Found
<1>4. Undisturbed(report'.snapshot, facts') =>
        (report'.brief.recommended \in First <=> \E p \in Singletons : SlotConflict(report'.snapshot, p))
  BY <1>1, <1>2, <1>3 DEF Found
<1>5. FactsOK(report'.snapshot) /\ Follows(report'.snapshot, facts')
  BY <1>1, <1>2 DEF Found
<1>6. QED
  BY <1>1, <1>4, <1>5 DEF ReportInv

(* A new report has seen the facts as they are.                            *)
LEMMA BeginStep ==
    ASSUME FactsOK(facts), MemoryHealth \/ RecallForTask
    PROVE  ReportInv'
<1>1. \E kind \in {"health", "task"}, keys \in SUBSET ActiveFacts(facts) :
        report' = [kind |-> kind, snapshot |-> facts, keys |-> keys, at |-> clock,
                   audit |-> Singletons, contradictions |-> {}]
  BY DEF MemoryHealth, RecallForTask
<1>2. /\ report'.kind \in {"health", "task"} /\ report' \in WithParts(report')
      /\ report'.snapshot = facts /\ report'.audit = Singletons /\ report'.contradictions = {}
  BY <1>1 DEF WithParts
<1>3. facts' = facts
  BY DEF MemoryHealth, RecallForTask
<1>4. Found(facts, Singletons, {})
  BY ReportsBegin
<1>5. QED
  BY <1>2, <1>3, <1>4 DEF ReportInv, Found

(* Other steps leave a report as it is and can only disturb its facts.     *)
LEMMA ReportStep ==
    ASSUME WritesInv, ReportInv, [Next]_vars
    PROVE  ReportInv'
<1>1. FactsOK(facts) /\ FactsOK(facts') /\ Follows(facts, facts')
  BY WritesStep DEF WritesInv
<1>2. CASE MemoryHealth \/ RecallForTask
  BY <1>1, <1>2, BeginStep
<1>3. ASSUME NEW predicate \in Singletons, Audit(predicate) PROVE ReportInv'
  BY <1>1, <1>3, AuditStep
<1>4. CASE Answer
  BY <1>4, AnswerStep
<1>5. CASE Stop
  BY <1>5 DEF Stop, ReportInv
<1>6. CASE report' = report
  BY <1>1, <1>6, ReportGoesOn
<1>7. \/ MemoryHealth \/ RecallForTask \/ (\E predicate \in Singletons : Audit(predicate)) \/ Answer \/ Stop
      \/ report' = report
  BY DEF Next, vars, Tick, Open, RegisterNext, CallerRegisters, WhatChanged, AssertFact, InvalidateFact,
         CorrectFact, Enter, EndOld, BuildReplacement, StoreFact, WriteFails
<1>8. QED
  BY <1>2, <1>3, <1>4, <1>5, <1>6, <1>7

(* An answered report on facts that are still the same. *)
LEMMA ReportsAreRight ==
    ASSUME ReportInv
    PROVE  ContradictionsSurface
<1> SUFFICES ASSUME report.kind = "done", report.snapshot = facts
             PROVE  (\E i, j \in ActiveFacts(facts) :
                       /\ facts[i].predicate = facts[j].predicate /\ facts[i].predicate \in Singletons
                       /\ facts[i].object # facts[j].object)
                    <=> report.brief.recommended \in First
  BY DEF ContradictionsSurface, First
<1>1. report.brief.recommended \in First <=> \E p \in Singletons : SlotConflict(facts, p)
  BY DEF ReportInv, NoReport, Undisturbed
<1>2. QED
  BY <1>1 DEF SlotConflict

-----------------------------------------------------------------------------
IInv == WritesInv /\ CorrectionsInv /\ NothingMissed /\ OpeningInv /\ ReportInv

(* The invariant of AgentMemory: what was given, built and stored fits     *)
(* together, in every state of every behaviour.                            *)
THEOREM MemoryInvariant == Spec => []IInv
<1>1. Init => IInv
  BY InitWrites, InitCorrections, InitPolls, InitOpening, InitReports DEF IInv
<1>2. IInv /\ [Next]_vars => IInv'
  BY WritesStep, CorrectionsStep, PollsStep, OpeningStep, ReportStep DEF IInv
<1>3. QED
  BY <1>1, <1>2, PTL DEF Spec

(* An agent that polls what_changed with the time of its last poll is told *)
(* of every fact and every end, unless the write was stamped before a poll *)
(* and stored after it.                                                    *)
THEOREM PollsMissNothing == Spec => []NothingMissed
<1>1. IInv => NothingMissed
  BY DEF IInv
<1>2. QED
  BY <1>1, MemoryInvariant, PTL

(* A correction that is the only end of its predicate at its instant is    *)
(* reported as the pair it was, whatever threads stored in between.        *)
THEOREM CorrectionsAreReported == Spec => []CorrectionsPaired
<1>1. IInv => CorrectionsPaired
  BY PairIsReported DEF IInv
<1>2. QED
  BY <1>1, MemoryInvariant, PTL

(* A report during which nothing changed puts contradictions first exactly *)
(* when two current facts claim different values of a singleton predicate. *)
THEOREM ReportsTellContradictions == Spec => []ContradictionsSurface
<1>1. IInv => ContradictionsSurface
  BY ReportsAreRight DEF IInv
<1>2. QED
  BY <1>1, MemoryInvariant, PTL

(* Opening, however often it is cut short, ends with every default in      *)
(* place and never overrides what a caller has registered.                 *)
THEOREM DefaultsAreKept == Spec => DefaultsKept
<1>1. IInv /\ [Next]_vars =>
        [/\ \A e \in DOMAIN registry : registry[e] = "caller" => registry'[e] = "caller"
         /\ mode' = "open" => \A e \in DOMAIN registry : registry'[e] # "none"]_vars
  BY DefaultsStep DEF IInv
<1>2. QED
  BY <1>1, MemoryInvariant, PTL DEF Spec, DefaultsKept
====
