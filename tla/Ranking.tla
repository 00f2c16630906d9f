---- MODULE Ranking ----
(***************************************************************************)
(* Hybrid retrieval (hybrid.rs, the fusion in temporal_graph.rs) and the   *)
(* effective confidence it asks for (uncertainty.rs), as operators on      *)
(* sequences.  Numbers are integers in fixed units: a confidence is in     *)
(* percent, a channel's contribution in 10^-6, a score in 10^-8.           *)
(* Exponential decay is kept at whole half-lives and constant in between.  *)
(***************************************************************************)
EXTENDS Integers, Sequences, FiniteSets

CONSTANTS
    RankConstant,    \* HybridSearchParams::rank_constant
    TextWeight,      \* text_weight and vector_weight, in tenths
    VectorWeight,
    StageOneTimeless, \* candidates kept by stage 1, by intent
    StageOneTemporal,
    SampleSize,      \* candidates whose signals choose the timeless weights
    HalfWindow,      \* half the window of an interval query
    NoTime           \* a valid_to or expired_at that is None

ASSUME WeightsAssumption == TextWeight \in Nat /\ VectorWeight \in Nat
ASSUME RankConstantAssumption == RankConstant \in Nat \ {0}
ASSUME StagesAssumption == {StageOneTimeless, StageOneTemporal} \subseteq Nat

Intents == {"timeless", "current", "point", "interval"}
Operators == {"current", "as_of", "before", "by", "during", "after", "unknown"}

LeastOf(a, b) == IF a < b THEN a ELSE b
GreatestOf(a, b) == IF a > b THEN a ELSE b
Clamp(x, low, high) == GreatestOf(low, LeastOf(x, high))
Truncate(s, n) == SubSeq(s, 1, LeastOf(n, Len(s)))

(* Iterator::filter: the elements that are in S, in their order. *)
Keep(s, S) ==
    LET kept[n \in 0..Len(s)] ==
            IF n = 0 THEN <<>>
            ELSE IF s[n] \in S THEN Append(kept[n - 1], s[n]) ELSE kept[n - 1]
    IN  kept[Len(s)]

-----------------------------------------------------------------------------
(* Facts on the two time axes. *)
EndsAfter(end, t) == end = NoTime \/ end > t
IsCurrentlyValid(fact) == fact.valid_to = NoTime /\ fact.expired_at = NoTime
WasValidAt(fact, t) ==
    /\ fact.valid_from <= t
    /\ EndsAfter(fact.valid_to, t)
    /\ EndsAfter(fact.expired_at, t)

(* Uncertainty: a half-life of 0 stands for a predicate that never decays. *)
Halved == <<100, 50, 25, 12, 6, 3, 1, 0>> \* percent left, by half-lives passed
AgeDecay(age, halfLife) ==
    IF halfLife = 0 THEN 100
    ELSE Halved[1 + LeastOf(GreatestOf(age, 0) \div halfLife, Len(Halved) - 1)]
EffectiveConfidence(fact, t) ==
    Clamp((fact.confidence * AgeDecay(t - fact.valid_from, fact.half_life)
             * fact.source_weight) \div 10000, 0, 100)

-----------------------------------------------------------------------------
(* Temporal signal of a fact, in 10^-4. *)
Overlaps(fact, t) ==
    /\ fact.valid_from < t + HalfWindow
    /\ IF fact.valid_to = NoTime THEN TRUE ELSE fact.valid_to > t - HalfWindow

PointSignal(fact, op, t, conf) ==
    CASE op \in {"as_of", "during"} -> IF WasValidAt(fact, t) THEN 100 * conf ELSE -10000
      [] op = "before" -> IF fact.valid_from >= t THEN -10000
                          ELSE IF WasValidAt(fact, t) THEN 110 * conf ELSE 30 * conf
      [] op = "by" -> IF fact.valid_from > t THEN -10000
                      ELSE IF WasValidAt(fact, t) THEN 105 * conf ELSE 20 * conf
      [] op = "after" -> IF fact.valid_from > t THEN 100 * conf ELSE -8000
      [] op = "current" -> IF IsCurrentlyValid(fact) THEN 90 * conf ELSE -8000
      [] op = "unknown" -> IF WasValidAt(fact, t) THEN 90 * conf ELSE -8000

TemporalSignal(fact, intent, op, t) ==
    LET conf == Clamp(EffectiveConfidence(fact, t), 20, 100)
        recency == AgeDecay(t - fact.valid_from, fact.half_life)
        validity == IF IsCurrentlyValid(fact) THEN 1 ELSE -1
    IN  CASE intent = "timeless" -> 0
          [] intent = "current" -> validity * (50 + recency \div 2) * conf
          [] intent = "point" -> PointSignal(fact, op, t, conf)
          [] intent = "interval" -> IF Overlaps(fact, t) THEN 100 * conf ELSE -10000

-----------------------------------------------------------------------------
(* A hit is an id with the contributions of the two channels.              *)
Final(h) == h.text + h.vector
SemanticCore(h) == 75 * h.vector + 25 * h.text + 2 * Final(h)

(* sort_by a key, highest first, equal keys by id. *)
Ahead(hits, key, i, j) ==
    key[i] > key[j] \/ (key[i] = key[j] /\ hits[i].id < hits[j].id)
SortHits(hits, key) ==
    LET Place(n) == CHOOSE i \in DOMAIN hits :
                        Cardinality({j \in DOMAIN hits : Ahead(hits, key, j, i)}) = n - 1
    IN  [n \in DOMAIN hits |-> hits[Place(n)]]

Contribution(weight, ids, id) ==
    LET rank == {i \in DOMAIN ids : ids[i] = id}
    IN  IF rank = {} THEN 0
        ELSE (weight * 100000) \div (RankConstant + (CHOOSE i \in rank : TRUE))

(* Reciprocal rank fusion.  Hits come out of a HashMap: arrival is the     *)
(* order in which it happens to hand them out.                             *)
Fuse(textIds, vectorIds, arrival, window) ==
    LET hits == [i \in DOMAIN arrival |->
                   [id |-> arrival[i],
                    text |-> Contribution(TextWeight, textIds, arrival[i]),
                    vector |-> Contribution(VectorWeight, vectorIds, arrival[i])]]
    IN  Truncate(SortHits(hits, [i \in DOMAIN hits |-> Final(hits[i])]), window)

(* Weights of the vector and text channels, by which of them dominates.    *)
SumOf(hits, channel, n) ==
    LET sum[i \in 0..n] == IF i = 0 THEN 0 ELSE sum[i-1] + hits[i][channel]
    IN  sum[n]
TimelessWeights(hits) ==
    LET n == LeastOf(SampleSize, Len(hits))
        vector == SumOf(hits, "vector", n)
        both == vector + SumOf(hits, "text", n)
    IN  IF 100 * vector > 60 * both THEN <<90, 10>>
        ELSE IF 100 * vector > 50 * both THEN <<75, 25>>
        ELSE <<60, 40>>

RerankTimeless(hits, k) ==
    LET w == TimelessWeights(hits)
        score == [i \in DOMAIN hits |->
                    w[1] * hits[i].vector + w[2] * hits[i].text + 2 * Final(hits[i])]
    IN  Truncate(SortHits(hits, score), k)

(* Keep the feasible hits, or all of them when none is. *)
Feasible(hits, signal) ==
    LET feasible == Keep(hits, {h \in {hits[i] : i \in DOMAIN hits} : signal[h.id] > 0})
    IN  IF feasible = <<>> THEN hits ELSE feasible
SignalWeight(intent) ==
    CASE intent = "current" -> 10 [] intent = "point" -> 22 [] intent = "interval" -> 20

RerankTemporal(hits, k, intent, signal) ==
    LET kept == Feasible(hits, signal)
        score == [i \in DOMAIN kept |->
                    SemanticCore(kept[i]) + SignalWeight(intent) * 100 * signal[kept[i].id]]
    IN  Truncate(SortHits(kept, score), k)

(* rerank_two_stage_with_uncertainty; facts gives each hit's fact. *)
Rerank(hits, facts, k, intent, op, t) ==
    LET core == [i \in DOMAIN hits |-> SemanticCore(hits[i])]
        pruned == Truncate(SortHits(hits, core),
                    IF intent = "timeless" THEN StageOneTimeless ELSE StageOneTemporal)
        signal == [id \in {pruned[i].id : i \in DOMAIN pruned} |->
                     TemporalSignal(facts[id], intent, op, t)]
    IN  IF intent = "timeless" THEN RerankTimeless(pruned, k)
        ELSE RerankTemporal(pruned, k, intent, signal)
====
