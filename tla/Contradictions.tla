---- MODULE Contradictions ----
(***************************************************************************)
(* The contradiction engine (contradiction.rs and detect_* of              *)
(* temporal_graph.rs) as operators on facts and sequences of facts.        *)
(* A confidence is in percent, a time in seconds.                          *)
(***************************************************************************)
EXTENDS Integers, Sequences, FiniteSets

CONSTANTS
    NoTime,      \* a valid_to or expired_at that is None
    MaxTime,     \* KronroeTimestamp::MAX, where an open interval ends
    ThirtyOneDays,  \* the least overlap of more than thirty whole days
    OneHour

Policies == {"Allow", "Warn", "Reject"}
Severities == {"Low", "Medium", "High"}

Earliest(a, b) == IF a < b THEN a ELSE b
Latest(a, b) == IF a > b THEN a ELSE b
Distance(a, b) == Latest(a, b) - Earliest(a, b)
End(fact) == IF fact.valid_to = NoTime THEN MaxTime ELSE fact.valid_to

(* Two half-open intervals, neither of a fact taken back. *)
ValidTimeOverlap(a, b) ==
    /\ a.expired_at = NoTime /\ b.expired_at = NoTime
    /\ a.valid_from < End(b) /\ b.valid_from < End(a)
OverlapStart(a, b) == Latest(a.valid_from, b.valid_from)
OverlapEnd(a, b) == Earliest(End(a), End(b))

(* Of two kinds, or of one kind and different. *)
ValuesConflict(a, b) == a # b

Encloses(a, b) == a.valid_from <= b.valid_from /\ End(a) >= End(b)
Severity(a, b) ==
    IF Encloses(a, b) \/ Encloses(b, a) THEN "High"
    ELSE IF OverlapEnd(a, b) = MaxTime \/ OverlapEnd(a, b) - OverlapStart(a, b) >= ThirtyOneDays
         THEN "Medium" ELSE "Low"

Resolution(a, b) ==
    IF Distance(a.confidence, b.confidence) >= 30
    THEN <<"InvalidateOlderFact", IF a.confidence < b.confidence THEN a.id ELSE b.id>>
    ELSE IF Distance(a.recorded_at, b.recorded_at) > OneHour
    THEN <<"CloseOlderFact", IF a.recorded_at < b.recorded_at THEN a.id ELSE b.id>>
    ELSE <<"ManualReview", 0>>

(* Mutant: two claims of the same value count. *)
DetectPairwiseAnyValue(a, b) ==
    a.subject = b.subject /\ a.predicate = b.predicate /\ ValidTimeOverlap(a, b)

DetectPairwise(a, b) ==
    /\ a.subject = b.subject /\ a.predicate = b.predicate
    /\ ValuesConflict(a.object, b.object)
    /\ ValidTimeOverlap(a, b)
Contradiction(a, b) ==
    [existing |-> a.id, conflicting |-> b.id, severity |-> Severity(a, b),
     start |-> OverlapStart(a, b), end |-> OverlapEnd(a, b),
     confidence_delta |-> Distance(a.confidence, b.confidence),
     resolution |-> Resolution(a, b)]

(* ContradictionDetector::check_against. *)
CheckAgainst(singletons, new, existing) ==
    IF new.predicate \notin singletons THEN {}
    ELSE {Contradiction(existing[i], new) : i \in {i \in DOMAIN existing : DetectPairwise(existing[i], new)}}

(* detect_contradictions: each pair of one subject and predicate, once.    *)
Among(facts, ids) ==
    LET pairs == {p \in ids \X ids : p[1] < p[2] /\ DetectPairwise(facts[p[1]], facts[p[2]])}
    IN  {Contradiction(facts[p[1]], facts[p[2]]) : p \in pairs}
Slot(facts, subject, predicate) ==
    {i \in DOMAIN facts : /\ facts[i].subject = subject /\ facts[i].predicate = predicate
                          /\ facts[i].expired_at = NoTime}
DetectContradictions(singletons, facts, subject, predicate) ==
    IF predicate \notin singletons THEN {} ELSE Among(facts, Slot(facts, subject, predicate))

(* detect_all_contradictions: the facts of registered predicates, grouped. *)
DetectAllContradictions(singletons, facts) ==
    Among(facts, {i \in DOMAIN facts : facts[i].expired_at = NoTime /\ facts[i].predicate \in singletons})
====
