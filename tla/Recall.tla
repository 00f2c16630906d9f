---- MODULE Recall ----
(***************************************************************************)
(* Recall over a store that other threads write (recall_* and              *)
(* recall_for_task of agent_memory.rs, search_hybrid and search_by_vector  *)
(* of temporal_graph.rs).  One call is followed from its options to its    *)
(* answer.  A text search reads one snapshot of the facts; a hybrid one    *)
(* takes the state mutex and the vector index one after the other, so      *)
(* that writes fall in between.                                            *)
(*                                                                         *)
(* textRank and similar stand for the two scores of the query: the facts   *)
(* that match it by BM25 and by cosine similarity, best first.  BM25       *)
(* depends on the whole corpus, so that a new fact may reorder textRank at *)
(* will; a cosine depends on the entry alone.                              *)
(***************************************************************************)
EXTENDS Ranking, SequencesExt

CONSTANTS
    MaxFacts,       \* bound on the facts of the store
    Embedded,       \* ids that may have an embedding
    Shapes,         \* facts a caller asserts: subject, confidence, ...
    Scenarios,      \* the facts of a store, a call on it (its kind, limit, path,
                    \* rows (max_scored_rows), intent, op) and a bound on the
                    \* writes that fall into the call
    Threshold,      \* min_confidence
    DefaultMaxRows, \* DEFAULT_MAX_SCORED_ROWS
    Window,         \* candidate_window
    Now             \* the call runs within one tick of the clock

(* A fact as it is asserted, and as it is stored. *)
Shape == [subject : STRING, confidence : Nat, valid_from : Int, half_life : Nat, source_weight : Nat]
StoredFact ==
    [subject : STRING, confidence : Nat, valid_from : Int, half_life : Nat, source_weight : Nat,
     valid_to : {NoTime, Now}, expired_at : {NoTime, Now}]
CallOptions ==
    [path : {"text", "hybrid", "vector"}, kind : {"plain", "base", "effective", "task"},
     limit : Nat, rows : Nat, intent : Intents, op : Operators]

ASSUME BoundsAssumption == MaxFacts \in Nat /\ Now \in Int /\ NoTime \notin Int
ASSUME ScenariosAssumption ==
    /\ Shapes \subseteq Shape
    /\ \A s \in Scenarios :
          /\ s.facts \in Seq(StoredFact) /\ Len(s.facts) <= MaxFacts
          /\ s.call \in CallOptions /\ s.writes \in Nat
          /\ s.call.path = "vector" => s.call.kind = "plain"
ASSUME RowsAssumption == DefaultMaxRows \in Nat \ {0} /\ Window \in Nat \ {0}

VARIABLES
    facts,     \* the stored facts, by id
    textRank,  \* ids the query matches, by BM25
    similar,   \* ids in the vector index, by similarity to the query
    unindexed, \* stored, embedding not yet in the vector index
    writes,    \* writes that may still fall into the call
    pc,        \* step of the call
    call,      \* its options, chosen at the outset
    loop,      \* its fetch limit, ids seen and found, fruitless batches
    hybrid,    \* what a hybrid search has gathered
    answer,    \* ids returned
    \* For the properties.
    current,   \* ids that were current at some moment of the call
    indexed,   \* ids that the index held when the call began
    quiet      \* no write since the call began

store   == <<facts, textRank, similar, unindexed, writes>>
working == <<call, loop, hybrid, answer>>
ghost   == <<current, indexed, quiet>>
vars    == <<store, pc, working, ghost>>

Ids == DOMAIN facts
Working == pc \notin {"idle", "done", "error"}
IdsOf(s) == {s[i] : i \in DOMAIN s}
Current == {id \in Ids : IsCurrentlyValid(facts[id])}
Arrangements(S) ==
    UNION {{s \in [1..n -> S] : \A i, j \in 1..n : i # j => s[i] # s[j]} : n \in 0..Cardinality(S)}
Fact(shape) ==
    [subject |-> shape.subject, confidence |-> shape.confidence, valid_from |-> shape.valid_from,
     half_life |-> shape.half_life, source_weight |-> shape.source_weight,
     valid_to |-> NoTime, expired_at |-> NoTime]
Ended(fact) == [fact EXCEPT !.valid_to = Now, !.expired_at = Now]

Calls == {s.call : s \in Scenarios}
NoLoop == [fetch |-> 0, seen |-> {}, found |-> <<>>, misses |-> 0]
NoHybrid == [texts |-> <<>>, allowed |-> {}, hits |-> <<>>, fused |-> <<>>, resolved |-> <<>>]
Steps == {"idle", "fetch", "text", "allow", "hits", "fuse", "resolve", "rerank", "done", "error"}

TypeOK ==
    /\ DOMAIN facts = 1..Len(facts) /\ Len(facts) <= MaxFacts
    /\ \A id \in Ids : facts[id].valid_to \in {NoTime, Now}
    /\ IsInjective(textRank) /\ IdsOf(textRank) \subseteq Ids
    /\ IsInjective(similar) /\ IdsOf(similar) \subseteq Ids \ unindexed
    /\ unindexed \subseteq Ids
    /\ pc \in Steps
    /\ call \in Calls
    /\ loop.fetch \in Nat /\ loop.seen \subseteq Ids /\ IdsOf(loop.found) \subseteq loop.seen
    /\ IsInjective(answer) /\ IdsOf(answer) \subseteq Ids
    /\ indexed \subseteq Ids /\ current \subseteq Ids /\ quiet \in BOOLEAN

Init ==
    /\ \E s \in Scenarios : facts = s.facts /\ call = s.call /\ writes = s.writes
    /\ textRank \in {s \in Arrangements(Ids) : \A i, j \in DOMAIN s : i < j => s[i] < s[j]} \* ids named in this order
    /\ IF call.path = "text" THEN similar = <<>> ELSE similar \in Arrangements(DOMAIN facts \cap Embedded)
    /\ unindexed \in SUBSET (IF call.path = "text" THEN {} ELSE (DOMAIN facts \cap Embedded) \ IdsOf(similar))
    /\ pc = "idle" /\ loop = NoLoop /\ hybrid = NoHybrid /\ answer = <<>>
    /\ current = {} /\ indexed = {} /\ quiet = TRUE

-----------------------------------------------------------------------------
(* The writers: a fact with or without an embedding, or the end of one.    *)
Observe(added) ==
    /\ Working
    /\ writes > 0 /\ writes' = writes - 1
    /\ current' = current \cup added
    /\ quiet' = FALSE
    /\ UNCHANGED <<pc, working, indexed>>

AssertFact(shape, embedded) ==
    LET id == Len(facts) + 1
    IN  /\ id <= MaxFacts /\ (embedded => id \in Embedded)
        /\ facts' = Append(facts, Fact(shape))
        /\ textRank' \in Arrangements(1..id)
        /\ unindexed' = IF embedded THEN unindexed \cup {id} ELSE unindexed
        /\ Observe({id})
        /\ UNCHANGED similar

(* assert_fact_with_embedding updates the index after the stored write. *)
InsertVector(id) ==
    /\ id \in unindexed
    /\ \E i \in 1..Len(similar) + 1 : similar' = InsertAt(similar, i, id)
    /\ unindexed' = unindexed \ {id}
    /\ UNCHANGED <<facts, textRank, writes, pc, working, ghost>>

EndFact(id) ==
    /\ facts' = [facts EXCEPT ![id] = Ended(@)]
    /\ Observe({})
    /\ UNCHANGED <<textRank, similar, unindexed>>

-----------------------------------------------------------------------------
(* The call. *)
Refused(c) ==
    \/ c.kind = "task" /\ c.limit = 0
    \/ c.kind \in {"base", "effective"} /\ c.limit > 0 /\ c.rows = 0
    \/ c.kind = "plain" /\ c.path = "hybrid" /\ c.limit = 0
FirstFetch(c) ==
    CASE c.kind = "plain" -> c.limit
      [] c.kind = "task" -> LeastOf(c.limit, DefaultMaxRows)
      [] OTHER -> IF c.path = "hybrid" THEN c.rows ELSE LeastOf(c.limit, c.rows)

FirstStep(path) == CASE path = "text" -> "fetch" [] path = "hybrid" -> "text" [] path = "vector" -> "allow"

Begin ==
    /\ pc = "idle"
    /\ pc' = IF Refused(call) THEN "error" ELSE IF call.limit = 0 THEN "done" ELSE FirstStep(call.path)
    /\ loop' = [NoLoop EXCEPT !.fetch = FirstFetch(call)]
    /\ current' = Current /\ indexed' = IdsOf(similar) /\ quiet' = TRUE
    /\ UNCHANGED <<store, call, hybrid, answer>>

Passes(fact) ==
    CASE call.kind = "base" -> fact.confidence >= Threshold
      [] call.kind = "effective" -> EffectiveConfidence(fact, Now) >= Threshold
      [] call.kind = "task" -> fact.subject = "task"
      [] call.kind = "plain" -> TRUE
Passing == {id \in Ids : Passes(facts[id])}

(* Rows the whole call may look at. *)
Budget(c) == IF c.kind = "task" THEN DefaultMaxRows ELSE c.rows
Finish(ids) == answer' = ids /\ pc' = "done" /\ UNCHANGED loop

(* Mutant: the only end of the loop is a short batch. *)
LastBatchShortOnly(scored, fresh) == Len(scored) < loop.fetch

(* Mutant: one batch without a passing fact is enough to give up. *)
LastBatchGivesUp(scored, fresh) ==
    \/ LastBatchShortOnly(scored, fresh)
    \/ loop.fetch >= Budget(call)
    \/ loop.misses = 1

(* The result set or the budget is used up. *)
LastBatch(scored, fresh) ==
    \/ call.kind # "task" /\ fresh = <<>>
    \/ loop.fetch >= Budget(call)
    \/ Len(scored) < loop.fetch

(* Mutant: the ids seen are forgotten. *)
NextBatchForgets(fresh, passing) ==
    /\ loop' = [fetch |-> LeastOf(2 * loop.fetch, Budget(call)), seen |-> {},
                found |-> loop.found \o passing, misses |-> 0]
    /\ pc' = FirstStep(call.path)
    /\ UNCHANGED answer

(* The next, larger batch: after two fruitless ones the whole budget. *)
NextBatch(fresh, passing) ==
    LET misses == IF passing = <<>> THEN loop.misses + 1 ELSE 0
        doubled == LeastOf(2 * loop.fetch, Budget(call))
    IN  /\ loop' = [fetch |-> IF call.kind # "task" /\ misses = 2 THEN Budget(call) ELSE doubled,
                    seen |-> loop.seen \cup IdsOf(fresh),
                    found |-> loop.found \o passing,
                    misses |-> LeastOf(misses, 2)]
        /\ pc' = FirstStep(call.path)
        /\ UNCHANGED answer

(* What the loops of recall_scored_with_options and recall_for_task do     *)
(* with a batch of current facts.                                          *)
Batch(scored) ==
    LET fresh == Keep(scored, Ids \ loop.seen)
        passing == Keep(fresh, Passing)
        found == loop.found \o passing
    IN  IF call.kind = "plain" THEN Finish(scored)
        ELSE IF call.kind # "task" /\ call.path = "hybrid" THEN Finish(Truncate(passing, call.limit))
        ELSE IF scored = <<>> THEN Finish(loop.found)
        ELSE IF Len(found) >= call.limit THEN Finish(Truncate(found, call.limit))
        ELSE IF LastBatch(scored, fresh) THEN Finish(found)
        ELSE NextBatch(fresh, passing)

(* Mutant: facts that have ended are returned, too. *)
StillCurrentAny(ids, resolved) == ids

(* recall_scored_internal drops the facts that have ended. *)
StillCurrent(ids, resolved) == Keep(ids, {id \in DOMAIN resolved : IsCurrentlyValid(resolved[id])})

FetchText ==
    /\ pc = "fetch"
    /\ Batch(StillCurrent(Truncate(textRank, loop.fetch), facts))
    /\ UNCHANGED <<store, call, hybrid, ghost>>

-----------------------------------------------------------------------------
(* search_hybrid: the text channel, the vector channel under two locks,    *)
(* fusion, each fact looked up by id, reranking.                           *)
Transition(from, to) == pc = from /\ pc' = to /\ UNCHANGED <<store, call, loop, answer, ghost>>

TextChannel ==
    /\ Transition("text", "allow")
    /\ hybrid' = [NoHybrid EXCEPT !.texts = Truncate(textRank, Window)]

AllowSet ==
    /\ Transition("allow", "hits")
    /\ hybrid' = [hybrid EXCEPT !.allowed = Current]

(* Mutant: the best entries are taken before the filter. *)
TopAllowedLate(ids, allowed, k) ==
    Keep(Truncate(ids, k), allowed)

(* VectorIndex::search: the k most similar of the allowed entries. *)
TopAllowed(ids, allowed, k) ==
    Truncate(Keep(ids, allowed), k)

HybridHits ==
    /\ call.path = "hybrid"
    /\ Transition("hits", "fuse")
    /\ hybrid' = [hybrid EXCEPT !.hits = TopAllowed(similar, hybrid.allowed, Window)]

(* search_by_vector on its own answers with the copies AllowSet took. *)
VectorAnswer ==
    /\ call.path = "vector" /\ pc = "hits"
    /\ Finish(TopAllowed(similar, hybrid.allowed, call.limit))
    /\ UNCHANGED <<store, call, hybrid, ghost>>

Orders(S) == {s \in Arrangements(S) : Len(s) = Cardinality(S)}
Candidates == IdsOf(hybrid.texts) \cup IdsOf(hybrid.hits)

FuseHits ==
    /\ Transition("fuse", "resolve")
    /\ \E arrival \in Orders(Candidates) :
         hybrid' = [hybrid EXCEPT !.fused = Fuse(hybrid.texts, hybrid.hits, arrival, Window)]

(* fact_by_id of each fused hit, a lock each. *)
Resolve ==
    LET got == DOMAIN hybrid.resolved
        id == hybrid.fused[Cardinality(got) + 1].id
    IN  /\ Cardinality(got) < Len(hybrid.fused)
        /\ Transition("resolve", "resolve")
        /\ hybrid' = [hybrid EXCEPT !.resolved =
                         [i \in got \cup {id} |-> IF i \in got THEN hybrid.resolved[i] ELSE facts[i]]]

RerankHits ==
    LET ranked == Rerank(hybrid.fused, hybrid.resolved, IF call.kind = "plain" THEN call.limit ELSE loop.fetch,
                         call.intent, call.op, Now)
        ids == [i \in DOMAIN ranked |-> ranked[i].id]
    IN  /\ pc = "resolve" /\ DOMAIN hybrid.resolved = {h.id : h \in IdsOf(hybrid.fused)}
        /\ Batch(StillCurrent(ids, hybrid.resolved))
        /\ UNCHANGED <<store, call, hybrid, ghost>>

CallStep ==
    \/ FetchText \/ TextChannel \/ AllowSet \/ HybridHits \/ VectorAnswer
    \/ FuseHits \/ Resolve \/ RerankHits

(* The caller has its answer. *)
Returned == pc \in {"done", "error"} /\ UNCHANGED vars

Next ==
    \/ Begin
    \/ CallStep
    \/ Returned
    \/ \E shape \in Shapes, embedded \in BOOLEAN : AssertFact(shape, embedded)
    \/ \E id \in Ids : InsertVector(id) \/ EndFact(id)

Spec == Init /\ [][Next]_vars

(* The thread of the call runs on.  The second conjunct is WF_vars(CallStep) *)
(* for the calls over the index, with "working" in the place of ENABLED,    *)
(* which TLC is slow to evaluate for a ranking: none of their steps leaves  *)
(* the state as it is, and were one stuck TLC would report a deadlock.      *)
Fairness ==
    /\ WF_vars(FetchText)
    /\ []<>(~Working \/ pc = "fetch") \/ []<><<CallStep>>_vars
FairSpec == Spec /\ Fairness

-----------------------------------------------------------------------------
(* A recall returns each fact once, over all its batches, only facts that  *)
(* were current at some moment of the call, and only facts that pass its   *)
(* filter, whatever is asserted or ended between its batches and locks.    *)
ReturnedWereCurrent ==
    pc = "done" => IsInjective(answer) /\ IdsOf(answer) \subseteq current \cap Passing

FilteredAnswer ==
    Truncate(Keep(Truncate(textRank, Budget(call)), Passing), call.limit)

(* With nobody writing, and no ended fact among the matches, the loop over *)
(* growing batches gives what one scan of the whole budget would: the      *)
(* first limit facts of the ranking that pass the filter.                  *)
RecallComplete ==
    pc = "done" /\ quiet /\ call.path = "text" /\ call.kind # "plain" /\ IdsOf(textRank) \subseteq Current
        => answer = FilteredAnswer

(* A batch that is shorter than asked for ends the loop: "we've reached    *)
(* the end of the result set" (agent_memory.rs:1421-1422).                 *)
ShortOnlyAtTheEnd ==
    pc = "done" /\ quiet /\ call.path = "text" /\ call.kind # "plain" /\ Len(answer) < call.limit
        => \A id \in IdsOf(Truncate(textRank, Budget(call))) :
             id \in Current /\ Passes(facts[id]) => id \in IdsOf(answer)

(* A vector search misses no embedded fact whose assertion had returned    *)
(* before the call and that is still current, unless k others are closer.  *)
VectorSearchComplete ==
    /\ pc = "fuse" /\ Len(hybrid.hits) < Window => indexed \cap Current \subseteq IdsOf(hybrid.hits)
    /\ pc = "done" /\ call.path = "vector" /\ Len(answer) < call.limit =>
         indexed \cap Current \subseteq IdsOf(answer)

(* Every call returns, however the store changes under it. *)
CallReturns == pc # "idle" ~> pc \in {"done", "error"}
====
