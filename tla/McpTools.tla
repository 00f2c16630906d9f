---- MODULE McpTools ----
(***************************************************************************)
(* The arguments of the MCP tools (main.rs, built with every feature):     *)
(* what each input schema declares and what each handler refuses before it *)
(* touches the memory.  The arguments of a call are a function from the    *)
(* fields given to classes of JSON values; a field left out of the domain  *)
(* is not given.                                                           *)
(***************************************************************************)
EXTENDS Integers, Sequences

(* A text, an RFC 3339 time, a name of the enumeration in its letters and  *)
(* in others, and a text longer than every limit.                          *)
Texts == {"text", "time", "choice", "CHOICE", "long"}
(* Integers and fractions, by the bounds they keep: "many" is at most 200, *)
(* "huge" more; "vast" is finite as 64 bits and not as 32.                 *)
Positive == {"one", "many", "huge"}
Unsigned == Positive \cup {"zero"}
Whole    == Unsigned \cup {"negative"}
Numbers  == Whole \cup {"half", "vast"}
Shares   == {"zero", "half", "one"}
Lists    == {"vector", "widevector", "emptylist", "textlist"}
JsonClasses == Texts \cup Numbers \cup Lists \cup {"true", "false", "object", "null"}

Given(a, field)      == field \in DOMAIN a
Is(a, field, S)      == Given(a, field) /\ a[field] \in S
Spoils(a, field, S)  == Given(a, field) /\ a[field] \notin S

-----------------------------------------------------------------------------
(* The schemas: required fields and the classes each field declares.       *)
Required ==
    [remember |-> {"text"}, recall |-> {"query"}, assemble_context |-> {"query", "max_tokens"},
     facts_about |-> {"entity"}, assert_fact |-> {"subject", "predicate", "object"},
     correct_fact |-> {"fact_id", "new_value"}, invalidate_fact |-> {"fact_id"},
     what_changed |-> {"entity", "since"}, memory_health |-> {"entity"}, recall_for_task |-> {"task"}]
Tools == DOMAIN Required

Embedding == {"vector", "widevector", "emptylist"}
Declared ==
    [remember |-> [text |-> Texts, episode_id |-> Texts, idempotency_key |-> Texts,
                   query_embedding |-> Embedding],
     recall |-> [query |-> Texts, limit |-> {"one", "many"}, min_confidence |-> Shares,
                 confidence_filter_mode |-> {"choice"}, include_scores |-> {"true", "false"},
                 max_scored_rows |-> Positive, query_embedding |-> Embedding,
                 use_hybrid |-> {"true", "false"}, temporal_intent |-> {"choice"},
                 temporal_operator |-> {"choice"}],
     assemble_context |-> [query |-> Texts, max_tokens |-> Positive, query_embedding |-> Embedding],
     facts_about |-> [entity |-> Texts],
     assert_fact |-> [subject |-> Texts, predicate |-> Texts, object |-> JsonClasses,
                      valid_from |-> Texts, confidence |-> Numbers, source |-> Texts,
                      idempotency_key |-> Texts],
     correct_fact |-> [fact_id |-> Texts, new_value |-> JsonClasses],
     invalidate_fact |-> [fact_id |-> Texts],
     what_changed |-> [entity |-> Texts, since |-> Texts, predicate |-> Texts],
     memory_health |-> [entity |-> Texts, predicate |-> Texts, low_confidence_threshold |-> Shares,
                        stale_after_days |-> Unsigned],
     recall_for_task |-> [task |-> Texts, subject |-> Texts, now |-> Texts, horizon_days |-> Positive,
                          limit |-> {"one", "many"}, query_embedding |-> Embedding,
                          use_hybrid |-> {"true", "false"}]]
Conforms(tool, a) ==
    /\ Required[tool] \subseteq DOMAIN a
    /\ \A f \in DOMAIN a \cap DOMAIN Declared[tool] : a[f] \in Declared[tool][f]

-----------------------------------------------------------------------------
(* The parsers the handlers share.                                         *)
EmbeddingRefused(a) == Spoils(a, "query_embedding", {"vector"})
(* Finite is asked of the 64-bit number, and again by the memory of the    *)
(* 32-bit one.                                                             *)
ConfidenceRefused(a, field) == Spoils(a, field, Numbers \ {"vast"})
(* A JSON scalar other than null is a value.                               *)
ValueRefused(a, field) == ~Given(a, field) \/ a[field] \in Lists \cup {"null", "object"}
NoText(a, field) == ~Is(a, field, Texts)
NoShortText(a, field) == ~Is(a, field, Texts \ {"long"})

RememberRefused(a) ==
    \/ NoShortText(a, "text")
    \/ Is(a, "episode_id", {"long"})
    \/ Is(a, "idempotency_key", {"long"})
    \/ EmbeddingRefused(a)
    \/ Is(a, "idempotency_key", Texts) /\ Given(a, "query_embedding")

(* Temporal controls and an explicit hybrid need a query vector.           *)
Controls == {"temporal_intent", "temporal_operator"}
HybridRefused(a) ==
    IF Given(a, "query_embedding") THEN \E f \in Controls : Is(a, f, Texts \ {"choice"})
    ELSE Is(a, "use_hybrid", {"true"}) \/ \E f \in Controls : Given(a, f)
RecallRefused(a) ==
    \/ NoShortText(a, "query")
    \/ Spoils(a, "limit", {"one", "many"})
    \/ EmbeddingRefused(a) \/ HybridRefused(a)
    \/ Spoils(a, "max_scored_rows", Positive)
    \/ ConfidenceRefused(a, "min_confidence")
    \/ IF Given(a, "min_confidence") THEN Is(a, "confidence_filter_mode", Texts \ {"choice"})
       ELSE Is(a, "confidence_filter_mode", Texts)

AssembleContextRefused(a) ==
    NoShortText(a, "query") \/ ~Is(a, "max_tokens", Positive) \/ EmbeddingRefused(a)

AssertFactRefused(a) ==
    \/ NoText(a, "subject") \/ NoText(a, "predicate") \/ ValueRefused(a, "object")
    \/ Is(a, "valid_from", Texts \ {"time"})
    \/ ConfidenceRefused(a, "confidence")
    \/ Is(a, "idempotency_key", Texts) /\ (Given(a, "confidence") \/ Is(a, "source", Texts))

WhatChangedRefused(a) == NoText(a, "entity") \/ ~Is(a, "since", {"time"})

MemoryHealthRefused(a) ==
    \/ NoText(a, "entity")
    \/ Spoils(a, "low_confidence_threshold", Shares)
    \/ Spoils(a, "stale_after_days", Unsigned)

(* A limit that is no unsigned integer counts as the default of 8.         *)
RecallForTaskRefused(a) ==
    \/ NoShortText(a, "task")
    \/ Is(a, "now", Texts \ {"time"})
    \/ Spoils(a, "horizon_days", Positive)
    \/ Is(a, "limit", {"zero", "huge"})
    \/ EmbeddingRefused(a)

Refuses(tool, a) ==
    CASE tool = "remember" -> RememberRefused(a)
      [] tool = "recall" -> RecallRefused(a)
      [] tool = "assemble_context" -> AssembleContextRefused(a)
      [] tool = "facts_about" -> NoText(a, "entity")
      [] tool = "assert_fact" -> AssertFactRefused(a)
      [] tool = "correct_fact" -> NoText(a, "fact_id") \/ ValueRefused(a, "new_value")
      [] tool = "invalidate_fact" -> NoText(a, "fact_id")
      [] tool = "what_changed" -> WhatChangedRefused(a)
      [] tool = "memory_health" -> MemoryHealthRefused(a)
      [] tool = "recall_for_task" -> RecallForTaskRefused(a)

-----------------------------------------------------------------------------
(* parse_works_at: the words around the first " works at ", both there.    *)
WorksAt(words) ==
    LET found == {i \in DOMAIN words : words[i] = "works at"}
        first == CHOOSE i \in found : \A j \in found : i <= j
    IN  IF found = {} \/ first = 1 \/ first = Len(words) THEN << >>
        ELSE <<SubSeq(words, 1, first - 1), SubSeq(words, first + 1, Len(words))>>

(* assemble_context: the lines of the ranked facts until one does not fit. *)
ContextLines(lengths, maxTokens) ==
    LET total[i \in 0..Len(lengths)] == IF i = 0 THEN 0 ELSE total[i - 1] + lengths[i]
        fits == {n \in 0..Len(lengths) : total[n] <= 4 * maxTokens}
    IN  CHOOSE n \in fits : \A m \in fits : m <= n
====
