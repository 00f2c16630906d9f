---- MODULE AgentBriefs ----
(***************************************************************************)
(* The agent briefs of the MCP server (main.rs): a ranked list of actions  *)
(* for each report of AgentMemory.  Scores are in percent; an action score *)
(* is in 10^-4.  A report is a record of the counts the brief reads.       *)
(***************************************************************************)
EXTENDS Integers, Sequences, FiniteSets

LevelScore(level) ==
    CASE level = "high" -> 90 [] level = "medium" -> 60 [] level = "low" -> 30

WorkflowImpactScore(impact) ==
    CASE impact = "critical_identity" -> 95
      [] impact = "decision_reliability" -> 85
      [] impact = "context_coverage" -> 70
      [] impact = "freshness_hygiene" -> 55
      [] impact = "monitoring" -> 35

ExecutionMode(confidence, risk) ==
    IF confidence >= 80 /\ risk = "high" THEN "auto_with_guardrails"
    ELSE IF confidence >= 60 THEN "agent_suggest_then_execute"
    ELSE "human_confirm"

RankedAction(id, priority, impact, risk, confidence, tool) ==
    [id |-> id, priority |-> priority, tool |-> tool, mode |-> ExecutionMode(confidence, risk),
     score |-> 45 * LevelScore(risk) + 30 * WorkflowImpactScore(impact)
                 + 15 * LevelScore(priority) + 10 * confidence]

When(condition, action) == IF condition THEN <<action>> ELSE <<>>

(* The stable sort by score, highest first: the places of a list in the    *)
(* order in which they come to stand.                                      *)
Before(listed, i, j) ==
    listed[i].score > listed[j].score \/ (listed[i].score = listed[j].score /\ i < j)
Place(listed, k) ==
    CHOOSE i \in DOMAIN listed : Cardinality({j \in DOMAIN listed : Before(listed, j, i)}) = k - 1
Ranked(listed) == [k \in DOMAIN listed |-> listed[Place(listed, k)]]

(* The first of the ranked actions is recommended.  status and urgency go  *)
(* into the brief as they are.                                             *)
Brief(status, urgency, actions, otherwise) ==
    LET ranked == Ranked(IF actions = <<>> THEN <<otherwise>> ELSE actions)
    IN  [status |-> status, urgency |-> urgency, next_actions |-> ranked,
         recommended |-> ranked[1].id,
         automation_ready |-> \E i \in DOMAIN ranked : ranked[i].mode # "human_confirm"]

RecallForTaskBrief(r) ==
    LET some == r.key_facts > 0
        watched == ~some \/ r.low_confidence > 0 \/ r.stale_high_impact > 0 \/ r.contradictions > 0
    IN  Brief(IF ~some THEN "no_context" ELSE IF watched THEN "attention_needed" ELSE "ready", "",
              When(~some,
                RankedAction("ask_clarifying_question", "high", "context_coverage", "high", 76, "recall_for_task"))
              \o When(r.low_confidence > 0 /\ r.has_subject,
                RankedAction("verify_low_confidence_facts", "high", "decision_reliability", "high", 82, "memory_health"))
              \o When(r.stale_high_impact > 0 /\ r.has_subject,
                RankedAction("refresh_stale_high_impact_facts", "medium", "freshness_hygiene", "medium", 77, "what_changed"))
              \o When(r.contradictions > 0 /\ r.has_subject,
                RankedAction("resolve_contradictions_first", "high", "critical_identity", "high", 80, "memory_health"))
              \o When(some,
                RankedAction("prepare_task_brief", IF watched THEN "medium" ELSE "high",
                             "decision_reliability", "medium", 91, "assemble_context")),
              RankedAction("monitor_task_memory", "low", "monitoring", "low", 93, "recall_for_task"))

WhatChangedBrief(r) ==
    LET critical == r.high_impact_corrections > 0
        urgency == IF critical \/ r.risky_shifts > 0 THEN "high"
                   ELSE IF r.corrections > 0 \/ r.invalidated > 0 THEN "medium" ELSE "low"
    IN  Brief(IF urgency = "low" THEN "stable" ELSE "attention_needed", urgency,
              When(r.corrections > 0,
                IF critical
                THEN RankedAction("verify_corrections", "high", "critical_identity", "high", 78, "facts_about")
                ELSE RankedAction("verify_corrections", "medium", "decision_reliability", "medium", 66, "facts_about"))
              \o When(r.risky_shifts > 0,
                RankedAction("revalidate_confidence", "high", "decision_reliability", "high", 84, "memory_health"))
              \o When(r.invalidated > r.new,
                RankedAction("fill_invalidation_gaps", "medium", "context_coverage", "medium", 72, "facts_about")),
              RankedAction("monitor", "low", "monitoring", "low", 92, "what_changed"))

MemoryHealthBrief(r) ==
    LET critical == r.low_confidence_high_impact > 0
        urgency == IF r.contradictions > 0 \/ critical THEN "high"
                   ELSE IF r.low_confidence > 0 \/ r.stale_high_impact > 0 THEN "medium" ELSE "low"
    IN  Brief(IF urgency = "low" THEN "healthy" ELSE "attention_needed", urgency,
              When(r.contradictions > 0,
                RankedAction("resolve_contradictions", "high", "critical_identity", "high", 86, "facts_about"))
              \o When(r.low_confidence > 0,
                IF critical
                THEN RankedAction("verify_low_confidence", "high", "critical_identity", "high", 80, "facts_about")
                ELSE RankedAction("verify_low_confidence", "medium", "decision_reliability", "medium", 68, "facts_about"))
              \o When(r.stale_high_impact > 0,
                RankedAction("refresh_stale_high_impact", "medium", "freshness_hygiene", "medium", 74, "what_changed")),
              RankedAction("monitor_health", "low", "monitoring", "low", 93, "memory_health"))
====
