---- MODULE AgentMemory ----
(***************************************************************************)
(* AgentMemory over its graph (agent_memory.rs): the registrations of      *)
(* open, the write calls of several threads against the clock, and the     *)
(* reports an agent polls: what_changed, memory_health, recall_for_task,   *)
(* with the briefs the MCP server makes of them.  One entity; the clock    *)
(* counts seconds and does not go back.                                    *)
(*                                                                         *)
(* A stored row changes only by ending, and an end overwrites both end     *)
(* fields: that a call ends a row it has read earlier changes nothing, and *)
(* invalidate_fact is one step here (TemporalGraph has both).              *)
(***************************************************************************)
EXTENDS Contradictions, AgentBriefs, SequencesExt

CONSTANTS
    Scenarios,    \* bounds of a behaviour: what it follows ("open" with no write,
                  \* or writes with a "poll" or a "report"), what was asserted
                  \* before it and the number of its write calls
    Threads,
    Assertions,   \* what a caller asserts: predicate, object, confidence, backdated or not
    Objects,      \* new values of corrections
    MaxClock,     \* bound on the clock
    Entries,      \* default registrations, in the order of open
    Singletons,   \* predicates registered as singletons by open
    HighImpact,   \* is_high_impact_predicate
    Tolerance,    \* CORRECTION_LINK_TOLERANCE_SECONDS
    StaleAfter,   \* stale_after_days, horizon_days
    LowConfidence \* low_confidence_threshold, in percent

ASSUME EntriesAssumption ==
    Entries \in Seq(ToSet(Entries)) /\ IsInjective(Entries) /\ Singletons \subseteq ToSet(Entries)
ASSUME TimesAssumption ==
    MaxClock \in Nat /\ MaxTime \in Nat /\ MaxClock < MaxTime /\ NoTime \notin Nat
ASSUME ScenariosAssumption ==
    \A s \in Scenarios : s.watch \in {"open", "poll", "report"} /\ s.facts \in Seq(ToSet(s.facts))
ASSUME AssertionsAssumption == \A a \in Assertions : a.backdated \in BOOLEAN

VARIABLES
    watch,     \* what the behaviour follows
    mode,      \* "closed", "opening" or "open"
    todo,      \* registrations open has yet to look at
    registry,  \* stored registration of each entry: "none", "default" or "caller"
    clock,
    facts,     \* the stored facts; an id is a position
    calls,     \* the write call of each thread
    left,      \* how many more there may be
    report,    \* the report under way
    \* For the properties.
    polled,    \* since of the next what_changed
    reported,  \* <<id, "new" or "end">> that some what_changed has returned
    late,      \* the same, stored after a poll that read a later clock
    replaced   \* corrections made: old, new, at

memory == <<watch, mode, todo, registry>>
poll   == <<polled, reported, late>>
writing == <<calls, left>>
vars   == <<memory, clock, facts, writing, report, poll, replaced>>

NoCall == [step |-> "idle"]
NoReport == [kind |-> "none"]
Ids == DOMAIN facts
Active(f) == f.valid_to = NoTime /\ f.expired_at = NoTime

(* A fact's recorded_at is stamped when its row is built, before the       *)
(* storage call that makes it visible; its id, which the generator drew,   *)
(* is known here by the order of those calls.                              *)
Row(predicate, object, confidence, from, recorded) ==
    [id |-> 0, subject |-> "entity", predicate |-> predicate, object |-> object, confidence |-> confidence,
     valid_from |-> from, recorded_at |-> recorded, valid_to |-> NoTime, expired_at |-> NoTime]
Stored(row, id) == [row EXCEPT !.id = id]

Init ==
    /\ \E s \in Scenarios :
         /\ watch = s.watch /\ left = s.calls
         /\ facts = [i \in DOMAIN s.facts |-> Stored(Row(s.facts[i].predicate, s.facts[i].object,
                                                         s.facts[i].confidence, 0, 0), i)]
    /\ mode = IF watch = "open" THEN "closed" ELSE "open"
    /\ todo = <<>>
    /\ registry = [e \in ToSet(Entries) |-> IF watch = "open" THEN "none" ELSE "default"]
    /\ clock = 0
    /\ calls = [t \in Threads |-> NoCall]
    /\ report = NoReport
    /\ polled = 0 /\ reported = {} /\ late = {} /\ replaced = {}

Tick ==
    /\ watch # "open" /\ clock < MaxClock /\ clock' = clock + 1
    /\ UNCHANGED <<memory, facts, writing, report, poll, replaced>>

-----------------------------------------------------------------------------
(* open: register_default_singletons and register_default_volatilities.    *)
Open ==
    /\ mode = "closed" /\ mode' = "opening" /\ todo' = Entries
    /\ UNCHANGED <<watch, registry, clock, facts, writing, report, poll, replaced>>

(* Mutant: the default is registered whatever is there. *)
RegisterDefaultAlways(e) == registry' = [registry EXCEPT ![e] = "default"]

(* Only where nothing is registered yet. *)
RegisterDefault(e) ==
    registry' = [registry EXCEPT ![e] = IF @ = "none" THEN "default" ELSE @]

RegisterNext ==
    /\ mode = "opening" /\ todo # <<>>
    /\ RegisterDefault(Head(todo))
    /\ todo' = Tail(todo)
    /\ mode' = IF Tail(todo) = <<>> THEN "open" ELSE "opening"
    /\ UNCHANGED <<watch, clock, facts, writing, report, poll, replaced>>

(* register_volatility, or a registration on the graph itself, which other *)
(* users of the file may make while no AgentMemory has it open.            *)
CallerRegisters(e) ==
    /\ watch = "open" /\ mode # "opening"
    /\ registry' = [registry EXCEPT ![e] = "caller"]
    /\ UNCHANGED <<watch, mode, todo, clock, facts, writing, report, poll, replaced>>

(* The process ends or dies; what is stored stays. *)
Stop ==
    /\ watch = "open" /\ mode # "closed" /\ mode' = "closed" /\ todo' = <<>>
    /\ calls' = [t \in Threads |-> NoCall]
    /\ report' = NoReport
    /\ UNCHANGED <<watch, registry, clock, facts, left, poll, replaced>>

-----------------------------------------------------------------------------
(* Write calls. *)
Enter(t, call) ==
    /\ watch # "open" /\ mode = "open" /\ calls[t] = NoCall
    /\ left > 0 /\ left' = left - 1
    /\ calls' = [calls EXCEPT ![t] = call]
    /\ UNCHANGED <<memory, clock, facts, report, poll, replaced>>

(* The assert and remember variants. *)
AssertFact(t, a) ==
    Enter(t, [step |-> "store", old |-> 0,
              row |-> Row(a.predicate, a.object, a.confidence, IF a.backdated THEN 0 ELSE clock, clock)])
InvalidateFact(t, id) == Enter(t, [step |-> "end", id |-> id, at |-> clock, new |-> {}])
CorrectFact(t, id, object) == Enter(t, [step |-> "end", id |-> id, at |-> clock, new |-> {object}])

(* Seen only by a poll that did not read a later clock. *)
Late(event, stamp) == late' = IF stamp < polled THEN late \cup {event} ELSE late \ {event}

EndOld(t) ==
    LET c == calls[t]
    IN  /\ c.step = "end"
        /\ facts' = [facts EXCEPT ![c.id].valid_to = c.at, ![c.id].expired_at = c.at]
        /\ calls' = [calls EXCEPT ![t] = IF c.new = {} THEN NoCall ELSE [c EXCEPT !.step = "build"]]
        /\ Late(<<c.id, "end">>, c.at) /\ reported' = reported \ {<<c.id, "end">>}
        /\ UNCHANGED <<memory, clock, left, report, polled, replaced>>

(* correct_fact asserts its replacement with full confidence. *)
BuildReplacement(t) ==
    LET c == calls[t]
    IN  /\ c.step = "build"
        /\ \E object \in c.new :
             calls' = [calls EXCEPT ![t] = [step |-> "store", old |-> c.id,
                         row |-> Row(facts[c.id].predicate, object, 100, c.at, clock)]]
        /\ UNCHANGED <<memory, clock, facts, left, report, poll, replaced>>

StoreFact(t) ==
    LET c == calls[t]
        id == Len(facts) + 1
    IN  /\ c.step = "store"
        /\ facts' = Append(facts, Stored(c.row, id))
        /\ calls' = [calls EXCEPT ![t] = NoCall]
        /\ Late(<<id, "new">>, c.row.recorded_at)
        /\ replaced' = IF c.old = 0 THEN replaced
                       ELSE replaced \cup {[old |-> c.old, new |-> id, at |-> c.row.valid_from]}
        /\ UNCHANGED <<memory, clock, left, report, polled, reported>>

(* A storage error ends the call; a replaced fact stays ended. *)
WriteFails(t) ==
    /\ calls[t].step \in {"end", "store"}
    /\ calls' = [calls EXCEPT ![t] = NoCall]
    /\ UNCHANGED <<memory, clock, facts, left, report, poll, replaced>>

-----------------------------------------------------------------------------
(* what_changed. *)
SameKind(old, new) ==
    old.id # new.id /\ old.predicate = new.predicate /\ old.recorded_at <= new.recorded_at

(* Mutant: the predicate is not compared. *)
ExactMatchesAnyPredicate(new) ==
    {id \in Ids : facts[id].id # new.id /\ facts[id].expired_at = new.valid_from
                  /\ facts[id].recorded_at <= new.recorded_at}

ExactMatches(new) == {id \in Ids : SameKind(facts[id], new) /\ facts[id].expired_at = new.valid_from}
NearMatches(new) ==
    {id \in Ids : SameKind(facts[id], new) /\ facts[id].expired_at # NoTime
                  /\ Distance(facts[id].expired_at, new.valid_from) <= Tolerance}

(* The latest of the exact matches; else the nearest in time, of equally   *)
(* near ones the latest.                                                   *)
OldMatch(new) ==
    LET exact == ExactMatches(new)
        near == NearMatches(new)
        Gap(id) == Distance(facts[id].expired_at, new.valid_from)
    IN  IF exact # {}
        THEN {id \in exact : \A other \in exact : facts[other].recorded_at <= facts[id].recorded_at}
        ELSE {id \in near : \A other \in near :
                Gap(id) < Gap(other)
                \/ (Gap(id) = Gap(other) /\ facts[other].recorded_at <= facts[id].recorded_at)}

(* Mutant: the poller's own instant is left out. *)
RecordedAfter(since) == {id \in Ids : facts[id].recorded_at > since}

RecordedSince(since) == {id \in Ids : facts[id].recorded_at >= since}
EndedSince(since) == {id \in Ids : facts[id].expired_at # NoTime /\ facts[id].expired_at >= since}
(* Equal candidates leave a choice: rows come in the order of their keys.  *)
Corrections(since) ==
    {[new |-> id, olds |-> OldMatch(facts[id])] :
        id \in {id \in RecordedSince(since) : OldMatch(facts[id]) # {}}}

(* A poller asks for what is new since its last poll, and remembers when   *)
(* it asked.                                                               *)
WhatChanged ==
    /\ watch = "poll" /\ mode = "open"
    /\ reported' = reported \cup {<<id, "new">> : id \in RecordedSince(polled)}
                            \cup {<<id, "end">> : id \in EndedSince(polled)}
    /\ polled' = clock
    /\ UNCHANGED <<memory, clock, facts, writing, report, late, replaced>>

-----------------------------------------------------------------------------
(* memory_health and recall_for_task: facts first, then the audit of the   *)
(* singleton predicates one by one, a lock each.                           *)
ActiveFacts(fs) == {i \in DOMAIN fs : Active(fs[i])}
Low(fs, ids) == {i \in ids : fs[i].confidence < LowConfidence}
Stale(fs, ids) == {i \in ids : fs[i].predicate \in HighImpact /\ fs[i].valid_from <= clock - StaleAfter}

MemoryHealth ==
    /\ watch = "report" /\ mode = "open" /\ report.kind \in {"none", "done"}
    /\ report' = [kind |-> "health", snapshot |-> facts, keys |-> ActiveFacts(facts), at |-> clock,
                  audit |-> Singletons, contradictions |-> {}]
    /\ UNCHANGED <<memory, clock, facts, writing, poll, replaced>>

(* The key facts are current ones that the recall of the task returned     *)
(* (module Recall).                                                        *)
RecallForTask ==
    /\ watch = "report" /\ mode = "open" /\ report.kind \in {"none", "done"}
    /\ \E keys \in SUBSET ActiveFacts(facts) :
         report' = [kind |-> "task", snapshot |-> facts, keys |-> keys, at |-> clock,
                    audit |-> Singletons, contradictions |-> {}]
    /\ UNCHANGED <<memory, clock, facts, writing, poll, replaced>>

Audit(predicate) ==
    /\ report.kind \in {"health", "task"} /\ predicate \in report.audit
    /\ report' = [report EXCEPT !.audit = @ \ {predicate},
                    !.contradictions = @ \cup DetectContradictions(Singletons, facts, "entity", predicate)]
    /\ UNCHANGED <<memory, clock, facts, writing, poll, replaced>>

TaskBrief(r) ==
    RecallForTaskBrief(
      [key_facts |-> Cardinality(r.keys), has_subject |-> TRUE,
       low_confidence |-> Cardinality(Low(r.snapshot, r.keys)),
       stale_high_impact |-> Cardinality(Stale(r.snapshot, r.keys)),
       contradictions |-> Cardinality(r.contradictions)])
HealthBrief(r) ==
    LET low == Low(r.snapshot, r.keys)
    IN  MemoryHealthBrief(
          [low_confidence |-> Cardinality(low),
           low_confidence_high_impact |-> Cardinality({i \in low : r.snapshot[i].predicate \in HighImpact}),
           stale_high_impact |-> Cardinality(Stale(r.snapshot, r.keys)),
           contradictions |-> Cardinality(r.contradictions)])

Answer ==
    /\ report.kind \in {"health", "task"} /\ report.audit = {}
    /\ report' = [kind |-> "done", snapshot |-> report.snapshot,
                  brief |-> IF report.kind = "health" THEN HealthBrief(report) ELSE TaskBrief(report)]
    /\ UNCHANGED <<memory, clock, facts, writing, poll, replaced>>

Next ==
    \/ Tick \/ Open \/ RegisterNext \/ Stop
    \/ \E e \in ToSet(Entries) : CallerRegisters(e)
    \/ \E t \in Threads :
         \/ \E a \in Assertions : AssertFact(t, a)
         \/ \E id \in Ids : InvalidateFact(t, id)
         \/ \E id \in Ids, object \in Objects : CorrectFact(t, id, object)
         \/ EndOld(t) \/ BuildReplacement(t) \/ StoreFact(t) \/ WriteFails(t)
    \/ WhatChanged \/ MemoryHealth \/ RecallForTask \/ Answer
    \/ \E predicate \in Singletons : Audit(predicate)

Spec == Init /\ [][Next]_vars

-----------------------------------------------------------------------------
(* Opening, however often it is cut short, ends with every default in      *)
(* place and never overrides what a caller has registered.                 *)
DefaultsKept ==
    [][/\ \A e \in DOMAIN registry : registry[e] = "caller" => registry'[e] = "caller"
       /\ mode' = "open" => \A e \in DOMAIN registry : registry'[e] # "none"]_vars

(* An agent that polls what_changed with the time of its last poll is told *)
(* of every fact and every end, unless the write was stamped before a poll *)
(* and stored after it.                                                    *)
NothingMissed ==
    \A id \in Ids :
        /\ facts[id].recorded_at < polled /\ <<id, "new">> \notin late => <<id, "new">> \in reported
        /\ facts[id].expired_at # NoTime /\ facts[id].expired_at < polled /\ <<id, "end">> \notin late
             => <<id, "end">> \in reported

(* A correction that is the only end of a fact of its predicate at that    *)
(* instant, and has not been overwritten by a later end, is reported as    *)
(* the pair it was, whatever threads stored in between.                    *)
CorrectionsPaired ==
    \A c \in replaced :
        {id \in Ids : facts[id].predicate = facts[c.old].predicate /\ facts[id].expired_at = c.at} = {c.old}
        => [new |-> c.new, olds |-> {c.old}] \in Corrections(0)

(* A report during which nothing changed tells an agent to resolve         *)
(* contradictions first exactly when two of the entity's current facts     *)
(* claim different values of a singleton predicate.                        *)
ContradictionsSurface ==
    report.kind = "done" /\ report.snapshot = facts =>
        ((\E i, j \in ActiveFacts(facts) :
            /\ facts[i].predicate = facts[j].predicate /\ facts[i].predicate \in Singletons
            /\ facts[i].object # facts[j].object)
         <=> report.brief.recommended \in {"resolve_contradictions", "resolve_contradictions_first"})
====
