---- MODULE MCAgentMemory ----
(* One singleton predicate of high impact and one that may have many values. *)
EXTENDS AgentMemory

MCEntries == <<"works_at", "born_in">>
MCAssertions ==
    {[predicate |-> "works_at", object |-> "a", confidence |-> 100, backdated |-> FALSE],
     [predicate |-> "works_at", object |-> "b", confidence |-> 40, backdated |-> TRUE],
     [predicate |-> "memory", object |-> "b", confidence |-> 100, backdated |-> FALSE]}
Doubtful == [predicate |-> "works_at", object |-> "a", confidence |-> 40]
Note == [predicate |-> "memory", object |-> "a", confidence |-> 100]
Rival == [predicate |-> "works_at", object |-> "b", confidence |-> 100]
MCScenarios ==
    {[watch |-> "open", facts |-> <<>>, calls |-> 0],
     [watch |-> "poll", facts |-> <<>>, calls |-> 3],
     [watch |-> "poll", facts |-> <<Doubtful, Note>>, calls |-> 2],
     [watch |-> "report", facts |-> <<Doubtful, Note>>, calls |-> 2],
     [watch |-> "report", facts |-> <<Doubtful, Note, Rival>>, calls |-> 1]}
====
