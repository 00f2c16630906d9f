---- MODULE MCMcpServer ----
(* A text with a relation and a fact, each with a key; a correction; a call *)
(* with two fields that exclude each other; and messages that are no calls: *)
(* one that is answered by its id, one with a null id, one not at all.  Two *)
(* restarts are needed to answer from a record in doubt and then lose it.   *)
EXTENDS McpServer, KernelChecks

NoArgs == [f \in {} |-> "null"]
Request(method, id) ==
    [id |-> id, method |-> method, tool |-> "facts_about", args |-> NoArgs, key |-> NoKey, relation |-> FALSE]
Call(tool, args, key, relation) ==
    [id |-> TRUE, method |-> "tools/call", tool |-> tool, args |-> args, key |-> key, relation |-> relation]

KeyedText == [text |-> "text", idempotency_key |-> "text"]
KeyedFact == [subject |-> "text", predicate |-> "text", object |-> "one", idempotency_key |-> "text"]
Correction == [fact_id |-> "text", new_value |-> "true"]

MCRequests ==
    {Call("remember", KeyedText, "k", TRUE),
     Call("assert_fact", KeyedFact, "l", FALSE),
     Call("assert_fact", [KeyedFact EXCEPT !.object = "null"], "l", FALSE),
     Call("correct_fact", Correction, NoKey, FALSE),
     Request("ping", TRUE), Request("ping", FALSE),
     Request("notification", TRUE)}
MCDerived == [k \in {"k", "l"} |-> IF k = "k" THEN "k:works_at" ELSE "l:works_at"]
ASSUME RequestsAssumption == KeysNameOneKind(MCRequests)

(* A client whose second key is the one the server derives from the first. *)
CollidingRequests ==
    {Call("remember", KeyedText, "k", TRUE), Call("assert_fact", KeyedFact, "k:works_at", FALSE)}
CollidingDerived == [k \in {"k", "k:works_at"} |-> IF k = "k" THEN "k:works_at" ELSE "k:works_at:works_at"]
====
