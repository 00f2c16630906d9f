---- MODULE MCRecall ----
(* Three facts, or two and a write in the middle of a call.  One shape passes *)
(* a filter by its source only, the other until its age is considered.     *)
EXTENDS Recall

Trusted == [subject |-> "task", confidence |-> 40, valid_from |-> 1, half_life |-> 0, source_weight |-> 200]
Fading == [subject |-> "other", confidence |-> 60, valid_from |-> 0, half_life |-> 1, source_weight |-> 100]
MCShapes == {Trusted, Fading}

Stored(shapes) == {Fact(s) : s \in shapes} \cup {Ended(Fact(s)) : s \in shapes}
Stores(S, sizes) == UNION {[1..n -> S] : n \in sizes}
On(stores, calls, bound) == [facts : stores, call : calls, writes : {bound}]

Options(path, kind, limits, rows) ==
    [path : {path}, kind : {kind}, limit : limits, rows : rows, intent : {"timeless"}, op : {"current"}]
Temporal(intent, op) ==
    [path |-> "hybrid", kind |-> "plain", limit |-> 1, rows |-> 3, intent |-> intent, op |-> op]

TextCalls ==
    Options("text", "base", {1, 2}, {1, 3}) \cup Options("text", "effective", {1}, {3})
    \cup Options("text", "task", {1, 2}, {3})
EdgeCalls ==
    Options("text", "base", {0, 1}, {0, 3}) \cup Options("text", "task", {0}, {3})
    \cup Options("text", "plain", {2}, {3}) \cup Options("hybrid", "plain", {0}, {3})
IndexCalls ==
    Options("vector", "plain", {1, 2}, {3}) \cup Options("hybrid", "plain", {1}, {3})
    \cup Options("hybrid", "base", {1}, {3}) \cup Options("hybrid", "task", {1}, {3})
    \cup {Temporal("current", "current"), Temporal("interval", "during"), Temporal("point", "before")}

MCScenarios ==
    On(Stores(Stored({Trusted, Fading}), {3}), TextCalls, 0)
    \cup On(Stores(Stored({Trusted, Fading}), {2}), TextCalls, 1)
    \cup On(Stores(Stored({Trusted}), {1}), EdgeCalls, 1)
    \cup On({<<Fact(Trusted), x, y>> : x, y \in {Fact(Fading), Ended(Fact(Trusted))}}, IndexCalls, 0)
    \cup On({<<Fact(Trusted), Fact(Fading)>>},
            {c \in IndexCalls : c.intent = "timeless"}, 1)
====
