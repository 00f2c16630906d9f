---- MODULE BindingArguments ----
(***************************************************************************)
(* The arguments of the Python and WebAssembly bindings (built with every  *)
(* feature) and of the C interface: what each refuses before the memory is *)
(* touched, and the recall options it hands on.  Arguments are written as  *)
(* in McpTools, with the values a typed caller can give besides: a number  *)
(* or a vector that is not finite, and a mode in other letters.            *)
(***************************************************************************)
EXTENDS McpTools

Finite == Numbers
(* The 32-bit check of the memory itself refuses "vast".                   *)
Fit == Finite \ {"vast"}
Flag(a, field) == Is(a, field, {"true"})
Pick(a, field, default) == IF Given(a, field) THEN a[field] ELSE default

(* py_to_value: flags, then numbers, NaN among them, then texts.           *)
PyValueRefused(v) == v \notin {"true", "false", "nan"} \cup Numbers \cup Texts

(* The vector of either binding: none, or finite values of 32 bits.        *)
PyVectorRefused(a)   == Spoils(a, "query_embedding", {"vector"})
WasmVectorRefused(a) == Spoils(a, "query_embedding", {"vector"})

ModeWithoutMin(a) == Given(a, "confidence_filter_mode") /\ ~Given(a, "min_confidence")
ControlsWithoutVector(a) ==
    /\ ~Given(a, "query_embedding")
    /\ Flag(a, "use_hybrid") \/ \E f \in Controls : Given(a, f)
NoSuchControl(a) == \E f \in Controls : Spoils(a, f, {"choice"})
(* The memory refuses an empty scan once a threshold asks for one.         *)
NoRows(a) ==
    Given(a, "min_confidence") /\ ~Is(a, "limit", {"zero"}) /\ Is(a, "max_scored_rows", {"zero"})

(* Options from a dict: unknown keys are ignored, None counts as not given. *)
FromDict(d) == [f \in {f \in DOMAIN d \cap DOMAIN Declared.recall : d[f] # "null"} |-> d[f]]

PyRecallRefused(a) ==
    \/ Spoils(a, "limit", Unsigned) \/ Spoils(a, "max_scored_rows", Unsigned)
    \/ PyVectorRefused(a)
    \/ ModeWithoutMin(a) \/ ControlsWithoutVector(a)
    \/ Spoils(a, "min_confidence", Fit)
    \/ Given(a, "min_confidence") /\ Spoils(a, "confidence_filter_mode", {"choice"})
    \/ NoSuchControl(a) \/ NoRows(a)

WasmRecallRefused(a) ==
    \/ WasmVectorRefused(a)
    \/ ControlsWithoutVector(a) \/ ModeWithoutMin(a)
    \/ Spoils(a, "min_confidence", Fit)
    \/ Given(a, "min_confidence") /\ Spoils(a, "confidence_filter_mode", {"choice", "CHOICE"})
    \/ NoSuchControl(a) \/ NoRows(a)

(* The options handed to recall_scored_with_options: a vector that is not  *)
(* asked to be hybrid is carried and not used.  The MCP server asks for it *)
(* unless told not to, the bindings only when told to.                     *)
Options(a, hybrid) ==
    [limit |-> Pick(a, "limit", "ten"), vector |-> Given(a, "query_embedding") /\ hybrid,
     min |-> Pick(a, "min_confidence", "none"),
     mode |-> IF Given(a, "confidence_filter_mode") THEN "choice" ELSE "base",
     rows |-> Pick(a, "max_scored_rows", "4096"),
     intent |-> Pick(a, "temporal_intent", "timeless"),
     operator |-> Pick(a, "temporal_operator", "current")]
McpOptions(a)  == Options(a, ~Is(a, "use_hybrid", {"false"}))
PyOptions(a)   == Options(a, Flag(a, "use_hybrid"))
WasmOptions(a) == Options(a, Flag(a, "use_hybrid"))

(* The vector recall_for_task searches with.                               *)
McpTaskVector(a) == Given(a, "query_embedding") /\ ~Is(a, "use_hybrid", {"false"})
PyTaskVector(a)  == Given(a, "query_embedding") /\ Flag(a, "use_hybrid")
PyTaskRefused(a) ==
    \/ Is(a, "limit", {"zero"}) \/ Spoils(a, "horizon_days", Positive)
    \/ Spoils(a, "now", {"time"}) \/ PyVectorRefused(a)

PyHealthRefused(a) ==
    \/ Spoils(a, "low_confidence_threshold", Shares) \/ Spoils(a, "stale_after_days", Unsigned)
PyContextRefused(a)   == Is(a, "max_tokens", {"zero"}) \/ PyVectorRefused(a)
WasmContextRefused(a) == Is(a, "max_tokens", {"zero"}) \/ WasmVectorRefused(a)

(* A confidence: Python takes any finite one and the graph clamps it, the  *)
(* browser refuses one outside 0 to 1, the C interface replaces a negative *)
(* one and NaN by 1.                                                       *)
ClampedShare(c) ==
    CASE c \in Shares -> c [] c = "negative" -> "zero" [] OTHER -> "one"
PyConfidence(c)   == IF c \notin Fit THEN "refused" ELSE ClampedShare(c)
WasmConfidence(c) == IF c \in Shares THEN c ELSE "refused"
CConfidence(c)    == IF c \in {"negative", "nan"} THEN "one"
                     ELSE IF c = "vast" THEN "refused" ELSE ClampedShare(c)

(* remember in the browser: a key excludes a vector; with a key the vector *)
(* is not even looked at.                                                  *)
WasmRememberRefused(a) ==
    \/ Given(a, "idempotency_key") /\ Given(a, "query_embedding")
    \/ WasmVectorRefused(a)
====
