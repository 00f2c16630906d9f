------------------------------ MODULE Bindings ------------------------------
(* The handles, strings and error messages that cross the C and JNI           *)
(* boundaries: crates/ios/src/ffi.rs under the Swift class KronroeGraph, and   *)
(* crates/android/src/android_bindings.rs under the Kotlin class of the same   *)
(* name.  Threads of one host program share the objects.  A method is several  *)
(* steps: the wrapper's check, the native call, the read of the thread's last  *)
(* error, the release of the string that came back.                            *)
EXTENDS Integers, FiniteSets

CONSTANTS
    Threads,     \* threads of the host program, a finalizer among them
    MaxOpens,    \* bound: objects the host program makes
    MaxCalls,    \* bound: calls of open and of methods
    Overlap      \* may a close overlap a method of the same object?

ASSUME BindingsAssumption ==
    /\ IsFiniteSet(Threads)
    /\ MaxOpens \in Nat \ {0}
    /\ MaxCalls \in Nat
    /\ Overlap \in BOOLEAN

VARIABLES
    language,    \* "swift" or "kotlin": the wrapper in use
    heap,        \* heap[o]: the native graph of object o, unused, live or freed
    closed,      \* objects whose Kotlin flag is set
    unset,       \* objects whose handle field has been cleared
    monitor,     \* monitor[o]: the threads inside Kotlin's synchronized close
    lastError,   \* LAST_ERROR, one cell for each thread
    step,        \* step[t]: where thread t is in its call
    object,      \* object[t]: the object it was called on, whose graph it uses
    fn,          \* fn[t]: the native function called
    call,        \* call[t]: the number of the call, 0 for a close
    own,         \* own[t]: why the call failed, None while it has not
    message,     \* message[t]: the message its caller was given
    strings,     \* strings[t]: strings handed to t and not yet released
    stored,      \* stored[c]: how many of the writes of call c its graph has taken
    calls        \* calls made so far

handles == <<language, heap, closed, unset, monitor>>
called  == <<object, fn, call>>
outcome == <<lastError, own, message>>

vars == <<handles, step, called, outcome, strings, stored, calls>>

Objects == 1 .. MaxOpens
Calls == 1 .. MaxCalls
None == [call |-> 0, what |-> "none"]

(* What each native function takes, whether it hands back a string, and how    *)
(* many writes it is: correct_fact ends one fact and then asserts another.     *)
Signature(args, string, writes) == [args |-> args, string |-> string, writes |-> writes]

AssertText    == Signature({"subject", "predicate", "object"}, FALSE, 1)
FactsAbout    == Signature({"entity"}, TRUE, 0)
AssertFact    == Signature({"subject", "predicate", "object", "valid_from", "source"}, TRUE, 1)
CurrentFacts  == Signature({"entity", "predicate"}, TRUE, 0)
SearchJson    == Signature({"query"}, TRUE, 0)
CorrectFact   == Signature({"fact_id", "new_object"}, TRUE, 2)
Invalidate    == Signature({"fact_id"}, FALSE, 1)
FactById      == Signature({"fact_id"}, TRUE, 0)
NoMethod      == Signature({}, FALSE, 0)

SwiftMethods == {AssertText, FactsAbout, AssertFact, CurrentFacts, SearchJson,
                 CorrectFact, Invalidate, FactById}
KotlinMethods == {AssertText, FactsAbout}

Methods == IF language = "swift" THEN SwiftMethods ELSE KotlinMethods

Init ==
    /\ language \in {"swift", "kotlin"}
    /\ heap = [o \in Objects |-> "unused"]
    /\ closed = {} /\ unset = {}
    /\ monitor = [o \in Objects |-> {}]
    /\ lastError = [t \in Threads |-> None]
    /\ step = [t \in Threads |-> "idle"]
    /\ object = [t \in Threads |-> 0]
    /\ fn = [t \in Threads |-> NoMethod]
    /\ call = [t \in Threads |-> 0]
    /\ own = [t \in Threads |-> None]
    /\ message = [t \in Threads |-> None]
    /\ strings = [t \in Threads |-> 0]
    /\ stored = [c \in Calls |-> 0] /\ calls = 0

-----------------------------------------------------------------------------
(* The error cell.                                                             *)

SetErrorShared(t, reason) == [u \in Threads |-> reason]
SetError(t, reason) == [lastError EXCEPT ![t] = reason]
ClearError(t) == [lastError EXCEPT ![t] = None]

InMethod(o) == {t \in Threads : object[t] = o /\ step[t] \in {"checked", "inside"}}
Closing(o) == {t \in Threads : object[t] = o /\ step[t] \in {"freeing", "clearing"}}

Goes(t, s) == step' = [step EXCEPT ![t] = s]

Starts(t, o, f, number) ==
    /\ object' = [object EXCEPT ![t] = o]
    /\ fn' = [fn EXCEPT ![t] = f]
    /\ call' = [call EXCEPT ![t] = number]

(* The call fails for a reason, and what the caller is given so far.           *)
Ends(t, reason, text) ==
    /\ own' = [own EXCEPT ![t] = reason]
    /\ message' = [message EXCEPT ![t] = text]

Failure(number, what) == [call |-> number, what |-> what]

Fail(t, number, what) ==
    /\ lastError' = SetError(t, Failure(number, what))
    /\ Ends(t, Failure(number, what), None)
    /\ Goes(t, "failed")

(* open and openInMemory: a fresh object, an unreadable path, or a database    *)
(* that another live handle of the process has open.                           *)
Open(t, o, inMemory) ==
    /\ step[t] = "idle" /\ calls < MaxCalls
    /\ heap[o] = "unused" /\ \A p \in 1 .. o - 1 : heap[p] # "unused"
    /\ calls' = calls + 1
    /\ Starts(t, o, NoMethod, calls + 1)
    /\ \/ /\ inMemory \/ \A p \in Objects : heap[p] # "live"
          /\ heap' = [heap EXCEPT ![o] = "live"]
          /\ lastError' = ClearError(t)
          /\ Ends(t, None, None) /\ UNCHANGED step
       \/ ~inMemory /\ Fail(t, calls + 1, "path") /\ UNCHANGED heap
       \/ /\ ~inMemory /\ \E p \in Objects : heap[p] = "live"
          /\ Fail(t, calls + 1, "locked") /\ UNCHANGED heap
    /\ UNCHANGED <<language, closed, unset, monitor, strings, stored>>

(* The wrapper's first line: Kotlin looks at the flag and reads the handle     *)
(* later, Swift copies the handle.  A closed object throws without a native    *)
(* call.                                                                       *)
Gone(o) == IF language = "kotlin" THEN o \in closed ELSE o \in unset

Call(t, o, f) ==
    /\ step[t] = "idle" /\ calls < MaxCalls
    /\ heap[o] # "unused" /\ f \in Methods
    /\ Overlap \/ Closing(o) = {}
    /\ calls' = calls + 1
    /\ Starts(t, o, f, calls + 1)
    /\ \/ ~Gone(o) /\ Goes(t, "checked") /\ Ends(t, None, None)
       \/ LET refusal == Failure(calls + 1, "closed")
          IN  Gone(o) /\ Ends(t, refusal, refusal) /\ UNCHANGED step
    /\ UNCHANGED <<handles, lastError, strings, stored>>

(* The native function up to the use of the graph: the error cell is cleared,  *)
(* a null handle and then each unreadable argument is refused.                 *)
Null(t) == language = "kotlin" /\ object[t] \in unset

Enter(t) ==
    /\ step[t] = "checked"
    /\ \/ Null(t) /\ Fail(t, call[t], "handle")
       \/ ~Null(t) /\ \E a \in fn[t].args : Fail(t, call[t], a)
       \/ /\ ~Null(t)
          /\ lastError' = ClearError(t)
          /\ Goes(t, "inside") /\ UNCHANGED <<own, message>>
    /\ UNCHANGED <<handles, called, strings, stored, calls>>

(* The graph's operation and the conversion of its answer.  The writes of a    *)
(* method are made in turn, and an error of one leaves those before it in the  *)
(* graph: a correction that cannot assert has ended the old fact.  An answer   *)
(* is a flag, or a string the host must release; making the Java string of a   *)
(* query may fail.  What another open of the file would show of the write that *)
(* failed is the log's matter (AppendLog).                                     *)
Unfinished(f) == {0} \cup 1 .. f.writes - 1

Stores(t, n) == stored' = [stored EXCEPT ![call[t]] = n]

Run(t) ==
    /\ step[t] = "inside"
    /\ \/ /\ \E n \in Unfinished(fn[t]) : Stores(t, n)
          /\ Fail(t, call[t], "graph") /\ UNCHANGED strings
       \/ /\ language = "kotlin" /\ fn[t].string
          /\ Fail(t, call[t], "encode") /\ UNCHANGED <<strings, stored>>
       \/ /\ Stores(t, fn[t].writes)
          /\ \/ /\ fn[t].string
                /\ strings' = [strings EXCEPT ![t] = @ + 1] /\ Goes(t, "holding")
             \/ ~fn[t].string /\ Goes(t, "idle") /\ UNCHANGED strings
          /\ UNCHANGED outcome
    /\ UNCHANGED <<handles, called, calls>>

(* last_error_message: a copy of the thread's cell, owned by the wrapper; an   *)
(* empty cell makes the wrapper say "unknown error".                           *)
Ask(t) ==
    /\ step[t] = "failed"
    /\ \/ /\ lastError[t] # None
          /\ strings' = [strings EXCEPT ![t] = @ + 1]
          /\ message' = [message EXCEPT ![t] = lastError[t]]
          /\ Goes(t, "reporting")
       \/ lastError[t] = None /\ Goes(t, "idle") /\ UNCHANGED <<message, strings>>
    /\ UNCHANGED <<handles, called, lastError, own, stored, calls>>

(* string_free, after the wrapper has copied the text.                         *)
Release(t) ==
    /\ step[t] \in {"holding", "reporting"}
    /\ strings' = [strings EXCEPT ![t] = @ - 1]
    /\ Goes(t, "idle")
    /\ UNCHANGED <<handles, called, outcome, stored, calls>>

-----------------------------------------------------------------------------
(* Closing.  Kotlin's close is synchronized and guarded by its flag, so the    *)
(* program's close and the finalizer's may overlap; Swift's is guarded by the  *)
(* handle field alone, and its callers take turns.                             *)

OpenForCloseAlways(o) == heap[o] # "unused"
OpenForClose(o) == IF language = "kotlin" THEN o \notin closed ELSE o \notin unset

MayClose(o) ==
    IF language = "kotlin" THEN monitor[o] = {} ELSE Closing(o) = {}

CloseBegins(t, o) ==
    /\ step[t] = "idle" /\ heap[o] # "unused"
    /\ MayClose(o) /\ OpenForClose(o)
    /\ Overlap \/ InMethod(o) = {}
    /\ closed' = IF language = "kotlin" THEN closed \cup {o} ELSE closed
    /\ monitor' = [monitor EXCEPT ![o] = IF language = "kotlin" THEN {t} ELSE {}]
    /\ Starts(t, o, NoMethod, 0) /\ Ends(t, None, None) /\ Goes(t, "freeing")
    /\ UNCHANGED <<language, heap, unset, lastError, strings, stored, calls>>

(* nativeClose and kronroe_graph_close: the graph is dropped; the error cell   *)
(* is left alone.                                                              *)
Free(t) ==
    /\ step[t] = "freeing"
    /\ heap' = [heap EXCEPT ![object[t]] = "freed"]
    /\ Goes(t, "clearing")
    /\ UNCHANGED <<language, closed, unset, monitor, called, outcome, strings, stored, calls>>

CloseEnds(t) ==
    /\ step[t] = "clearing"
    /\ unset' = unset \cup {object[t]}
    /\ monitor' = [monitor EXCEPT ![object[t]] = {}]
    /\ Goes(t, "idle")
    /\ UNCHANGED <<language, heap, closed, called, outcome, strings, stored, calls>>

Next ==
    \E t \in Threads :
        \/ \E o \in Objects, m \in BOOLEAN : Open(t, o, m)
        \/ \E o \in Objects, f \in Methods : Call(t, o, f)
        \/ Enter(t) \/ Run(t) \/ Ask(t) \/ Release(t)
        \/ \E o \in Objects : CloseBegins(t, o)
        \/ Free(t) \/ CloseEnds(t)

Spec == Init /\ [][Next]_vars

-----------------------------------------------------------------------------
(* What a method tells its caller is the fate of that very call, whatever the  *)
(* other threads do between the native call and the question for its error.  A *)
(* method that returned has made all its writes.  One that threw gives its own *)
(* reason, and has not made its last write: an assertion or an invalidation    *)
(* that threw has left the graph as it was, a correction may have ended the    *)
(* old fact; and only an error of the graph itself may come after a write.     *)
OutcomesAreTrue ==
    \A t \in Threads : step[t] = "idle" /\ call[t] # 0 =>
        /\ own[t] = None => stored[call[t]] = fn[t].writes
        /\ own[t] # None =>
             /\ message[t] = own[t]
             /\ stored[call[t]] \in Unfinished(fn[t])
             /\ own[t].what # "graph" => stored[call[t]] = 0

(* A native graph is alive while a call uses it and when a close frees it, two *)
(* closes never free the same one, and every string handed out is released     *)
(* once, by the method that holds it.                                          *)
HandlesOutliveCalls ==
    \A t \in Threads :
        /\ step[t] \in {"inside", "freeing"} => heap[object[t]] = "live"
        /\ \A u \in Threads \ {t} :
              ~(step[t] = "freeing" /\ step[u] = "freeing" /\ object[t] = object[u])
        /\ strings[t] = IF step[t] \in {"holding", "reporting"} THEN 1 ELSE 0

=============================================================================
