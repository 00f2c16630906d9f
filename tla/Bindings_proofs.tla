---- MODULE Bindings_proofs ----
(***************************************************************************)
(* The handles and errors of the C and JNI boundaries, for any number of   *)
(* threads, objects and calls: a method tells its caller the fate of that  *)
(* very call; and as long as no caller closes an object under a running    *)
(* method, no freed graph is used or freed again.                          *)
(***************************************************************************)
EXTENDS Bindings, TLAPS

InCall   == {"checked", "inside"}
InClose  == {"freeing", "clearing"}
AllSteps == InCall \cup InClose \cup {"idle", "failed", "holding", "reporting"}

Natives == SwiftMethods \cup {NoMethod}
Words == {"none", "closed", "path", "locked", "handle", "graph", "encode", "subject",
          "predicate", "object", "valid_from", "source", "entity", "query", "fact_id",
          "new_object"}
Reasons == [call : Nat, what : Words]

TypeInv ==
    /\ language \in {"swift", "kotlin"}
    /\ heap \in [Objects -> {"unused", "live", "freed"}]
    /\ closed \subseteq Objects /\ unset \subseteq Objects
    /\ monitor \in [Objects -> SUBSET Threads]
    /\ lastError \in [Threads -> Reasons]
    /\ step \in [Threads -> AllSteps]
    /\ object \in [Threads -> Nat]
    /\ fn \in [Threads -> Natives]
    /\ call \in [Threads -> Nat]
    /\ own \in [Threads -> Reasons]
    /\ message \in [Threads -> Reasons]
    /\ strings \in [Threads -> Int]
    /\ stored \in [Calls -> Nat]
    /\ calls \in Nat
    /\ \A t \in Threads : step[t] \in InCall \cup InClose => object[t] \in Objects

LEMMA MethodsTyped == Methods \subseteq Natives /\ NoMethod \in Natives
<1>1. KotlinMethods \subseteq SwiftMethods
  BY DEF SwiftMethods, KotlinMethods
<1> QED
  BY <1>1 DEF Methods, Natives

(* What a native function refuses is named, and its writes are counted.    *)
LEMMA NativesTyped == \A f \in Natives : f.args \subseteq Words /\ f.writes \in Nat
<1>1. AssertText.args \subseteq Words /\ AssertText.writes \in Nat
  BY DEF AssertText, Signature, Words
<1>2. FactsAbout.args \subseteq Words /\ FactsAbout.writes \in Nat
  BY DEF FactsAbout, Signature, Words
<1>3. AssertFact.args \subseteq Words /\ AssertFact.writes \in Nat
  BY DEF AssertFact, Signature, Words
<1>4. CurrentFacts.args \subseteq Words /\ CurrentFacts.writes \in Nat
  BY DEF CurrentFacts, Signature, Words
<1>5. SearchJson.args \subseteq Words /\ SearchJson.writes \in Nat
  BY DEF SearchJson, Signature, Words
<1>6. CorrectFact.args \subseteq Words /\ CorrectFact.writes \in Nat
  BY DEF CorrectFact, Signature, Words
<1>7. Invalidate.args \subseteq Words /\ Invalidate.writes \in Nat
  BY DEF Invalidate, Signature, Words
<1>8. FactById.args \subseteq Words /\ FactById.writes \in Nat
  BY DEF FactById, Signature, Words
<1>9. NoMethod.args \subseteq Words /\ NoMethod.writes \in Nat
  BY DEF NoMethod, Signature, Words
<1> QED
  BY <1>1, <1>2, <1>3, <1>4, <1>5, <1>6, <1>7, <1>8, <1>9 DEF Natives, SwiftMethods

LEMMA FailureTyped ==
    ASSUME NEW n \in Nat, NEW w \in Words
    PROVE  Failure(n, w) \in Reasons
  BY DEF Failure, Reasons

LEMMA NoneTyped == None \in Reasons
<1>1. 0 \in Nat /\ "none" \in Words
  BY DEF Words
<1>2. None = Failure(0, "none")
  BY Zenon DEF None, Failure
<1> QED
  BY <1>1, <1>2, FailureTyped

LEMMA FailureIsSome ==
    ASSUME NEW n \in Nat, NEW w, n # 0 PROVE Failure(n, w) # None
<1>1. Failure(n, w).call = n /\ None.call = 0
  BY DEF Failure, None
<1> QED
  BY <1>1

LEMMA InitTyped == Init => TypeInv
<1> HIDE DEF None, NoMethod, Natives, Reasons
<1> QED
  BY MethodsTyped, NoneTyped DEF Init, TypeInv, AllSteps, InCall, InClose

LEMMA FailTyped ==
    ASSUME TypeInv, NEW t \in Threads, NEW n \in Nat, NEW w \in Words, Fail(t, n, w)
    PROVE  /\ lastError' \in [Threads -> Reasons] /\ step' \in [Threads -> AllSteps]
           /\ own' \in [Threads -> Reasons] /\ message' \in [Threads -> Reasons]
           /\ \A u \in Threads : step'[u] \in InCall \cup InClose => step'[u] = step[u]
<1>1. Failure(n, w) \in Reasons /\ None \in Reasons
  BY FailureTyped, NoneTyped
<1>2. lastError' \in [Threads -> Reasons]
  BY <1>1 DEF TypeInv, Fail, SetError
<1>3. own' \in [Threads -> Reasons] /\ message' \in [Threads -> Reasons]
  BY <1>1 DEF TypeInv, Fail, Ends
<1>4. /\ step' \in [Threads -> AllSteps]
      /\ \A u \in Threads : step'[u] \in InCall \cup InClose => step'[u] = step[u]
  BY DEF TypeInv, Fail, Goes, AllSteps, InCall, InClose
<1> QED
  BY <1>2, <1>3, <1>4

LEMMA TypeStep == TypeInv /\ [Next]_vars => TypeInv'
<1> SUFFICES ASSUME TypeInv, [Next]_vars PROVE TypeInv'
  OBVIOUS
<1> USE MethodsTyped, NoneTyped, BindingsAssumption
    DEF TypeInv, handles, called, outcome, AllSteps, InCall, InClose
<1>1. ASSUME NEW t \in Threads, NEW o \in Objects, NEW m \in BOOLEAN, Open(t, o, m) PROVE TypeInv'
  <2>1. /\ step[t] = "idle" /\ calls + 1 \in Nat /\ o \in Nat
        /\ object' = [object EXCEPT ![t] = o] /\ fn' = [fn EXCEPT ![t] = NoMethod]
        /\ call' = [call EXCEPT ![t] = calls + 1] /\ calls' = calls + 1
        /\ UNCHANGED <<language, closed, unset, monitor, strings, stored>>
    BY <1>1 DEF Open, Starts, Objects
  <2>2. CASE heap' = [heap EXCEPT ![o] = "live"] /\ lastError' = ClearError(t) /\ Ends(t, None, None) /\ UNCHANGED step
    BY <2>1, <2>2 DEF ClearError, Ends
  <2>3. ASSUME NEW w \in {"path", "locked"}, Fail(t, calls + 1, w), UNCHANGED heap PROVE TypeInv'
    BY <2>1, <2>3, FailTyped DEF Words
  <2> QED
    BY <1>1, <2>2, <2>3 DEF Open
<1>2. ASSUME NEW t \in Threads, NEW o \in Objects, NEW f \in Methods, Call(t, o, f) PROVE TypeInv'
  <2>1. /\ step[t] = "idle" /\ calls + 1 \in Nat /\ o \in Nat /\ f \in Natives
        /\ object' = [object EXCEPT ![t] = o] /\ fn' = [fn EXCEPT ![t] = f]
        /\ call' = [call EXCEPT ![t] = calls + 1] /\ calls' = calls + 1
        /\ UNCHANGED <<language, heap, closed, unset, monitor, lastError, strings, stored>>
    BY <1>2 DEF Call, Starts, Objects
  <2>2. CASE Goes(t, "checked") /\ Ends(t, None, None)
    BY <2>1, <2>2 DEF Goes, Ends
  <2>3. ASSUME NEW refusal, refusal = Failure(calls + 1, "closed"), Ends(t, refusal, refusal), UNCHANGED step
        PROVE  TypeInv'
    <3>1. refusal \in Reasons
      BY <2>1, <2>3, FailureTyped DEF Words
    <3> QED
      BY <2>1, <2>3, <3>1 DEF Ends
  <2> QED
    BY <1>2, <2>2, <2>3 DEF Call
<1>3. ASSUME NEW t \in Threads, Enter(t) PROVE TypeInv'
  <2>1. /\ step[t] = "checked" /\ fn[t] \in Natives /\ call[t] \in Nat
        /\ UNCHANGED <<language, heap, closed, unset, monitor, object, fn, call, strings, stored, calls>>
    BY <1>3 DEF Enter
  <2>2. ASSUME NEW w \in Words, Fail(t, call[t], w) PROVE TypeInv'
    BY <2>1, <2>2, FailTyped
  <2>3. CASE lastError' = ClearError(t) /\ Goes(t, "inside") /\ UNCHANGED <<own, message>>
    BY <2>1, <2>3 DEF ClearError, Goes
  <2>4. "handle" \in Words /\ fn[t].args \subseteq Words
    BY <2>1, NativesTyped DEF Words
  <2> QED
    BY <1>3, <2>2, <2>3, <2>4 DEF Enter
<1>4. ASSUME NEW t \in Threads, Run(t) PROVE TypeInv'
  <2>1. /\ step[t] = "inside" /\ call[t] \in Nat
        /\ UNCHANGED <<language, heap, closed, unset, monitor, object, fn, call, calls>>
    BY <1>4 DEF Run
  <2>2. ASSUME NEW n \in Nat, Stores(t, n) PROVE stored' \in [Calls -> Nat]
    BY <2>2 DEF Stores
  <2>3. fn[t].writes \in Nat /\ Unfinished(fn[t]) \subseteq Nat
    BY NativesTyped DEF Unfinished
  <2>4. ASSUME NEW w \in Words, Fail(t, call[t], w), UNCHANGED strings, stored' \in [Calls -> Nat]
        PROVE  TypeInv'
    BY <2>1, <2>4, FailTyped
  <2>5. ASSUME NEW s \in {"holding", "idle"}, Goes(t, s), UNCHANGED <<lastError, own, message>>,
               stored' \in [Calls -> Nat], strings' = [strings EXCEPT ![t] = @ + 1] \/ UNCHANGED strings
        PROVE  TypeInv'
    BY <2>1, <2>5 DEF Goes
  <2>6. "graph" \in Words /\ "encode" \in Words
    BY DEF Words
  <2>7. stored' \in [Calls -> Nat]
    BY <1>4, <2>2, <2>3 DEF Run
  <2> QED
    BY <1>4, <2>4, <2>5, <2>6, <2>7 DEF Run
<1>5. ASSUME NEW t \in Threads, Ask(t) PROVE TypeInv'
  BY <1>5 DEF Ask, Goes
<1>6. ASSUME NEW t \in Threads, Release(t) PROVE TypeInv'
  BY <1>6 DEF Release, Goes
<1>7. ASSUME NEW t \in Threads, NEW o \in Objects, CloseBegins(t, o) PROVE TypeInv'
  BY <1>7 DEF CloseBegins, Starts, Ends, Goes, Objects
<1>8. ASSUME NEW t \in Threads, Free(t) PROVE TypeInv'
  BY <1>8 DEF Free, Goes
<1>9. ASSUME NEW t \in Threads, CloseEnds(t) PROVE TypeInv'
  BY <1>9 DEF CloseEnds, Goes
<1>10. CASE UNCHANGED vars
  BY <1>10 DEF vars
<1> QED
  BY <1>1, <1>2, <1>3, <1>4, <1>5, <1>6, <1>7, <1>8, <1>9, <1>10 DEF Next

-----------------------------------------------------------------------------
(* A call is numbered once; the reason of its failure is in its thread's    *)
(* cell until it is asked for; and the graph has taken all its writes when  *)
(* it succeeds, and not the last one when it fails.                         *)
Cut(t) ==
    /\ stored[call[t]] \in Unfinished(fn[t])
    /\ own[t].what # "graph" => stored[call[t]] = 0

Fate(t) ==
    /\ step[t] \in InCall \cup {"failed", "reporting", "holding"} => call[t] \in Calls
    /\ step[t] \in InCall => own[t] = None /\ stored[call[t]] = 0
    /\ step[t] \in InClose => call[t] = 0
    /\ step[t] = "failed" => own[t] # None /\ lastError[t] = own[t] /\ Cut(t)
    /\ step[t] = "reporting" => own[t] # None /\ message[t] = own[t] /\ Cut(t)
    /\ step[t] = "holding" => own[t] = None /\ stored[call[t]] = fn[t].writes
    /\ step[t] = "idle" /\ call[t] # 0 =>
         /\ own[t] # None => message[t] = own[t] /\ Cut(t)
         /\ own[t] = None => stored[call[t]] = fn[t].writes

Numbered ==
    /\ calls <= MaxCalls
    /\ \A t \in Threads : call[t] <= calls
    /\ \A t, u \in Threads : t # u => call[t] = 0 \/ call[t] # call[u]
    /\ \A c \in Calls : stored[c] # 0 => c <= calls

OutcomeInv == TypeInv /\ Numbered /\ \A t \in Threads : Fate(t)

(* A thread whose variables a step leaves alone keeps its fate, unless the *)
(* step stores a write of its call.                                        *)
LEMMA FateKept ==
    ASSUME NEW u \in Threads, Fate(u),
           step'[u] = step[u], call'[u] = call[u], fn'[u] = fn[u], own'[u] = own[u],
           message'[u] = message[u], lastError'[u] = lastError[u],
           call[u] # 0 => stored'[call[u]] = stored[call[u]], 0 \notin Calls
    PROVE  Fate(u)'
  BY DEF Fate, Cut

(* A step of thread t leaves the others alone.                              *)
Others(t) ==
    \A u \in Threads \ {t} :
        /\ step'[u] = step[u] /\ call'[u] = call[u] /\ fn'[u] = fn[u] /\ own'[u] = own[u]
        /\ message'[u] = message[u] /\ lastError'[u] = lastError[u] /\ object'[u] = object[u]

LEMMA NumberedCalls ==
    ASSUME OutcomeInv
    PROVE  /\ 0 \notin Calls
           /\ \A t \in Threads : call[t] # 0 => call[t] \in Calls
           /\ calls < MaxCalls => calls + 1 \in Calls /\ stored[calls + 1] = 0
  BY BindingsAssumption DEF OutcomeInv, Numbered, TypeInv, Calls

LEMMA OthersKept ==
    ASSUME OutcomeInv, NEW t \in Threads, Others(t), Fate(t)',
           \/ stored' = stored
           \/ call[t] # 0 /\ \E n : stored' = [stored EXCEPT ![call[t]] = n]
    PROVE  \A u \in Threads : Fate(u)'
<1>1. ASSUME NEW u \in Threads, u # t PROVE Fate(u)'
  <2>1. ASSUME call[u] # 0 PROVE stored'[call[u]] = stored[call[u]]
    <3>1. call[u] \in Calls /\ (call[t] # 0 => call[u] # call[t])
      BY <1>1, <2>1, NumberedCalls DEF OutcomeInv, Numbered
    <3> QED
      BY <3>1 DEF OutcomeInv, TypeInv
  <2> QED
    BY <1>1, <2>1, FateKept, NumberedCalls DEF Others, OutcomeInv
<1> QED
  BY <1>1

(* A new call takes a fresh number.                                         *)
LEMMA NumbersKept ==
    ASSUME OutcomeInv, NEW t \in Threads, Others(t),
           \/ calls < MaxCalls /\ calls' = calls + 1 /\ call'[t] = calls + 1
           \/ calls' = calls /\ call'[t] \in {call[t], 0},
           \A c \in Calls : stored'[c] = stored[c] \/ c = call[t]
    PROVE  Numbered'
<1> USE BindingsAssumption DEF OutcomeInv, Numbered, TypeInv, Others
<1>1. calls' <= MaxCalls /\ \A u \in Threads : call'[u] \in Nat /\ call'[u] <= calls'
  OBVIOUS
<1>2. \A u, v \in Threads : u # v => call'[u] = 0 \/ call'[u] # call'[v]
  OBVIOUS
<1>3. ASSUME NEW c \in Calls, stored'[c] # 0 PROVE c <= calls'
  <2>1. stored[c] # 0 \/ c = call[t]
    BY <1>3
  <2>3. c <= calls
    BY <2>1
  <2>2. calls' = calls \/ calls' = calls + 1
    OBVIOUS
  <2> QED
    BY <2>2, <2>3 DEF Calls
<1> QED
  BY <1>1, <1>2, <1>3

LEMMA FailKeeps ==
    ASSUME TypeInv, NEW t \in Threads, NEW n \in Calls, NEW w, Fail(t, n, w), call'[t] = n,
           stored'[n] \in Unfinished(fn'[t]), w # "graph" => stored'[n] = 0
    PROVE  /\ Fate(t)'
           /\ \A u \in Threads \ {t} :
                /\ step'[u] = step[u] /\ own'[u] = own[u]
                /\ message'[u] = message[u] /\ lastError'[u] = lastError[u]
<1>1. /\ step'[t] = "failed" /\ own'[t] = Failure(n, w) /\ lastError'[t] = Failure(n, w)
      /\ \A u \in Threads \ {t} :
           /\ step'[u] = step[u] /\ own'[u] = own[u]
           /\ message'[u] = message[u] /\ lastError'[u] = lastError[u]
  BY DEF Fail, SetError, Ends, Goes, TypeInv
<1>2. n # 0 /\ n \in Nat
  BY BindingsAssumption DEF Calls
<1>3. Failure(n, w) # None /\ Failure(n, w).what = w
  BY <1>2, FailureIsSome DEF Failure
<1> QED
  BY <1>1, <1>3 DEF Fate, Cut, InCall, InClose

LEMMA NoneUnfinished == ASSUME NEW f PROVE 0 \in Unfinished(f)
  BY DEF Unfinished

LEMMA OutcomeStep == OutcomeInv /\ TypeInv' /\ [Next]_vars => OutcomeInv'
<1> SUFFICES ASSUME OutcomeInv, TypeInv', [Next]_vars PROVE Numbered' /\ \A u \in Threads : Fate(u)'
  BY DEF OutcomeInv
<1>0. TypeInv /\ BindingsAssumption
  BY BindingsAssumption DEF OutcomeInv
<1> DEFINE Kept == Numbered' /\ \A u \in Threads : Fate(u)'
<1> USE DEF handles, called, outcome
<1>1. ASSUME NEW t \in Threads, NEW o \in Objects, NEW m \in BOOLEAN, Open(t, o, m) PROVE Kept
  <2>0. calls + 1 \in Calls /\ stored[calls + 1] = 0 /\ calls < MaxCalls
    BY <1>1, NumberedCalls DEF Open
  <2>1. /\ call'[t] = calls + 1 /\ calls' = calls + 1 /\ stored' = stored /\ step[t] = "idle"
        /\ fn'[t] = NoMethod
        /\ \A u \in Threads \ {t} : call'[u] = call[u] /\ fn'[u] = fn[u] /\ object'[u] = object[u]
    BY <1>0, <1>1 DEF Open, Starts, TypeInv
  <2>2. ASSUME lastError' = ClearError(t), Ends(t, None, None), UNCHANGED step PROVE Others(t) /\ Fate(t)'
    <3>1. Others(t)
      BY <2>1, <2>2, <1>0 DEF Others, ClearError, Ends, TypeInv
    <3>2. step'[t] = "idle" /\ own'[t] = None /\ fn'[t].writes = 0
      BY <2>1, <2>2, <1>0 DEF Ends, TypeInv, NoMethod, Signature
    <3> QED
      BY <2>0, <2>1, <3>1, <3>2 DEF Fate, InCall, InClose
  <2>3. ASSUME NEW w \in {"path", "locked"}, Fail(t, calls + 1, w) PROVE Others(t) /\ Fate(t)'
    BY <2>0, <2>1, <2>3, <1>0, FailKeeps, NoneUnfinished DEF Others
  <2>4. Others(t) /\ Fate(t)'
    BY <1>1, <2>2, <2>3 DEF Open
  <2> QED
    BY <2>0, <2>1, <2>4, OthersKept, NumbersKept
<1>2. ASSUME NEW t \in Threads, NEW o \in Objects, NEW f \in Methods, Call(t, o, f) PROVE Kept
  <2>0. calls + 1 \in Calls /\ stored[calls + 1] = 0 /\ calls < MaxCalls
    BY <1>2, NumberedCalls DEF Call
  <2>1. /\ call'[t] = calls + 1 /\ calls' = calls + 1 /\ stored' = stored /\ step[t] = "idle"
        /\ \A u \in Threads \ {t} : call'[u] = call[u] /\ fn'[u] = fn[u] /\ object'[u] = object[u]
        /\ lastError' = lastError
    BY <1>0, <1>2 DEF Call, Starts, TypeInv
  <2>2. ASSUME Goes(t, "checked"), Ends(t, None, None) PROVE Others(t) /\ Fate(t)'
    <3>1. Others(t) /\ step'[t] = "checked" /\ own'[t] = None
      BY <2>1, <2>2, <1>0 DEF Others, Goes, Ends, TypeInv
    <3> QED
      BY <2>0, <2>1, <3>1 DEF Fate, InCall, InClose
  <2>3. ASSUME NEW r, r = Failure(calls + 1, "closed"), Ends(t, r, r), UNCHANGED step PROVE Others(t) /\ Fate(t)'
    <3>1. Others(t) /\ step'[t] = "idle" /\ own'[t] = r /\ message'[t] = r
      BY <2>1, <2>3, <1>0 DEF Others, Ends, TypeInv
    <3>2. r # None /\ r.what # "graph"
      BY <2>0, <2>3, FailureIsSome, BindingsAssumption DEF Calls, Failure
    <3> QED
      BY <2>0, <2>1, <3>1, <3>2, NoneUnfinished DEF Fate, Cut, InCall, InClose
  <2>4. Others(t) /\ Fate(t)'
    BY <1>2, <2>2, <2>3 DEF Call
  <2> QED
    BY <2>0, <2>1, <2>4, OthersKept, NumbersKept
<1>3. ASSUME NEW t \in Threads, Enter(t) PROVE Kept
  <2>1. /\ step[t] = "checked" /\ stored' = stored /\ calls' = calls
        /\ call' = call /\ fn' = fn /\ object' = object
    BY <1>3 DEF Enter
  <2>2. call[t] \in Calls /\ own[t] = None /\ stored[call[t]] = 0
    BY <2>1 DEF OutcomeInv, Fate, InCall, InClose
  <2>3. ASSUME NEW w, Fail(t, call[t], w) PROVE Others(t) /\ Fate(t)'
    BY <2>1, <2>2, <2>3, <1>0, FailKeeps, NoneUnfinished DEF Others
  <2>4. ASSUME lastError' = ClearError(t), Goes(t, "inside"), UNCHANGED <<own, message>> PROVE Others(t) /\ Fate(t)'
    <3>1. Others(t) /\ step'[t] = "inside"
      BY <2>1, <2>4, <1>0 DEF Others, ClearError, Goes, TypeInv
    <3> QED
      BY <2>1, <2>2, <2>4, <3>1 DEF Fate, InCall, InClose
  <2>5. Others(t) /\ Fate(t)'
    BY <1>3, <2>3, <2>4 DEF Enter
  <2> QED
    BY <2>1, <2>5, OthersKept, NumbersKept
<1>4. ASSUME NEW t \in Threads, Run(t) PROVE Kept
  <2>1. step[t] = "inside" /\ calls' = calls /\ call' = call /\ fn' = fn /\ object' = object
    BY <1>4 DEF Run
  <2>2. call[t] \in Calls /\ own[t] = None /\ stored[call[t]] = 0
    BY <2>1 DEF OutcomeInv, Fate, InCall, InClose
  <2>3. ASSUME NEW n, Stores(t, n)
        PROVE  /\ stored'[call[t]] = n /\ \E m : stored' = [stored EXCEPT ![call[t]] = m]
               /\ \A c \in Calls : stored'[c] = stored[c] \/ c = call[t]
    BY <2>2, <2>3, <1>0 DEF Stores, TypeInv
  <2>4. ASSUME NEW n \in Unfinished(fn[t]), Stores(t, n), Fail(t, call[t], "graph") PROVE Kept
    <3>1. stored'[call[t]] = n /\ stored'[call'[t]] \in Unfinished(fn'[t])
      BY <2>1, <2>3, <2>4
    <3>2. Others(t) /\ Fate(t)'
      BY <2>1, <2>2, <2>4, <3>1, <1>0, FailKeeps DEF Others
    <3> QED
      BY <2>1, <2>2, <2>3, <2>4, <3>2, OthersKept, NumbersKept, NumberedCalls
  <2>5. ASSUME Fail(t, call[t], "encode"), UNCHANGED stored PROVE Kept
    <3>1. Others(t) /\ Fate(t)'
      BY <2>1, <2>2, <2>5, <1>0, FailKeeps, NoneUnfinished DEF Others
    <3> QED
      BY <2>1, <2>5, <3>1, OthersKept, NumbersKept
  <2>6. ASSUME Stores(t, fn[t].writes), NEW s \in {"holding", "idle"},
               Goes(t, s), UNCHANGED <<lastError, own, message>>
        PROVE  Kept
    <3>1. Others(t) /\ step'[t] = s
      BY <2>1, <2>6, <1>0 DEF Others, Goes, TypeInv
    <3>2. Fate(t)'
      BY <2>1, <2>2, <2>3, <2>6, <3>1 DEF Fate, InCall, InClose
    <3> QED
      BY <2>1, <2>2, <2>3, <2>6, <3>1, <3>2, OthersKept, NumbersKept, NumberedCalls
  <2> QED
    BY <1>4, <2>4, <2>5, <2>6 DEF Run
<1>5. ASSUME NEW t \in Threads, Ask(t) PROVE Kept
  <2>1. /\ step[t] = "failed" /\ calls' = calls /\ stored' = stored
        /\ call' = call /\ fn' = fn /\ object' = object /\ lastError' = lastError /\ own' = own
    BY <1>5 DEF Ask
  <2>2. call[t] \in Calls /\ own[t] # None /\ lastError[t] = own[t] /\ Cut(t)
    BY <2>1 DEF OutcomeInv, Fate
  <2>3. Others(t) /\ step'[t] = "reporting" /\ message'[t] = own[t]
    BY <1>0, <1>5, <2>1, <2>2 DEF Ask, Others, Goes, TypeInv
  <2>4. Fate(t)'
    BY <2>1, <2>2, <2>3 DEF Fate, Cut, InCall, InClose
  <2> QED
    BY <2>1, <2>3, <2>4, OthersKept, NumbersKept
<1>6. ASSUME NEW t \in Threads, Release(t) PROVE Kept
  <2>1. /\ step[t] \in {"holding", "reporting"} /\ calls' = calls /\ stored' = stored
        /\ call' = call /\ fn' = fn /\ object' = object
        /\ lastError' = lastError /\ own' = own /\ message' = message
    BY <1>6 DEF Release
  <2>2. Others(t) /\ step'[t] = "idle"
    BY <1>0, <1>6, <2>1 DEF Release, Others, Goes, TypeInv
  <2>3. Fate(t)'
    BY <2>1, <2>2 DEF OutcomeInv, Fate, Cut, InCall, InClose
  <2> QED
    BY <2>1, <2>2, <2>3, OthersKept, NumbersKept
<1>7. ASSUME NEW t \in Threads, NEW o \in Objects, CloseBegins(t, o) PROVE Kept
  <2>1. /\ calls' = calls /\ stored' = stored /\ call'[t] = 0 /\ step'[t] = "freeing" /\ Others(t)
    BY <1>0, <1>7 DEF CloseBegins, Starts, Ends, Goes, Others, TypeInv
  <2>2. Fate(t)'
    BY <2>1 DEF Fate, InCall, InClose
  <2> QED
    BY <2>1, <2>2, OthersKept, NumbersKept
<1>8. ASSUME NEW t \in Threads, Free(t) PROVE Kept
  <2>1. /\ calls' = calls /\ stored' = stored /\ call' = call /\ step[t] = "freeing"
        /\ step'[t] = "clearing" /\ Others(t)
    BY <1>0, <1>8 DEF Free, Goes, Others, TypeInv
  <2>2. Fate(t)'
    BY <2>1 DEF OutcomeInv, Fate, InCall, InClose
  <2> QED
    BY <2>1, <2>2, OthersKept, NumbersKept
<1>9. ASSUME NEW t \in Threads, CloseEnds(t) PROVE Kept
  <2>1. /\ step[t] = "clearing" /\ calls' = calls /\ stored' = stored /\ call' = call
        /\ step'[t] = "idle" /\ Others(t)
    BY <1>0, <1>9 DEF CloseEnds, Goes, Others, TypeInv
  <2>2. Fate(t)'
    BY <2>1 DEF OutcomeInv, Fate, InCall, InClose
  <2> QED
    BY <2>1, <2>2, OthersKept, NumbersKept
<1>10. CASE UNCHANGED vars
  BY <1>10 DEF vars, OutcomeInv, Numbered, Fate, Cut
<1> HIDE DEF Kept
<1> QED
  <2>1. Kept
    BY <1>1, <1>2, <1>3, <1>4, <1>5, <1>6, <1>7, <1>8, <1>9, <1>10 DEF Next, Kept
  <2> QED
    BY <2>1 DEF Kept

LEMMA OutcomeInitially == Init => OutcomeInv
<1> SUFFICES ASSUME Init PROVE OutcomeInv
  OBVIOUS
<1>1. \A t \in Threads : step[t] = "idle" /\ call[t] = 0
  BY DEF Init
<1> QED
  BY <1>1, InitTyped, BindingsAssumption DEF Init, OutcomeInv, Numbered, Fate, InCall, InClose

(* What a method tells its caller is the fate of that very call, for any   *)
(* number of threads that fail at once: set_last_error and                 *)
(* kronroe_last_error_message speak of one thread's cell.                  *)
THEOREM MethodsTellTheirFate == Spec => []OutcomesAreTrue
<1>1. OutcomeInv => OutcomesAreTrue
  BY DEF OutcomeInv, Fate, Cut, OutcomesAreTrue
<1>2. OutcomeInv /\ [Next]_vars => OutcomeInv'
  BY TypeStep, OutcomeStep DEF OutcomeInv
<1> QED
  BY OutcomeInitially, <1>1, <1>2, PTL DEF Spec

-----------------------------------------------------------------------------
(* Graphs that no thread frees under another.                              *)
Uses(t)  == step[t] \in InCall
Closes(t) == step[t] \in InClose

(* A freed object stays closed to every method and every close.            *)
Shut(o) ==
    /\ language = "kotlin" => o \in closed
    /\ language = "swift" => o \in unset \/ Closing(o) # {}

HandleInv ==
    /\ TypeInv
    /\ \A t \in Threads : Uses(t) \/ step[t] = "freeing" => heap[object[t]] = "live"
    /\ \A t, u \in Threads : t # u /\ Closes(t) /\ (Uses(u) \/ Closes(u)) => object[t] # object[u]
    /\ \A t \in Threads : Closes(t) /\ language = "kotlin" => object[t] \in closed
    /\ \A o \in Objects : heap[o] = "freed" => Shut(o)
    /\ \A t \in Threads : strings[t] = IF step[t] \in {"holding", "reporting"} THEN 1 ELSE 0

LEMMA HandleStep ==
    (Overlap = FALSE) /\ HandleInv /\ TypeInv' /\ [Next]_vars => HandleInv'
<1> SUFFICES ASSUME Overlap = FALSE, HandleInv, TypeInv', [Next]_vars PROVE HandleInv'
  OBVIOUS
<1> USE DEF HandleInv, Uses, Closes, Shut, Closing, InMethod, InCall, InClose, TypeInv, handles, called
<1>1. ASSUME NEW t \in Threads, NEW o \in Objects, NEW m \in BOOLEAN, Open(t, o, m) PROVE HandleInv'
  BY <1>1 DEF Open, Starts, Fail, Goes
<1>2. ASSUME NEW t \in Threads, NEW o \in Objects, NEW f \in Methods, Call(t, o, f) PROVE HandleInv'
  BY <1>2 DEF Call, Starts, Goes, Gone
<1>3. ASSUME NEW t \in Threads, Enter(t) PROVE HandleInv'
  BY <1>3 DEF Enter, Fail, Goes
<1>4. ASSUME NEW t \in Threads, Run(t) PROVE HandleInv'
  BY <1>4 DEF Run, Fail, Goes
<1>5. ASSUME NEW t \in Threads, Ask(t) PROVE HandleInv'
  BY <1>5 DEF Ask, Goes
<1>6. ASSUME NEW t \in Threads, Release(t) PROVE HandleInv'
  BY <1>6 DEF Release, Goes
<1>7. ASSUME NEW t \in Threads, NEW o \in Objects, CloseBegins(t, o) PROVE HandleInv'
  BY <1>7 DEF CloseBegins, Starts, Goes, OpenForClose, MayClose
<1>8. ASSUME NEW t \in Threads, Free(t) PROVE HandleInv'
  BY <1>8 DEF Free, Goes
<1>9. ASSUME NEW t \in Threads, CloseEnds(t) PROVE HandleInv'
  BY <1>9 DEF CloseEnds, Goes
<1>10. CASE UNCHANGED vars
  BY <1>10 DEF vars
<1> QED
  BY <1>1, <1>2, <1>3, <1>4, <1>5, <1>6, <1>7, <1>8, <1>9, <1>10 DEF Next

LEMMA HandleInitially == Init => HandleInv
  BY InitTyped DEF Init, HandleInv, Uses, Closes, InCall, InClose

(* As long as no close overlaps a method of its object, no native graph is *)
(* used or freed after kronroe_graph_close or nativeClose has dropped it,  *)
(* and every string handed out is held by one method: the flag of Kotlin's *)
(* close and the handle field of Swift's are enough, for any number of     *)
(* objects and threads.                                                    *)
THEOREM GraphsOutliveCalls == (Overlap = FALSE) /\ Spec => []HandlesOutliveCalls
<1>1. HandleInv => HandlesOutliveCalls
  BY DEF HandleInv, HandlesOutliveCalls, Uses, Closes, InCall, InClose
<1>2. (Overlap = FALSE) /\ HandleInv /\ [Next]_vars => HandleInv'
  BY TypeStep, HandleStep DEF HandleInv
<1>3. ASSUME Overlap = FALSE PROVE Spec => []HandlesOutliveCalls
  <2>1. HandleInv /\ [Next]_vars => HandleInv'
    BY <1>2, <1>3
  <2> QED
    BY HandleInitially, <1>1, <2>1, PTL DEF Spec
<1> QED
  BY <1>3

====
