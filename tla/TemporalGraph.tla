---- MODULE TemporalGraph ----
(***************************************************************************)
(* The write API of TemporalGraph (temporal_graph.rs), called by several   *)
(* clients at once.  Every storage operation is one step here, as it runs  *)
(* under the state mutex.  What is between two storage operations of a     *)
(* call, and between one and the update of a cache, is open to every other *)
(* client and to a restart.                                                *)
(*                                                                         *)
(* The file promises what DurableStore does: a write that succeeds is in   *)
(* force, and the record of one that fails, or that the process dies in,   *)
(* is in doubt until its entries are written again.  What a restart loads  *)
(* may hold it, whole, or not.                                             *)
(*                                                                         *)
(* invalidate_fact is the only operation that sets valid_to or expired_at, *)
(* and it sets both: a fact is current or ended.  Two current facts        *)
(* overlap in valid time; whether they conflict depends on their objects.  *)
(***************************************************************************)
EXTENDS FiniteSets

CONSTANTS
    Clients,
    FactIds,
    Slots,    \* (subject, predicate) pairs, each with a predicate of its own
    Objects,  \* two different objects conflict
    IdemKeys,
    Dims,     \* embedding lengths
    Policies, \* the conflict policies that callers register
    Faults,   \* what may go wrong: "error" of a write, "restart" of the process
    NoCall

ASSUME PoliciesAssumption == Policies \subseteq {"allow", "warn", "reject"}
ASSUME FaultsAssumption == Faults \subseteq {"error", "restart"}

VARIABLES
    \* What the process holds of the store.
    facts,      \* fact id -> row
    keys,       \* idempotency key -> fact id
    registry,   \* conflict policy of each slot's predicate
    embeddings, \* fact id -> length of its embedding
    \* The file, as a record of the four tables.
    settled,    \* what the writes that succeeded built
    doubt,      \* <<entry, value>> of the records in doubt
    \* Rebuilt from the store by init.
    policies,   \* contradiction_detector
    vectors,    \* vector_index
    \* The clients.
    pc,         \* next step of each client's call
    call,       \* what that step works with
    \* For the properties.
    answers,    \* fact ids returned for each idempotency key
    strict,     \* facts whose check rejects conflicts and returned success
    loose,      \* slots written to by a call that does not promise to check
    overlapped  \* slots whose latest registration overlapped another one

store  == <<facts, keys, registry, embeddings>>
file   == <<settled, doubt>>
caches == <<policies, vectors>>
client == <<pc, call>>
ghost  == <<answers, strict, loose, overlapped>>
vars   == <<store, file, caches, client, ghost>>

Policy == Policies \cup {"unregistered"}

Tables == {"facts", "keys", "registry", "embeddings"}

Row == [slot : Slots, object : Objects, ended : BOOLEAN]

(* What each step of a call has at hand. *)
Correction == [slot : Slots, object : Objects]
Arguments ==
    [ idle       |-> {NoCall},
      idempotent |-> [slot : Slots, object : Objects, key : IdemKeys],
      assert     |-> [slot : Slots, object : Objects, corrects : BOOLEAN],
      checked    |-> [slot : Slots, object : Objects, reject : BOOLEAN],
      reread     |-> [fact : FactIds, then : Correction],
      replace    |-> [fact : FactIds, row : Row, then : Correction \cup {NoCall}],
      cache      |-> [slot : Slots, policy : Policies],
      index      |-> [fact : FactIds, dim : Dims] ]

IsMap(f, S, T) ==
    f = [x \in DOMAIN f |-> f[x]] /\ DOMAIN f \subseteq S /\ \A x \in DOMAIN f : f[x] \in T

TypeOK ==
    /\ IsMap(facts, FactIds, Row) /\ IsMap(keys, IdemKeys, FactIds)
    /\ registry \in [Slots -> Policy] /\ policies \in [Slots -> Policy]
    /\ IsMap(embeddings, FactIds, Dims) /\ IsMap(vectors, FactIds, Dims)
    /\ settled = [t \in Tables |-> settled[t]]
    /\ IsMap(settled.facts, FactIds, Row) /\ IsMap(settled.keys, IdemKeys, FactIds)
    /\ settled.registry \in [Slots -> Policy] /\ IsMap(settled.embeddings, FactIds, Dims)
    /\ doubt \in [facts : SUBSET (FactIds \X Row), keys : SUBSET (IdemKeys \X FactIds),
                  registry : SUBSET (Slots \X Policies), embeddings : SUBSET (FactIds \X Dims)]
    /\ pc \in [Clients -> DOMAIN Arguments]
    /\ \A c \in Clients : call[c] \in Arguments[pc[c]]
    /\ answers \in [IdemKeys -> SUBSET FactIds]
    /\ strict \subseteq FactIds /\ loose \subseteq Slots /\ overlapped \subseteq Slots

Empty == [x \in {} |-> {}]

Init ==
    /\ facts = Empty /\ keys = Empty /\ embeddings = Empty /\ vectors = Empty
    /\ registry = [s \in Slots |-> "unregistered"] /\ policies = registry
    /\ settled = [facts |-> facts, keys |-> keys, registry |-> registry, embeddings |-> embeddings]
    /\ doubt = [t \in Tables |-> {}]
    /\ pc = [c \in Clients |-> "idle"] /\ call = [c \in Clients |-> NoCall]
    /\ answers = [k \in IdemKeys |-> {}]
    /\ strict = {} /\ loose = {} /\ overlapped = {}

-----------------------------------------------------------------------------
Over(f, g) == [x \in DOMAIN f \cup DOMAIN g |-> IF x \in DOMAIN g THEN g[x] ELSE f[x]]

Entry(x, v) == [y \in {x} |-> v]

(* A record overwrites entries of the tables. *)
NoEntries == [facts |-> Empty, keys |-> Empty, registry |-> Empty, embeddings |-> Empty]
FactRecord(f, row)  == [NoEntries EXCEPT !.facts = Entry(f, row)]
KeyedRecord(f, row, k) == [FactRecord(f, row) EXCEPT !.keys = Entry(k, f)]
EmbeddedRecord(f, row, d) == [FactRecord(f, row) EXCEPT !.embeddings = Entry(f, d)]
PolicyRecord(s, p)  == [NoEntries EXCEPT !.registry = Entry(s, p)]

(* The record is in the file and synced; then it is applied to the state. *)
Succeeds(r) ==
    /\ facts' = Over(facts, r.facts) /\ keys' = Over(keys, r.keys)
    /\ registry' = Over(registry, r.registry) /\ embeddings' = Over(embeddings, r.embeddings)
    /\ settled' = [t \in Tables |-> Over(settled[t], r[t])]
    /\ doubt' = [t \in Tables |-> {p \in doubt[t] : p[1] \notin DOMAIN r[t]}]

(* An error, of the write or of its sync: what of the record is in the     *)
(* file is not known, and the state is as it was.  A process that dies in  *)
(* a write leaves the same behind: here, an error and then a restart.      *)
Fails(r) ==
    /\ "error" \in Faults
    /\ doubt' \in {doubt, [t \in Tables |-> doubt[t] \cup {<<x, r[t][x]>> : x \in DOMAIN r[t]}]}
    /\ UNCHANGED <<store, settled>>

(* What a table may be when it is loaded: an entry is as the writes that   *)
(* succeeded left it, or as a record in doubt has it.                      *)
Loads(table, unsure) ==
    {m \in UNION {[DOMAIN table \cup X -> {table[x] : x \in DOMAIN table} \cup {p[2] : p \in unsure}] :
                     X \in SUBSET {p[1] : p \in unsure}} :
       \A x \in DOMAIN m : (x \in DOMAIN table /\ m[x] = table[x]) \/ <<x, m[x]>> \in unsure}

Goto(c, step, arguments) ==
    /\ pc' = [pc EXCEPT ![c] = step]
    /\ call' = [call EXCEPT ![c] = arguments]
Return(c) == Goto(c, "idle", NoCall)

Idle(c) == pc[c] = "idle"

(* build_fact draws an id no fact has, here or in the file. *)
Fresh == FactIds \ (DOMAIN facts \cup {p[1] : p \in doubt.facts})

(* assert_fact, from a client or as the last step of another call. *)
CallAssert(c) == \E s \in Slots, o \in Objects :
    /\ Idle(c)
    /\ Goto(c, "assert", [slot |-> s, object |-> o, corrects |-> FALSE])
    /\ UNCHANGED <<store, file, caches, ghost>>

(* The row a client is about to store. *)
NewRowOf(c) == [slot |-> call[c].slot, object |-> call[c].object, ended |-> FALSE]

Promises(c) ==
    \/ pc[c] = "assert" /\ call[c].corrects
    \/ pc[c] = "checked" /\ call[c].reject
Loosens(c) == loose' = IF Promises(c) THEN loose ELSE loose \cup {call[c].slot}

WriteFact(c) == \E f \in Fresh :
    /\ pc[c] = "assert"
    /\ Succeeds(FactRecord(f, NewRowOf(c)))
    /\ Loosens(c) /\ Return(c)
    /\ UNCHANGED <<caches, answers, strict, overlapped>>

-----------------------------------------------------------------------------
(* assert_fact_idempotent: look the key up; look again under the lock.     *)

Answer(k, f) == answers' = [answers EXCEPT ![k] = @ \cup {f}]

LookUpKey(c) == \E k \in IdemKeys, s \in Slots, o \in Objects :
    /\ Idle(c)
    /\ IF k \in DOMAIN keys
         THEN Answer(k, keys[k]) /\ UNCHANGED client
         ELSE /\ Goto(c, "idempotent", [slot |-> s, object |-> o, key |-> k])
              /\ UNCHANGED answers
    /\ UNCHANGED <<store, file, caches, strict, loose, overlapped>>

StoreWithKey(c) == \E f \in Fresh :
    /\ Succeeds(KeyedRecord(f, NewRowOf(c), call[c].key))
    /\ Answer(call[c].key, f)
    /\ Loosens(c)

(* Mutant: the first look is trusted. *)
WriteIdempotentUnchecked(c) ==
    /\ pc[c] = "idempotent"
    /\ StoreWithKey(c)
    /\ Return(c)
    /\ UNCHANGED <<caches, strict, overlapped>>

WriteIdempotent(c) ==
    /\ pc[c] = "idempotent"
    /\ LET k == call[c].key IN
       IF k \in DOMAIN keys
         THEN Answer(k, keys[k]) /\ UNCHANGED <<store, file, loose>>
         ELSE StoreWithKey(c)
    /\ Return(c)
    /\ UNCHANGED <<caches, strict, overlapped>>

-----------------------------------------------------------------------------
(* invalidate_fact reads the row and writes it back ended; correct_fact    *)
(* reads it, invalidates, and asserts the replacement.                     *)

CallInvalidate(c) == \E f \in DOMAIN facts :
    /\ Idle(c)
    /\ Goto(c, "replace", [fact |-> f, row |-> facts[f], then |-> NoCall])
    /\ UNCHANGED <<store, file, caches, ghost>>

CallCorrect(c) == \E f \in DOMAIN facts, o \in Objects :
    /\ Idle(c)
    /\ Goto(c, "reread", [fact |-> f, then |-> [slot |-> facts[f].slot, object |-> o]])
    /\ UNCHANGED <<store, file, caches, ghost>>

ReadAgain(c) ==
    /\ pc[c] = "reread"
    /\ Goto(c, "replace", [fact |-> call[c].fact, row |-> facts[call[c].fact],
                           then |-> call[c].then])
    /\ UNCHANGED <<store, file, caches, ghost>>

EndRecord(c) == FactRecord(call[c].fact, [call[c].row EXCEPT !.ended = TRUE])

ReplaceRow(c) ==
    /\ pc[c] = "replace"
    /\ Succeeds(EndRecord(c))
    /\ LET then == call[c].then IN
       IF then = NoCall
         THEN Return(c)
         ELSE Goto(c, "assert", [slot |-> then.slot, object |-> then.object, corrects |-> TRUE])
    /\ UNCHANGED <<caches, ghost>>

-----------------------------------------------------------------------------
(* register_singleton_predicate: the store, then the detector.             *)

(* Another client has stored an entry for s and not yet cached it. *)
Registering(c, s) == \E d \in Clients \ {c} : pc[d] = "cache" /\ call[d].slot = s

StoreRegistration(c) == \E s \in Slots, p \in Policies :
    /\ Idle(c)
    /\ Succeeds(PolicyRecord(s, p))
    /\ overlapped' = IF Registering(c, s) THEN overlapped \cup {s} ELSE overlapped \ {s}
    /\ Goto(c, "cache", [slot |-> s, policy |-> p])
    /\ UNCHANGED <<caches, answers, strict, loose>>

(* The error leaves the detector as it was. *)
FailRegistration(c) == \E s \in Slots, p \in Policies :
    /\ Idle(c)
    /\ Fails(PolicyRecord(s, p))
    /\ UNCHANGED <<caches, client, ghost>>

(* Mutant: an entry that is already cached is kept. *)
CacheFirstRegistration(c) ==
    /\ pc[c] = "cache"
    /\ policies' = [policies EXCEPT ![call[c].slot] =
                       IF @ = "unregistered" THEN call[c].policy ELSE @]
    /\ Return(c)
    /\ UNCHANGED <<store, file, vectors, ghost>>

CacheRegistration(c) ==
    /\ pc[c] = "cache"
    /\ policies' = [policies EXCEPT ![call[c].slot] = call[c].policy]
    /\ Return(c)
    /\ UNCHANGED <<store, file, vectors, ghost>>

(* assert_fact_checked reads the policy from the detector; for Warn and    *)
(* Reject it checks and writes under the state mutex, else it asserts.     *)
CallAssertChecked(c) == \E s \in Slots, o \in Objects :
    /\ Idle(c)
    /\ IF policies[s] \in {"unregistered", "allow"}
         THEN Goto(c, "assert", [slot |-> s, object |-> o, corrects |-> FALSE])
         ELSE Goto(c, "checked", [slot |-> s, object |-> o, reject |-> policies[s] = "reject"])
    /\ UNCHANGED <<store, file, caches, ghost>>

Current(s) == {f \in DOMAIN facts : facts[f].slot = s /\ ~facts[f].ended}

Contradicts(s, o) == \E f \in Current(s) : facts[f].object # o

Rejected(c) == call[c].reject /\ Contradicts(call[c].slot, call[c].object)

StoreChecked(c) == \E f \in Fresh :
    /\ Succeeds(FactRecord(f, NewRowOf(c)))
    /\ strict' = IF call[c].reject THEN strict \cup {f} ELSE strict
    /\ Loosens(c)

(* Mutant: contradictions are reported and never rejected. *)
WriteUnlessNothing(c) ==
    /\ pc[c] = "checked"
    /\ StoreChecked(c)
    /\ Return(c)
    /\ UNCHANGED <<caches, answers, overlapped>>

WriteChecked(c) ==
    /\ pc[c] = "checked"
    /\ IF Rejected(c)
         THEN UNCHANGED <<store, file, strict, loose>>
         ELSE StoreChecked(c)
    /\ Return(c)
    /\ UNCHANGED <<caches, answers, overlapped>>

-----------------------------------------------------------------------------
(* assert_fact_with_embedding: the store, then the vector index.           *)

Embedded(f, s, o, d) ==
    EmbeddedRecord(f, [slot |-> s, object |-> o, ended |-> FALSE], d)

StoreEmbedding(c, f, s, o, d) ==
    /\ Succeeds(Embedded(f, s, o, d))
    /\ loose' = loose \cup {s}
    /\ Goto(c, "index", [fact |-> f, dim |-> d])
    /\ UNCHANGED <<caches, answers, strict, overlapped>>

(* Mutant: the length is compared with the index, not with the store. *)
WriteEmbeddingAsIndexed(c) == \E f \in Fresh, s \in Slots, o \in Objects, d \in Dims :
    /\ Idle(c)
    /\ \A g \in DOMAIN vectors : vectors[g] = d
    /\ StoreEmbedding(c, f, s, o, d)

WriteEmbedding(c) == \E f \in Fresh, s \in Slots, o \in Objects, d \in Dims :
    /\ Idle(c)
    /\ \A g \in DOMAIN embeddings : embeddings[g] = d
    /\ StoreEmbedding(c, f, s, o, d)

FailEmbedding(c) == \E f \in Fresh, s \in Slots, o \in Objects, d \in Dims :
    /\ Idle(c)
    /\ \A g \in DOMAIN embeddings : embeddings[g] = d
    /\ Fails(Embedded(f, s, o, d))
    /\ loose' = loose \cup {s}
    /\ UNCHANGED <<caches, client, answers, strict, overlapped>>

(* VectorIndex::insert refuses a length other than the index's. *)
IndexEmbedding(c) ==
    /\ pc[c] = "index"
    /\ vectors' = IF \A g \in DOMAIN vectors : vectors[g] = call[c].dim
                    THEN Over(vectors, Entry(call[c].fact, call[c].dim))
                    ELSE vectors
    /\ Return(c)
    /\ UNCHANGED <<store, file, policies, ghost>>

-----------------------------------------------------------------------------
(* A storage write returns an error: so does the call, where it stands. *)
FailFact(c) ==
    /\ \/ pc[c] = "assert" /\ \E f \in Fresh : Fails(FactRecord(f, NewRowOf(c)))
       \/ pc[c] = "checked" /\ ~Rejected(c) /\ \E f \in Fresh : Fails(FactRecord(f, NewRowOf(c)))
       \/ /\ pc[c] = "idempotent" /\ call[c].key \notin DOMAIN keys
          /\ \E f \in Fresh : Fails(KeyedRecord(f, NewRowOf(c), call[c].key))
    /\ Loosens(c) /\ Return(c)
    /\ UNCHANGED <<caches, answers, strict, overlapped>>

FailEnd(c) ==
    /\ pc[c] = "replace"
    /\ Fails(EndRecord(c))
    /\ Return(c)
    /\ UNCHANGED <<caches, ghost>>

(* The process dies and opens the database again: init, which refuses      *)
(* embeddings of two lengths.  An open that is refused is no step.  A key  *)
(* that no write has succeeded for is answered anew.                       *)
Restart ==
    /\ "restart" \in Faults
    /\ facts' \in Loads(settled.facts, doubt.facts)
    /\ keys' \in Loads(settled.keys, doubt.keys)
    /\ registry' \in Loads(settled.registry, doubt.registry)
    /\ embeddings' \in Loads(settled.embeddings, doubt.embeddings)
    /\ \A k \in DOMAIN keys' : keys'[k] \in DOMAIN facts'
    /\ DOMAIN embeddings' \subseteq DOMAIN facts'
    /\ \A f, g \in DOMAIN embeddings' : embeddings'[f] = embeddings'[g]
    /\ policies' = registry' /\ vectors' = embeddings'
    /\ pc' = [c \in Clients |-> "idle"] /\ call' = [c \in Clients |-> NoCall]
    /\ answers' = [k \in IdemKeys |-> IF k \in DOMAIN settled.keys THEN answers[k] ELSE {}]
    /\ overlapped' = {}
    /\ UNCHANGED <<file, strict, loose>>

Next ==
    \/ \E c \in Clients :
          \/ CallAssert(c) \/ WriteFact(c)
          \/ LookUpKey(c) \/ WriteIdempotent(c)
          \/ CallInvalidate(c) \/ CallCorrect(c) \/ ReadAgain(c) \/ ReplaceRow(c)
          \/ StoreRegistration(c) \/ CacheRegistration(c)
          \/ CallAssertChecked(c) \/ WriteChecked(c)
          \/ WriteEmbedding(c) \/ IndexEmbedding(c)
          \/ FailFact(c) \/ FailEnd(c) \/ FailRegistration(c) \/ FailEmbedding(c)
    \/ Restart

Spec == Init /\ [][Next]_vars

-----------------------------------------------------------------------------
Agree(S) == \A f, g \in S : facts[f].object = facts[g].object

(* Every call with an idempotency key, and every retry of it, by any       *)
(* client and after any errors, is answered with the same stored fact:     *)
(* while the process lives, and from the first write of the key that       *)
(* succeeds on, across restarts too.  (A key answered out of a record in   *)
(* doubt may be gone after the next open, and is then stored anew.)        *)
KeysAnswerOneFact ==
    \A k \in IdemKeys : \A f \in answers[k] :
        k \in DOMAIN keys /\ keys[k] = f /\ f \in DOMAIN facts

InDoubt(f) == \E p \in doubt.facts : p[1] = f

(* Two facts for which assert_fact_checked returned success under Reject   *)
(* never contradict while both are current, however the checks,            *)
(* invalidations with rows read earlier, corrections, policy changes,      *)
(* errors and restarts interleave.  Two cases are left out: an assertion   *)
(* that returned an error and that an open gives back, and a fact whose    *)
(* end is in doubt.                                                        *)
StrictFactsAgree ==
    \A s \in Slots : Agree({f \in Current(s) \cap strict : ~InDoubt(f)})

(* Unless registrations of a predicate overlapped, one is under way, or    *)
(* one failed and none has succeeded since, the detector decides by the    *)
(* policy a restart loads.                                                 *)
CacheFollowsStore ==
    \A s \in Slots :
        /\ s \notin overlapped
        /\ \A c \in Clients : pc[c] = "cache" => call[c].slot # s
        /\ \A p \in doubt.registry : p[1] # s
        => \A loaded \in Loads(settled.registry, doubt.registry) : policies[s] = loaded[s]

(* The vector index holds the stored embeddings except those a call is     *)
(* about to insert: every insert after the durable write succeeds, and a   *)
(* crash between the two loses nothing.                                    *)
VectorsFollowStore ==
    LET inserting == {call[c].fact : c \in {d \in Clients : pc[d] = "index"}} IN
    /\ DOMAIN vectors = DOMAIN embeddings \ inserting
    /\ \A f \in DOMAIN vectors : vectors[f] = embeddings[f]

(* What the documentation says without those conditions. *)

(* register_singleton_predicate: "Singleton predicates allow at most one   *)
(* active value per subject at any point in valid time."  Only assert_fact *)
(* (and the policies Allow and Warn) are said to bypass the check.         *)
SingletonHolds ==
    \A s \in Slots \ loose : Agree(Current(s))

(* ContradictionDetector: "Loaded from storage on init, kept in sync by    *)
(* register_singleton_predicate."                                          *)
CacheInSync ==
    \A s \in Slots :
        (\A c \in Clients : pc[c] = "cache" => call[c].slot # s) => policies[s] = registry[s]
====
