---- MODULE TemporalGraph_proofs ----
(***************************************************************************)
(* The write API of TemporalGraph, for any number of clients, facts, keys  *)
(* and predicates: what its interleaved calls, errors and restarts never   *)
(* break.                                                                  *)
(***************************************************************************)
EXTENDS TemporalGraph, TLAPS

Steps == {"idle", "idempotent", "assert", "checked", "reread", "replace", "cache", "index"}

LEMMA ArgumentsOf ==
    /\ DOMAIN Arguments = Steps
    /\ Arguments["idle"] = {NoCall}
    /\ Arguments["idempotent"] = [slot : Slots, object : Objects, key : IdemKeys]
    /\ Arguments["assert"] = [slot : Slots, object : Objects, corrects : BOOLEAN]
    /\ Arguments["checked"] = [slot : Slots, object : Objects, reject : BOOLEAN]
    /\ Arguments["reread"] = [fact : FactIds, then : Correction]
    /\ Arguments["replace"] = [fact : FactIds, row : Row, then : Correction \cup {NoCall}]
    /\ Arguments["cache"] = [slot : Slots, policy : Policies]
    /\ Arguments["index"] = [fact : FactIds, dim : Dims]
  BY DEF Arguments, Steps

(* Overwriting entries of a map. *)
LEMMA OverMaps ==
    ASSUME NEW S, NEW T, NEW f, IsMap(f, S, T), NEW g, IsMap(g, S, T)
    PROVE  IsMap(Over(f, g), S, T)
<1>1. /\ DOMAIN Over(f, g) = DOMAIN f \cup DOMAIN g
      /\ \A x \in DOMAIN Over(f, g) : Over(f, g)[x] = IF x \in DOMAIN g THEN g[x] ELSE f[x]
  BY DEF Over
<1>2. Over(f, g) = [y \in DOMAIN Over(f, g) |-> Over(f, g)[y]]
  BY DEF Over
<1>3. \A x \in DOMAIN Over(f, g) : Over(f, g)[x] \in T
  BY <1>1 DEF IsMap
<1> QED BY <1>1, <1>2, <1>3 DEF IsMap

LEMMA OverNothing ==
    ASSUME NEW f, f = [x \in DOMAIN f |-> f[x]]
    PROVE  Over(f, Empty) = f
  BY DEF Over, Empty

LEMMA EntryIsMap ==
    ASSUME NEW S, NEW T, NEW x \in S, NEW v \in T
    PROVE  IsMap(Entry(x, v), S, T)
  BY DEF IsMap, Entry

LEMMA EmptyIsMap ==
    ASSUME NEW S, NEW T
    PROVE  IsMap(Empty, S, T)
  BY DEF IsMap, Empty

-----------------------------------------------------------------------------
(* Records, and what one does to the tables. *)
IsRecord(r) ==
    /\ IsMap(r.facts, FactIds, Row) /\ IsMap(r.keys, IdemKeys, FactIds)
    /\ IsMap(r.registry, Slots, Policies) /\ IsMap(r.embeddings, FactIds, Dims)

LEMMA FactParts ==
    ASSUME NEW f, NEW row
    PROVE  /\ FactRecord(f, row).facts = Entry(f, row) /\ FactRecord(f, row).keys = Empty
           /\ FactRecord(f, row).registry = Empty /\ FactRecord(f, row).embeddings = Empty
  BY DEF FactRecord, NoEntries

LEMMA KeyedParts ==
    ASSUME NEW f, NEW row, NEW k
    PROVE  /\ KeyedRecord(f, row, k).facts = Entry(f, row)
           /\ KeyedRecord(f, row, k).keys = Entry(k, f)
           /\ KeyedRecord(f, row, k).registry = Empty /\ KeyedRecord(f, row, k).embeddings = Empty
  BY DEF KeyedRecord, FactRecord, NoEntries

LEMMA EmbeddedParts ==
    ASSUME NEW f, NEW row, NEW d
    PROVE  /\ EmbeddedRecord(f, row, d).facts = Entry(f, row)
           /\ EmbeddedRecord(f, row, d).keys = Empty
           /\ EmbeddedRecord(f, row, d).registry = Empty
           /\ EmbeddedRecord(f, row, d).embeddings = Entry(f, d)
  BY DEF EmbeddedRecord, FactRecord, NoEntries

LEMMA PolicyParts ==
    ASSUME NEW s, NEW p
    PROVE  /\ PolicyRecord(s, p).facts = Empty /\ PolicyRecord(s, p).keys = Empty
           /\ PolicyRecord(s, p).registry = Entry(s, p) /\ PolicyRecord(s, p).embeddings = Empty
  BY DEF PolicyRecord, NoEntries

LEMMA RecordsTyped ==
    /\ \A f \in FactIds, row \in Row : IsRecord(FactRecord(f, row))
    /\ \A f \in FactIds, row \in Row, k \in IdemKeys : IsRecord(KeyedRecord(f, row, k))
    /\ \A f \in FactIds, row \in Row, d \in Dims : IsRecord(EmbeddedRecord(f, row, d))
    /\ \A s \in Slots, p \in Policies : IsRecord(PolicyRecord(s, p))
<1>1. ASSUME NEW f \in FactIds, NEW row \in Row PROVE IsRecord(FactRecord(f, row))
  BY FactParts, EntryIsMap, EmptyIsMap DEF IsRecord
<1>2. ASSUME NEW f \in FactIds, NEW row \in Row, NEW k \in IdemKeys
      PROVE  IsRecord(KeyedRecord(f, row, k))
  BY KeyedParts, EntryIsMap, EmptyIsMap DEF IsRecord
<1>3. ASSUME NEW f \in FactIds, NEW row \in Row, NEW d \in Dims
      PROVE  IsRecord(EmbeddedRecord(f, row, d))
  BY EmbeddedParts, EntryIsMap, EmptyIsMap DEF IsRecord
<1>4. ASSUME NEW s \in Slots, NEW p \in Policies PROVE IsRecord(PolicyRecord(s, p))
  BY PolicyParts, EntryIsMap, EmptyIsMap DEF IsRecord
<1> QED BY <1>1, <1>2, <1>3, <1>4

(* Types of the store and caches, of the file, and of the clients' calls. *)
StoreOK ==
    /\ IsMap(facts, FactIds, Row) /\ IsMap(keys, IdemKeys, FactIds)
    /\ registry \in [Slots -> Policy] /\ policies \in [Slots -> Policy]
    /\ IsMap(embeddings, FactIds, Dims) /\ IsMap(vectors, FactIds, Dims)

FileOK ==
    /\ settled = [t \in Tables |-> settled[t]]
    /\ IsMap(settled.facts, FactIds, Row) /\ IsMap(settled.keys, IdemKeys, FactIds)
    /\ settled.registry \in [Slots -> Policy] /\ IsMap(settled.embeddings, FactIds, Dims)
    /\ doubt \in [facts : SUBSET (FactIds \X Row), keys : SUBSET (IdemKeys \X FactIds),
                  registry : SUBSET (Slots \X Policies), embeddings : SUBSET (FactIds \X Dims)]

(* What the process holds, entry by entry, is what the writes that         *)
(* succeeded built, or is in doubt.                                        *)
Holds(m, table, unsure) ==
    /\ DOMAIN table \subseteq DOMAIN m
    /\ \A x \in DOMAIN m : (x \in DOMAIN table /\ m[x] = table[x]) \/ <<x, m[x]>> \in unsure

FileHeld ==
    /\ Holds(facts, settled.facts, doubt.facts) /\ Holds(keys, settled.keys, doubt.keys)
    /\ Holds(registry, settled.registry, doubt.registry)
    /\ Holds(embeddings, settled.embeddings, doubt.embeddings)

LEMMA LoadsHolds ==
    ASSUME NEW table, NEW unsure, NEW m \in Loads(table, unsure)
    PROVE  Holds(m, table, unsure)
<1>1. PICK X \in SUBSET {p[1] : p \in unsure} :
        m \in [DOMAIN table \cup X -> {table[x] : x \in DOMAIN table} \cup {p[2] : p \in unsure}]
  BY DEF Loads
<1>2. \A x \in DOMAIN m : (x \in DOMAIN table /\ m[x] = table[x]) \/ <<x, m[x]>> \in unsure
  BY DEF Loads
<1> QED BY <1>1, <1>2 DEF Holds

LEMMA LoadsMap ==
    ASSUME NEW S, NEW T, NEW table, IsMap(table, S, T), NEW unsure \in SUBSET (S \X T),
           NEW m \in Loads(table, unsure)
    PROVE  IsMap(m, S, T)
<1>1. PICK X \in SUBSET {p[1] : p \in unsure} :
        m \in [DOMAIN table \cup X -> {table[x] : x \in DOMAIN table} \cup {p[2] : p \in unsure}]
  BY DEF Loads
<1>2. m = [x \in DOMAIN m |-> m[x]] /\ DOMAIN m = DOMAIN table \cup X
  BY <1>1
<1>3. \A p \in unsure : p[1] \in S /\ p[2] \in T
  OBVIOUS
<1>4. DOMAIN m \subseteq S
  BY <1>2, <1>3 DEF IsMap
<1>5. \A x \in DOMAIN m : m[x] \in T
  <2> SUFFICES ASSUME NEW x \in DOMAIN m PROVE m[x] \in T
    OBVIOUS
  <2>1. CASE x \in DOMAIN table /\ m[x] = table[x] BY <2>1 DEF IsMap
  <2>2. CASE <<x, m[x]>> \in unsure BY <2>2
  <2> QED BY <2>1, <2>2, LoadsHolds DEF Holds
<1> QED BY <1>2, <1>4, <1>5 DEF IsMap

LEMMA HoldsOver ==
    ASSUME NEW m, NEW table, NEW unsure, Holds(m, table, unsure), NEW g
    PROVE  Holds(Over(m, g), Over(table, g), {p \in unsure : p[1] \notin DOMAIN g})
  BY DEF Holds, Over

(* A record whose write succeeds. *)
LEMMA SucceedsTypes ==
    ASSUME StoreOK, FileOK, FileHeld, NEW r, IsRecord(r), Succeeds(r), UNCHANGED caches
    PROVE  StoreOK' /\ FileOK' /\ FileHeld' /\ DOMAIN facts \subseteq DOMAIN facts'
<1>1. /\ facts' = Over(facts, r.facts) /\ keys' = Over(keys, r.keys)
      /\ registry' = Over(registry, r.registry) /\ embeddings' = Over(embeddings, r.embeddings)
      /\ settled' = [t \in Tables |-> Over(settled[t], r[t])]
      /\ doubt' = [t \in Tables |-> {p \in doubt[t] : p[1] \notin DOMAIN r[t]}]
  BY DEF Succeeds
<1>2. /\ settled'.facts = Over(settled.facts, r.facts)
      /\ settled'.keys = Over(settled.keys, r.keys)
      /\ settled'.registry = Over(settled.registry, r.registry)
      /\ settled'.embeddings = Over(settled.embeddings, r.embeddings)
  BY <1>1 DEF Tables
<1>3. /\ doubt'.facts = {p \in doubt.facts : p[1] \notin DOMAIN r.facts}
      /\ doubt'.keys = {p \in doubt.keys : p[1] \notin DOMAIN r.keys}
      /\ doubt'.registry = {p \in doubt.registry : p[1] \notin DOMAIN r.registry}
      /\ doubt'.embeddings = {p \in doubt.embeddings : p[1] \notin DOMAIN r.embeddings}
  BY <1>1 DEF Tables
<1>4. \A a : a \in [Slots -> Policy] => Over(a, r.registry) \in [Slots -> Policy]
  <2> SUFFICES ASSUME NEW a \in [Slots -> Policy]
               PROVE  Over(a, r.registry) \in [Slots -> Policy]
    OBVIOUS
  <2>1. DOMAIN r.registry \subseteq Slots
        /\ \A s \in DOMAIN r.registry : r.registry[s] \in Policy
    BY DEF IsRecord, IsMap, Policy
  <2> QED BY <2>1 DEF Over
<1>5. StoreOK'
  <2>1. IsMap(facts', FactIds, Row) /\ IsMap(keys', IdemKeys, FactIds)
        /\ IsMap(embeddings', FactIds, Dims)
    BY <1>1, OverMaps DEF StoreOK, IsRecord
  <2>2. registry' \in [Slots -> Policy]
    BY <1>1, <1>4 DEF StoreOK
  <2> QED BY <2>1, <2>2 DEF StoreOK, caches
<1>6. FileOK'
  <2>1. settled' = [t \in Tables |-> settled'[t]]
    BY <1>1
  <2>2. IsMap(settled'.facts, FactIds, Row) /\ IsMap(settled'.keys, IdemKeys, FactIds)
        /\ IsMap(settled'.embeddings, FactIds, Dims)
    BY <1>2, OverMaps DEF FileOK, IsRecord
  <2>3. settled'.registry \in [Slots -> Policy]
    BY <1>2, <1>4 DEF FileOK
  <2>4. doubt' \in [facts : SUBSET (FactIds \X Row), keys : SUBSET (IdemKeys \X FactIds),
                    registry : SUBSET (Slots \X Policies), embeddings : SUBSET (FactIds \X Dims)]
    <3>1. doubt' = [facts |-> doubt'.facts, keys |-> doubt'.keys, registry |-> doubt'.registry,
                    embeddings |-> doubt'.embeddings]
      BY <1>1 DEF Tables
    <3>2. /\ doubt'.facts \subseteq doubt.facts /\ doubt'.keys \subseteq doubt.keys
          /\ doubt'.registry \subseteq doubt.registry
          /\ doubt'.embeddings \subseteq doubt.embeddings
      BY <1>3
    <3> QED BY <3>1, <3>2 DEF FileOK
  <2> QED BY <2>1, <2>2, <2>3, <2>4 DEF FileOK
<1>7. FileHeld'
  BY <1>1, <1>2, <1>3, HoldsOver DEF FileHeld
<1>8. DOMAIN facts \subseteq DOMAIN facts'
  BY <1>1 DEF Over
<1> QED BY <1>5, <1>6, <1>7, <1>8

(* One that fails: the doubts grow by what it writes, or stay. *)
LEMMA FailsDoubts ==
    ASSUME FileOK, NEW r, Fails(r)
    PROVE  /\ UNCHANGED <<facts, keys, registry, embeddings, settled>>
           /\ \/ doubt' = doubt
              \/ /\ doubt' = [t \in Tables |-> doubt'[t]]
                 /\ doubt'.facts = doubt.facts \cup {<<x, r.facts[x]>> : x \in DOMAIN r.facts}
                 /\ doubt'.keys = doubt.keys \cup {<<x, r.keys[x]>> : x \in DOMAIN r.keys}
                 /\ doubt'.registry =
                      doubt.registry \cup {<<x, r.registry[x]>> : x \in DOMAIN r.registry}
                 /\ doubt'.embeddings =
                      doubt.embeddings \cup {<<x, r.embeddings[x]>> : x \in DOMAIN r.embeddings}
<1>1. UNCHANGED <<facts, keys, registry, embeddings, settled>>
  BY DEF Fails, store
<1>2. \/ doubt' = doubt
      \/ doubt' = [t \in Tables |-> doubt[t] \cup {<<x, r[t][x]>> : x \in DOMAIN r[t]}]
  BY DEF Fails
<1>3. ASSUME doubt' = [t \in Tables |-> doubt[t] \cup {<<x, r[t][x]>> : x \in DOMAIN r[t]}]
      PROVE  /\ doubt' = [t \in Tables |-> doubt'[t]]
             /\ doubt'.facts = doubt.facts \cup {<<x, r.facts[x]>> : x \in DOMAIN r.facts}
             /\ doubt'.keys = doubt.keys \cup {<<x, r.keys[x]>> : x \in DOMAIN r.keys}
             /\ doubt'.registry =
                  doubt.registry \cup {<<x, r.registry[x]>> : x \in DOMAIN r.registry}
             /\ doubt'.embeddings =
                  doubt.embeddings \cup {<<x, r.embeddings[x]>> : x \in DOMAIN r.embeddings}
  BY <1>3 DEF Tables
<1> QED BY <1>1, <1>2, <1>3

LEMMA HoldsMore ==
    ASSUME NEW m, NEW table, NEW unsure, Holds(m, table, unsure), NEW more, unsure \subseteq more
    PROVE  Holds(m, table, more)
  BY DEF Holds

LEMMA FailsTypes ==
    ASSUME StoreOK, FileOK, FileHeld, NEW r, IsRecord(r), Fails(r), UNCHANGED caches
    PROVE  StoreOK' /\ FileOK' /\ FileHeld' /\ DOMAIN facts \subseteq DOMAIN facts'
<1>1. UNCHANGED <<facts, keys, registry, embeddings, settled>>
  BY FailsDoubts
<1>2. StoreOK'
  BY <1>1 DEF StoreOK, caches
<1>3. ASSUME NEW S, NEW T, NEW g, IsMap(g, S, T), NEW D \in SUBSET (S \X T)
      PROVE  D \cup {<<x, g[x]>> : x \in DOMAIN g} \in SUBSET (S \X T)
  BY <1>3 DEF IsMap
<1>4. CASE doubt' = doubt
  BY <1>1, <1>2, <1>4 DEF FileOK, FileHeld
<1>5. CASE /\ doubt' = [t \in Tables |-> doubt'[t]]
           /\ doubt'.facts = doubt.facts \cup {<<x, r.facts[x]>> : x \in DOMAIN r.facts}
           /\ doubt'.keys = doubt.keys \cup {<<x, r.keys[x]>> : x \in DOMAIN r.keys}
           /\ doubt'.registry =
                doubt.registry \cup {<<x, r.registry[x]>> : x \in DOMAIN r.registry}
           /\ doubt'.embeddings =
                doubt.embeddings \cup {<<x, r.embeddings[x]>> : x \in DOMAIN r.embeddings}
  <2>1. /\ doubt.facts \subseteq doubt'.facts /\ doubt.keys \subseteq doubt'.keys
        /\ doubt.registry \subseteq doubt'.registry /\ doubt.embeddings \subseteq doubt'.embeddings
    BY <1>5
  <2>2. FileHeld'
    BY <1>1, <2>1, HoldsMore DEF FileHeld
  <2>3. /\ doubt.facts \in SUBSET (FactIds \X Row) /\ doubt.keys \in SUBSET (IdemKeys \X FactIds)
        /\ doubt.registry \in SUBSET (Slots \X Policies)
        /\ doubt.embeddings \in SUBSET (FactIds \X Dims)
    BY DEF FileOK
  <2>4. /\ doubt'.facts \in SUBSET (FactIds \X Row) /\ doubt'.keys \in SUBSET (IdemKeys \X FactIds)
        /\ doubt'.registry \in SUBSET (Slots \X Policies)
        /\ doubt'.embeddings \in SUBSET (FactIds \X Dims)
    BY <1>3, <1>5, <2>3 DEF IsRecord
  <2>5. doubt' = [facts |-> doubt'.facts, keys |-> doubt'.keys, registry |-> doubt'.registry,
                  embeddings |-> doubt'.embeddings]
    BY <1>5 DEF Tables
  <2>6. FileOK'
    BY <1>1, <2>4, <2>5 DEF FileOK
  <2> QED BY <1>1, <1>2, <2>2, <2>6
<1> QED BY <1>4, <1>5, FailsDoubts

CallsOK ==
    /\ pc \in [Clients -> DOMAIN Arguments]
    /\ DOMAIN call = Clients
    /\ \A c \in Clients : call[c] \in Arguments[pc[c]]

GhostOK ==
    /\ answers \in [IdemKeys -> SUBSET FactIds]
    /\ strict \subseteq FactIds /\ loose \subseteq Slots /\ overlapped \subseteq Slots

LEMMA GotoCalls ==
    ASSUME CallsOK, NEW c \in Clients, NEW step \in Steps,
           NEW arguments \in Arguments[step], Goto(c, step, arguments)
    PROVE  /\ CallsOK'
           /\ pc'[c] = step /\ call'[c] = arguments
           /\ \A d \in Clients : d # c => pc'[d] = pc[d] /\ call'[d] = call[d]
<1>1. /\ DOMAIN call' = Clients
      /\ pc'[c] = step /\ call'[c] = arguments
      /\ \A d \in Clients : d # c => pc'[d] = pc[d] /\ call'[d] = call[d]
  BY DEF CallsOK, Goto
<1>2. pc' \in [Clients -> DOMAIN Arguments]
  BY ArgumentsOf DEF CallsOK, Goto
<1>3. ASSUME NEW d \in Clients PROVE call'[d] \in Arguments[pc'[d]]
  <2>1. CASE d = c BY <1>1, <2>1
  <2>2. CASE d # c BY <1>1, <2>2 DEF CallsOK
  <2> QED BY <2>1, <2>2
<1> QED BY <1>1, <1>2, <1>3, ArgumentsOf DEF CallsOK, Arguments

LEMMA ReturnCalls ==
    ASSUME CallsOK, NEW c \in Clients, Return(c)
    PROVE  /\ CallsOK'
           /\ pc'[c] = "idle"
           /\ \A d \in Clients : d # c => pc'[d] = pc[d] /\ call'[d] = call[d]
  BY GotoCalls, ArgumentsOf DEF Return, Steps

(* A row is read again, or written back, only of a fact that is stored. *)
RowsKnown ==
    \A c \in Clients : pc[c] \in {"reread", "replace"} => call[c].fact \in DOMAIN facts

Types == StoreOK /\ FileOK /\ FileHeld /\ CallsOK /\ GhostOK /\ RowsKnown

LEMMA TypesImply == Types => TypeOK
  BY DEF Types, StoreOK, FileOK, CallsOK, GhostOK, TypeOK

LEMMA InitTypes == Init => Types
<1> SUFFICES ASSUME Init PROVE Types
  OBVIOUS
<1>1. StoreOK
  BY DEF Init, StoreOK, IsMap, Empty, Policy
<1>4. /\ settled = [t \in Tables |-> settled[t]] /\ settled.facts = facts
      /\ settled.keys = keys /\ settled.registry = registry /\ settled.embeddings = embeddings
  BY DEF Init, Tables
<1>5. doubt = [facts |-> {}, keys |-> {}, registry |-> {}, embeddings |-> {}]
  BY DEF Init, Tables
<1>6. FileOK
  BY <1>1, <1>4, <1>5 DEF FileOK, StoreOK
<1>7. FileHeld
  BY <1>4 DEF FileHeld, Holds
<1>2. CallsOK
  BY ArgumentsOf DEF Init, CallsOK, Steps
<1>3. GhostOK /\ RowsKnown
  BY DEF Init, GhostOK, RowsKnown
<1> QED BY <1>1, <1>2, <1>3, <1>6, <1>7 DEF Types

(* While facts are only added, rows that are known stay so, for the clients that go on. *)
LEMMA KnownStays ==
    ASSUME RowsKnown, NEW c \in Clients, DOMAIN facts \subseteq DOMAIN facts',
           pc'[c] \notin {"reread", "replace"},
           \A d \in Clients : d # c => pc'[d] = pc[d] /\ call'[d] = call[d]
    PROVE  RowsKnown'
  BY DEF RowsKnown

(* The arguments of a call, by the step it is at. *)
LEMMA CallTypes ==
    ASSUME CallsOK, NEW c \in Clients
    PROVE  /\ pc[c] = "idempotent" => /\ call[c].slot \in Slots /\ call[c].object \in Objects
                                      /\ call[c].key \in IdemKeys
           /\ pc[c] \in {"assert", "checked"} => call[c].slot \in Slots /\ call[c].object \in Objects
           /\ pc[c] \in {"reread", "replace"} => call[c].fact \in FactIds
           /\ pc[c] = "reread" => call[c].then \in Correction
           /\ pc[c] = "replace" => call[c].row \in Row /\ call[c].then \in Correction \cup {NoCall}
           /\ pc[c] = "cache" => call[c].slot \in Slots /\ call[c].policy \in Policies
           /\ pc[c] = "index" => call[c].fact \in FactIds /\ call[c].dim \in Dims
<1>1. call[c] \in Arguments[pc[c]]
  BY DEF CallsOK
<1>2. CASE pc[c] = "idempotent" BY <1>1, <1>2, ArgumentsOf
<1>3. CASE pc[c] = "assert" BY <1>1, <1>3, ArgumentsOf
<1>4. CASE pc[c] = "checked" BY <1>1, <1>4, ArgumentsOf
<1>5. CASE pc[c] = "reread" BY <1>1, <1>5, ArgumentsOf
<1>6. CASE pc[c] = "replace" BY <1>1, <1>6, ArgumentsOf
<1>7. CASE pc[c] = "cache" BY <1>1, <1>7, ArgumentsOf
<1>8. CASE pc[c] = "index" BY <1>1, <1>8, ArgumentsOf
<1> QED BY <1>2, <1>3, <1>4, <1>5, <1>6, <1>7, <1>8

(* Calls that leave the store alone and go on with these arguments. *)
LEMMA GoOn ==
    ASSUME Types, NEW c \in Clients, NEW step \in Steps, NEW arguments \in Arguments[step],
           Goto(c, step, arguments),
           step \in {"reread", "replace"} => arguments.fact \in DOMAIN facts,
           UNCHANGED store
    PROVE  CallsOK' /\ RowsKnown'
<1>1. /\ CallsOK'
      /\ pc'[c] = step /\ call'[c] = arguments
      /\ \A d \in Clients : d # c => pc'[d] = pc[d] /\ call'[d] = call[d]
  BY GotoCalls DEF Types
<1>2. facts' = facts
  BY DEF store
<1> QED BY <1>1, <1>2 DEF RowsKnown, Types

LEMMA CallStep ==
    ASSUME Types, NEW c \in Clients,
           \/ CallAssert(c) \/ CallInvalidate(c) \/ CallCorrect(c) \/ ReadAgain(c)
           \/ CallAssertChecked(c)
    PROVE  Types'
<1>1. UNCHANGED <<store, file, caches, ghost>>
  BY DEF CallAssert, CallInvalidate, CallCorrect, ReadAgain, CallAssertChecked
<1>2. StoreOK' /\ FileOK' /\ FileHeld' /\ GhostOK'
  BY <1>1 DEF Types, StoreOK, FileOK, FileHeld, GhostOK, store, file, caches, ghost
<1>a. ASSUME NEW f \in DOMAIN facts PROVE facts[f] \in Row /\ f \in FactIds
  BY DEF Types, StoreOK, IsMap
<1>b. UNCHANGED store
  BY <1>1
<1> SUFFICES CallsOK' /\ RowsKnown'
  BY <1>2 DEF Types
<1>3. CASE CallAssert(c)
  <2>1. PICK s \in Slots, o \in Objects :
          Goto(c, "assert", [slot |-> s, object |-> o, corrects |-> FALSE])
    BY <1>3 DEF CallAssert
  <2> QED BY <1>b, <2>1, GoOn, ArgumentsOf DEF Steps
<1>4. CASE CallInvalidate(c)
  <2>1. PICK f \in DOMAIN facts :
          Goto(c, "replace", [fact |-> f, row |-> facts[f], then |-> NoCall])
    BY <1>4 DEF CallInvalidate
  <2>2. [fact |-> f, row |-> facts[f], then |-> NoCall] \in Arguments["replace"]
    BY <1>a, ArgumentsOf
  <2> QED BY <1>b, <2>1, <2>2, GoOn DEF Steps
<1>5. CASE CallCorrect(c)
  <2>1. PICK f \in DOMAIN facts, o \in Objects :
          Goto(c, "reread", [fact |-> f, then |-> [slot |-> facts[f].slot, object |-> o]])
    BY <1>5 DEF CallCorrect
  <2>2. facts[f].slot \in Slots /\ f \in FactIds
    BY <1>a DEF Row
  <2>3. [fact |-> f, then |-> [slot |-> facts[f].slot, object |-> o]] \in Arguments["reread"]
    BY <2>2, ArgumentsOf DEF Correction
  <2> QED BY <1>b, <2>1, <2>3, GoOn DEF Steps
<1>6. CASE ReadAgain(c)
  <2> DEFINE f == call[c].fact
  <2>1. pc[c] = "reread"
        /\ Goto(c, "replace", [fact |-> f, row |-> facts[f], then |-> call[c].then])
    BY <1>6 DEF ReadAgain
  <2>2. f \in DOMAIN facts /\ call[c].then \in Correction
    BY <2>1, CallTypes DEF Types, RowsKnown
  <2>3. [fact |-> f, row |-> facts[f], then |-> call[c].then] \in Arguments["replace"]
    BY <1>a, <2>2, ArgumentsOf
  <2> HIDE DEF f
  <2> QED BY <1>b, <2>1, <2>2, <2>3, GoOn DEF Steps
<1>7. CASE CallAssertChecked(c)
  <2>1. PICK s \in Slots, o \in Objects :
          \/ Goto(c, "assert", [slot |-> s, object |-> o, corrects |-> FALSE])
          \/ Goto(c, "checked", [slot |-> s, object |-> o, reject |-> policies[s] = "reject"])
    BY <1>7 DEF CallAssertChecked
  <2>2. (policies[s] = "reject") \in BOOLEAN
    OBVIOUS
  <2>3. CASE Goto(c, "assert", [slot |-> s, object |-> o, corrects |-> FALSE])
    BY <1>b, <2>3, GoOn, ArgumentsOf DEF Steps
  <2>4. CASE Goto(c, "checked", [slot |-> s, object |-> o, reject |-> policies[s] = "reject"])
    <3>1. [slot |-> s, object |-> o, reject |-> policies[s] = "reject"] \in Arguments["checked"]
      BY <2>2, ArgumentsOf
    <3> QED BY <1>b, <2>4, <3>1, GoOn DEF Steps
  <2> QED BY <2>1, <2>3, <2>4
<1> QED BY <1>3, <1>4, <1>5, <1>6, <1>7

(* Calls that store a fact, or none, and return. *)
LEMMA ReturnKnown ==
    ASSUME Types, NEW c \in Clients, Return(c), DOMAIN facts \subseteq DOMAIN facts'
    PROVE  CallsOK' /\ RowsKnown'
  BY ReturnCalls, KnownStays DEF Types

LEMMA LoosensTypes ==
    ASSUME loose \subseteq Slots, NEW c, call[c].slot \in Slots, Loosens(c)
    PROVE  loose' \subseteq Slots
  BY DEF Loosens

(* A new row, and the record of it. *)
LEMMA NewRowTypes ==
    ASSUME Types, NEW c \in Clients, pc[c] \in {"assert", "idempotent", "checked"}
    PROVE  NewRowOf(c) \in Row /\ call[c].slot \in Slots
<1>1. call[c].slot \in Slots /\ call[c].object \in Objects
  BY CallTypes DEF Types
<1> QED BY <1>1 DEF NewRowOf, Row

LEMMA FreshFact ==
    ASSUME Types, NEW f \in Fresh
    PROVE  /\ f \in FactIds /\ f \notin DOMAIN facts
           /\ f \notin DOMAIN settled.facts /\ ~InDoubt(f)
  BY DEF Fresh, Types, FileHeld, Holds, InDoubt

(* What every step owes: the store, the file and their match. *)
StateOK == StoreOK /\ FileOK /\ FileHeld

LEMMA WriteStates ==
    ASSUME Types, NEW r, IsRecord(r), Succeeds(r) \/ Fails(r), UNCHANGED caches
    PROVE  StateOK' /\ DOMAIN facts \subseteq DOMAIN facts'
  BY SucceedsTypes, FailsTypes DEF Types, StateOK

LEMMA WriteFactTypes ==
    ASSUME Types, NEW c \in Clients, WriteFact(c)
    PROVE  Types'
<1>1. PICK f \in Fresh : Succeeds(FactRecord(f, NewRowOf(c)))
  BY DEF WriteFact
<1>2. pc[c] = "assert" /\ Loosens(c) /\ Return(c)
      /\ UNCHANGED <<caches, answers, strict, overlapped>>
  BY DEF WriteFact
<1>3. NewRowOf(c) \in Row /\ call[c].slot \in Slots /\ f \in FactIds
  BY <1>2, NewRowTypes, FreshFact
<1>4. StateOK' /\ DOMAIN facts \subseteq DOMAIN facts'
  BY <1>1, <1>2, <1>3, RecordsTyped, WriteStates
<1>5. GhostOK'
  BY <1>2, <1>3, LoosensTypes DEF Types, GhostOK
<1>6. CallsOK' /\ RowsKnown'
  BY <1>2, <1>4, ReturnKnown
<1> QED BY <1>4, <1>5, <1>6 DEF Types, StateOK

LEMMA AnswerTypes ==
    ASSUME answers \in [IdemKeys -> SUBSET FactIds], NEW k \in IdemKeys, NEW f \in FactIds,
           Answer(k, f)
    PROVE  answers' \in [IdemKeys -> SUBSET FactIds]
  BY DEF Answer

LEMMA LookUpKeyTypes ==
    ASSUME Types, NEW c \in Clients, LookUpKey(c)
    PROVE  Types'
<1>1. UNCHANGED <<store, file, caches, strict, loose, overlapped>>
  BY DEF LookUpKey
<1>2. PICK k \in IdemKeys, s \in Slots, o \in Objects :
        IF k \in DOMAIN keys
          THEN Answer(k, keys[k]) /\ UNCHANGED client
          ELSE /\ Goto(c, "idempotent", [slot |-> s, object |-> o, key |-> k])
               /\ UNCHANGED answers
  BY DEF LookUpKey
<1>3. StateOK'
  BY <1>1 DEF Types, StateOK, StoreOK, FileOK, FileHeld, store, file, caches
<1>4. CASE k \in DOMAIN keys
  <2>1. keys[k] \in FactIds
    BY <1>4 DEF Types, StoreOK, IsMap
  <2>2. GhostOK'
    BY <1>1, <1>2, <1>4, <2>1, AnswerTypes DEF Types, GhostOK
  <2>3. CallsOK' /\ RowsKnown'
    BY <1>1, <1>2, <1>4 DEF Types, CallsOK, RowsKnown, client, store
  <2> QED BY <1>3, <2>2, <2>3 DEF Types, StateOK
<1>5. CASE k \notin DOMAIN keys
  <2>1. GhostOK'
    BY <1>1, <1>2, <1>5 DEF Types, GhostOK
  <2>2. [slot |-> s, object |-> o, key |-> k] \in Arguments["idempotent"]
    BY ArgumentsOf
  <2>3. Goto(c, "idempotent", [slot |-> s, object |-> o, key |-> k]) /\ UNCHANGED store
    BY <1>1, <1>2, <1>5
  <2>4. CallsOK' /\ RowsKnown'
    BY <2>2, <2>3, GoOn DEF Steps
  <2> QED BY <1>3, <2>1, <2>4 DEF Types, StateOK
<1> QED BY <1>4, <1>5

LEMMA WriteIdempotentTypes ==
    ASSUME Types, NEW c \in Clients, WriteIdempotent(c)
    PROVE  Types'
<1>1. pc[c] = "idempotent" /\ Return(c) /\ UNCHANGED <<caches, strict, overlapped>>
  BY DEF WriteIdempotent
<1>2. call[c].key \in IdemKeys
  BY <1>1, CallTypes DEF Types
<1>3. /\ StateOK' /\ DOMAIN facts \subseteq DOMAIN facts'
      /\ answers' \in [IdemKeys -> SUBSET FactIds] /\ loose' \subseteq Slots
  <2> DEFINE k == call[c].key
  <2>1. CASE k \in DOMAIN keys
    <3>1. Answer(k, keys[k]) /\ UNCHANGED <<store, file, loose>>
      BY <2>1 DEF WriteIdempotent
    <3>2. keys[k] \in FactIds
      BY <2>1 DEF Types, StoreOK, IsMap
    <3> HIDE DEF k
    <3>3. answers' \in [IdemKeys -> SUBSET FactIds]
      BY <1>2, <3>1, <3>2, AnswerTypes DEF Types, GhostOK, k
    <3>4. StateOK' /\ facts' = facts
      BY <1>1, <3>1 DEF Types, StateOK, StoreOK, FileOK, FileHeld, store, file, caches
    <3> QED BY <3>1, <3>3, <3>4 DEF Types, GhostOK
  <2>2. CASE k \notin DOMAIN keys
    <3>1. StoreWithKey(c)
      BY <2>2 DEF WriteIdempotent
    <3>2. PICK f \in Fresh : Succeeds(KeyedRecord(f, NewRowOf(c), k)) /\ Answer(k, f) /\ Loosens(c)
      BY <3>1 DEF StoreWithKey
    <3>3. NewRowOf(c) \in Row /\ call[c].slot \in Slots /\ f \in FactIds
      BY <1>1, NewRowTypes, FreshFact
    <3>4. StateOK' /\ DOMAIN facts \subseteq DOMAIN facts'
      BY <1>1, <1>2, <3>2, <3>3, RecordsTyped, WriteStates
    <3>5. answers' \in [IdemKeys -> SUBSET FactIds] /\ loose' \subseteq Slots
      BY <1>2, <3>2, <3>3, AnswerTypes, LoosensTypes DEF Types, GhostOK
    <3> QED BY <3>4, <3>5
  <2> QED BY <2>1, <2>2
<1>4. GhostOK'
  BY <1>1, <1>3 DEF Types, GhostOK
<1>5. CallsOK' /\ RowsKnown'
  BY <1>1, <1>3, ReturnKnown
<1> QED BY <1>3, <1>4, <1>5 DEF Types, StateOK

LEMMA EndedRow ==
    ASSUME NEW row \in Row
    PROVE  /\ [row EXCEPT !.ended = TRUE] \in Row
           /\ [row EXCEPT !.ended = TRUE].ended
           /\ [row EXCEPT !.ended = TRUE].slot = row.slot
  BY DEF Row

LEMMA EndRecordTyped ==
    ASSUME Types, NEW c \in Clients, pc[c] = "replace"
    PROVE  IsRecord(EndRecord(c))
<1> DEFINE row == [call[c].row EXCEPT !.ended = TRUE]
<1>1. call[c].fact \in FactIds /\ call[c].row \in Row
  BY CallTypes DEF Types
<1>2. row \in Row /\ EndRecord(c) = FactRecord(call[c].fact, row)
  BY <1>1, EndedRow DEF EndRecord
<1> HIDE DEF row
<1> QED BY <1>1, <1>2, RecordsTyped

LEMMA ReplaceRowTypes ==
    ASSUME Types, NEW c \in Clients, ReplaceRow(c)
    PROVE  Types'
<1>1. pc[c] = "replace" /\ Succeeds(EndRecord(c)) /\ UNCHANGED <<caches, ghost>>
  BY DEF ReplaceRow
<1>2. call[c].then \in Correction \cup {NoCall}
  BY <1>1, CallTypes DEF Types
<1>3. StateOK' /\ DOMAIN facts \subseteq DOMAIN facts'
  BY <1>1, EndRecordTyped, WriteStates
<1>4. GhostOK'
  BY <1>1 DEF Types, GhostOK, ghost
<1>5. CallsOK' /\ RowsKnown'
  <2>1. CASE call[c].then = NoCall
    <3>1. Return(c)
      BY <2>1 DEF ReplaceRow
    <3> QED BY <1>3, <3>1, ReturnKnown
  <2>2. CASE call[c].then # NoCall
    <3> DEFINE next == [slot |-> call[c].then.slot, object |-> call[c].then.object,
                        corrects |-> TRUE]
    <3>1. Goto(c, "assert", next)
      BY <2>2 DEF ReplaceRow
    <3>2. next \in Arguments["assert"]
      BY <1>2, <2>2, ArgumentsOf DEF Correction
    <3> HIDE DEF next
    <3>3. /\ CallsOK' /\ pc'[c] = "assert"
          /\ \A d \in Clients : d # c => pc'[d] = pc[d] /\ call'[d] = call[d]
      BY <3>1, <3>2, GotoCalls DEF Types, Steps
    <3> QED BY <1>3, <3>3, KnownStays DEF Types
  <2> QED BY <2>1, <2>2
<1> QED BY <1>3, <1>4, <1>5 DEF Types, StateOK

LEMMA StoreRegistrationTypes ==
    ASSUME Types, NEW c \in Clients, StoreRegistration(c)
    PROVE  Types'
<1>1. PICK s \in Slots, p \in Policies :
        /\ Succeeds(PolicyRecord(s, p))
        /\ overlapped' = IF Registering(c, s) THEN overlapped \cup {s} ELSE overlapped \ {s}
        /\ Goto(c, "cache", [slot |-> s, policy |-> p])
  BY DEF StoreRegistration
<1>2. UNCHANGED <<caches, answers, strict, loose>>
  BY DEF StoreRegistration
<1>3. StateOK' /\ DOMAIN facts \subseteq DOMAIN facts'
  BY <1>1, <1>2, RecordsTyped, WriteStates
<1>4. GhostOK'
  BY <1>1, <1>2 DEF Types, GhostOK
<1>5. [slot |-> s, policy |-> p] \in Arguments["cache"]
  BY ArgumentsOf
<1>6. /\ CallsOK' /\ pc'[c] = "cache"
      /\ \A d \in Clients : d # c => pc'[d] = pc[d] /\ call'[d] = call[d]
  BY <1>1, <1>5, GotoCalls DEF Types, Steps
<1>7. RowsKnown'
  BY <1>3, <1>6, KnownStays DEF Types
<1> QED BY <1>3, <1>4, <1>6, <1>7 DEF Types, StateOK

LEMMA CacheRegistrationTypes ==
    ASSUME Types, NEW c \in Clients, CacheRegistration(c)
    PROVE  Types'
<1>1. call[c].slot \in Slots /\ call[c].policy \in Policies
  BY CallTypes DEF CacheRegistration, Types
<1>2. StateOK'
  BY <1>1 DEF CacheRegistration, Types, StateOK, StoreOK, FileOK, FileHeld, Policy, store, file
<1>3. CallsOK' /\ RowsKnown'
  BY ReturnKnown DEF CacheRegistration, store
<1>4. GhostOK'
  BY DEF CacheRegistration, Types, GhostOK, ghost
<1> QED BY <1>2, <1>3, <1>4 DEF Types, StateOK

LEMMA WriteCheckedTypes ==
    ASSUME Types, NEW c \in Clients, WriteChecked(c)
    PROVE  Types'
<1>1. pc[c] = "checked" /\ Return(c) /\ UNCHANGED <<caches, answers, overlapped>>
  BY DEF WriteChecked
<1>2. /\ StateOK' /\ DOMAIN facts \subseteq DOMAIN facts'
      /\ strict' \subseteq FactIds /\ loose' \subseteq Slots
  <2>1. CASE UNCHANGED <<store, file, strict, loose>>
    BY <1>1, <2>1 DEF Types, StateOK, StoreOK, FileOK, FileHeld, GhostOK, store, file, caches
  <2>2. CASE StoreChecked(c)
    <3>1. PICK f \in Fresh :
            /\ Succeeds(FactRecord(f, NewRowOf(c)))
            /\ strict' = IF call[c].reject THEN strict \cup {f} ELSE strict
            /\ Loosens(c)
      BY <2>2 DEF StoreChecked
    <3>2. NewRowOf(c) \in Row /\ call[c].slot \in Slots /\ f \in FactIds
      BY <1>1, NewRowTypes, FreshFact
    <3>3. StateOK' /\ DOMAIN facts \subseteq DOMAIN facts'
      BY <1>1, <3>1, <3>2, RecordsTyped, WriteStates
    <3>4. strict' \subseteq FactIds /\ loose' \subseteq Slots
      BY <3>1, <3>2, LoosensTypes DEF Types, GhostOK
    <3> QED BY <3>3, <3>4
  <2> QED BY <2>1, <2>2 DEF WriteChecked
<1>3. GhostOK'
  BY <1>1, <1>2 DEF Types, GhostOK
<1>4. CallsOK' /\ RowsKnown'
  BY <1>1, <1>2, ReturnKnown
<1> QED BY <1>2, <1>3, <1>4 DEF Types, StateOK

LEMMA EmbeddedTyped ==
    ASSUME Types, NEW f \in Fresh, NEW s \in Slots, NEW o \in Objects, NEW d \in Dims
    PROVE  IsRecord(Embedded(f, s, o, d))
<1>1. [slot |-> s, object |-> o, ended |-> FALSE] \in Row /\ f \in FactIds
  BY FreshFact DEF Row
<1> QED BY <1>1, RecordsTyped DEF Embedded

LEMMA WriteEmbeddingTypes ==
    ASSUME Types, NEW c \in Clients, WriteEmbedding(c)
    PROVE  Types'
<1>1. PICK f \in Fresh, s \in Slots, o \in Objects, d \in Dims :
        StoreEmbedding(c, f, s, o, d)
  BY DEF WriteEmbedding
<1>2. /\ Succeeds(Embedded(f, s, o, d))
      /\ loose' = loose \cup {s} /\ Goto(c, "index", [fact |-> f, dim |-> d])
      /\ UNCHANGED <<caches, answers, strict, overlapped>>
  BY <1>1 DEF StoreEmbedding
<1>3. StateOK' /\ DOMAIN facts \subseteq DOMAIN facts'
  BY <1>2, EmbeddedTyped, WriteStates
<1>5. GhostOK'
  BY <1>2 DEF Types, GhostOK
<1>6. [fact |-> f, dim |-> d] \in Arguments["index"]
  BY ArgumentsOf, FreshFact
<1>7. /\ CallsOK' /\ pc'[c] = "index"
      /\ \A e \in Clients : e # c => pc'[e] = pc[e] /\ call'[e] = call[e]
  BY <1>2, <1>6, GotoCalls DEF Types, Steps
<1>8. RowsKnown'
  BY <1>3, <1>7, KnownStays DEF Types
<1> QED BY <1>3, <1>5, <1>7, <1>8 DEF Types, StateOK

LEMMA IndexEmbeddingTypes ==
    ASSUME Types, NEW c \in Clients, IndexEmbedding(c)
    PROVE  Types'
<1>1. call[c].fact \in FactIds /\ call[c].dim \in Dims
  BY CallTypes DEF IndexEmbedding, Types
<1>2. IsMap(vectors', FactIds, Dims)
  <2>1. vectors' = vectors \/ vectors' = Over(vectors, Entry(call[c].fact, call[c].dim))
    BY DEF IndexEmbedding
  <2> QED BY <1>1, <2>1, OverMaps, EntryIsMap DEF Types, StoreOK
<1>3. StateOK' /\ GhostOK'
  BY <1>2 DEF IndexEmbedding, Types, StateOK, StoreOK, FileOK, FileHeld, GhostOK, store, file, ghost
<1>4. CallsOK' /\ RowsKnown'
  BY ReturnKnown DEF IndexEmbedding, store
<1> QED BY <1>3, <1>4 DEF Types, StateOK

(* The record that a call which fails was writing. *)
LEMMA FailFactRecord ==
    ASSUME Types, NEW c \in Clients, FailFact(c)
    PROVE  /\ pc[c] \in {"assert", "idempotent", "checked"}
           /\ \E r : /\ IsRecord(r) /\ Fails(r)
                    /\ \/ r.keys = Empty
                       \/ call[c].key \notin DOMAIN keys /\ DOMAIN r.keys = {call[c].key}
<1>0. pc[c] \in {"assert", "idempotent", "checked"}
  BY DEF FailFact
<1>1. NewRowOf(c) \in Row
  BY <1>0, NewRowTypes
<1>2. CASE \E f \in Fresh : Fails(FactRecord(f, NewRowOf(c)))
  <2>1. PICK f \in Fresh : Fails(FactRecord(f, NewRowOf(c)))
    BY <1>2
  <2> QED BY <1>0, <1>1, <2>1, FreshFact, RecordsTyped, FactParts
<1>3. CASE /\ pc[c] = "idempotent" /\ call[c].key \notin DOMAIN keys
           /\ \E f \in Fresh : Fails(KeyedRecord(f, NewRowOf(c), call[c].key))
  <2>1. PICK f \in Fresh : Fails(KeyedRecord(f, NewRowOf(c), call[c].key))
    BY <1>3
  <2>2. call[c].key \in IdemKeys /\ f \in FactIds
    BY <1>3, CallTypes, FreshFact DEF Types
  <2>3. KeyedRecord(f, NewRowOf(c), call[c].key).keys = Entry(call[c].key, f)
    BY KeyedParts
  <2>4. DOMAIN KeyedRecord(f, NewRowOf(c), call[c].key).keys = {call[c].key}
    BY <2>3 DEF Entry
  <2> QED BY <1>0, <1>1, <1>3, <2>1, <2>2, <2>4, RecordsTyped
<1> QED BY <1>0, <1>2, <1>3 DEF FailFact

LEMMA FailTypes ==
    ASSUME Types, NEW c \in Clients,
           FailFact(c) \/ FailEnd(c) \/ FailRegistration(c) \/ FailEmbedding(c)
    PROVE  Types'
<1>1. CASE FailFact(c)
  <2>1. Loosens(c) /\ Return(c) /\ UNCHANGED <<caches, answers, strict, overlapped>>
    BY <1>1 DEF FailFact
  <2>2. call[c].slot \in Slots
    BY <1>1, FailFactRecord, NewRowTypes
  <2>3. StateOK' /\ DOMAIN facts \subseteq DOMAIN facts'
    BY <1>1, <2>1, FailFactRecord, WriteStates
  <2>4. GhostOK'
    BY <2>1, <2>2, LoosensTypes DEF Types, GhostOK
  <2>5. CallsOK' /\ RowsKnown'
    BY <2>1, <2>3, ReturnKnown
  <2> QED BY <2>3, <2>4, <2>5 DEF Types, StateOK
<1>2. CASE FailEnd(c)
  <2>1. pc[c] = "replace" /\ Fails(EndRecord(c)) /\ Return(c) /\ UNCHANGED <<caches, ghost>>
    BY <1>2 DEF FailEnd
  <2>2. StateOK' /\ DOMAIN facts \subseteq DOMAIN facts'
    BY <2>1, EndRecordTyped, WriteStates
  <2>3. GhostOK'
    BY <2>1 DEF Types, GhostOK, ghost
  <2>4. CallsOK' /\ RowsKnown'
    BY <2>1, <2>2, ReturnKnown
  <2> QED BY <2>2, <2>3, <2>4 DEF Types, StateOK
<1>3. CASE FailRegistration(c)
  <2>1. PICK s \in Slots, p \in Policies : Fails(PolicyRecord(s, p))
    BY <1>3 DEF FailRegistration
  <2>2. UNCHANGED <<caches, client, ghost>>
    BY <1>3 DEF FailRegistration
  <2>3. StateOK' /\ DOMAIN facts \subseteq DOMAIN facts'
    BY <2>1, <2>2, RecordsTyped, WriteStates
  <2>4. GhostOK' /\ CallsOK' /\ RowsKnown'
    BY <2>2, <2>3 DEF Types, GhostOK, CallsOK, RowsKnown, client, ghost
  <2> QED BY <2>3, <2>4 DEF Types, StateOK
<1>4. CASE FailEmbedding(c)
  <2>1. PICK f \in Fresh, s \in Slots, o \in Objects, d \in Dims :
          Fails(Embedded(f, s, o, d)) /\ loose' = loose \cup {s}
    BY <1>4 DEF FailEmbedding
  <2>2. UNCHANGED <<caches, client, answers, strict, overlapped>>
    BY <1>4 DEF FailEmbedding
  <2>3. StateOK' /\ DOMAIN facts \subseteq DOMAIN facts'
    BY <2>1, <2>2, EmbeddedTyped, WriteStates
  <2>4. GhostOK' /\ CallsOK' /\ RowsKnown'
    BY <2>1, <2>2, <2>3 DEF Types, GhostOK, CallsOK, RowsKnown, client
  <2> QED BY <2>3, <2>4 DEF Types, StateOK
<1> QED BY <1>1, <1>2, <1>3, <1>4

LEMMA RestartTypes ==
    ASSUME Types, Restart
    PROVE  Types'
<1>1. /\ facts' \in Loads(settled.facts, doubt.facts)
      /\ keys' \in Loads(settled.keys, doubt.keys)
      /\ registry' \in Loads(settled.registry, doubt.registry)
      /\ embeddings' \in Loads(settled.embeddings, doubt.embeddings)
      /\ policies' = registry' /\ vectors' = embeddings'
      /\ UNCHANGED <<settled, doubt, strict, loose>>
  BY DEF Restart, file
<1>2. /\ doubt.facts \in SUBSET (FactIds \X Row) /\ doubt.keys \in SUBSET (IdemKeys \X FactIds)
      /\ doubt.registry \in SUBSET (Slots \X Policies)
      /\ doubt.embeddings \in SUBSET (FactIds \X Dims)
  BY DEF Types, FileOK
<1>3. IsMap(facts', FactIds, Row) /\ IsMap(keys', IdemKeys, FactIds)
      /\ IsMap(embeddings', FactIds, Dims)
  BY <1>1, <1>2, LoadsMap DEF Types, FileOK
<1>4. registry' \in [Slots -> Policy]
  <2>1. IsMap(settled.registry, Slots, Policy) /\ doubt.registry \in SUBSET (Slots \X Policy)
        /\ DOMAIN settled.registry = Slots
    BY <1>2 DEF Types, FileOK, IsMap, Policy
  <2>2. IsMap(registry', Slots, Policy)
    BY <1>1, <2>1, LoadsMap
  <2>3. DOMAIN settled.registry \subseteq DOMAIN registry'
    BY <1>1, LoadsHolds DEF Holds
  <2> QED BY <2>1, <2>2, <2>3 DEF IsMap
<1>5. StoreOK'
  BY <1>1, <1>3, <1>4 DEF StoreOK
<1>6. FileOK'
  BY <1>1 DEF Types, FileOK
<1>7. FileHeld'
  BY <1>1, LoadsHolds DEF FileHeld
<1>8. GhostOK'
  <2>1. answers' \in [IdemKeys -> SUBSET FactIds] /\ overlapped' \subseteq Slots
    BY DEF Restart, Types, GhostOK
  <2> QED BY <1>1, <2>1 DEF Types, GhostOK
<1>9. pc' = [c \in Clients |-> "idle"] /\ call' = [c \in Clients |-> NoCall]
  BY DEF Restart
<1>10. CallsOK' /\ RowsKnown'
  BY <1>9, ArgumentsOf DEF CallsOK, RowsKnown, Steps
<1> QED BY <1>5, <1>6, <1>7, <1>8, <1>10 DEF Types

LEMMA StepTypes == Types /\ [Next]_vars => Types'
<1> SUFFICES ASSUME Types, [Next]_vars PROVE Types'
  OBVIOUS
<1>1. ASSUME NEW c \in Clients,
             \/ CallAssert(c) \/ WriteFact(c)
             \/ LookUpKey(c) \/ WriteIdempotent(c)
             \/ CallInvalidate(c) \/ CallCorrect(c) \/ ReadAgain(c) \/ ReplaceRow(c)
             \/ StoreRegistration(c) \/ CacheRegistration(c)
             \/ CallAssertChecked(c) \/ WriteChecked(c)
             \/ WriteEmbedding(c) \/ IndexEmbedding(c)
             \/ FailFact(c) \/ FailEnd(c) \/ FailRegistration(c) \/ FailEmbedding(c)
      PROVE  Types'
  BY <1>1, CallStep, WriteFactTypes, LookUpKeyTypes, WriteIdempotentTypes, ReplaceRowTypes,
     StoreRegistrationTypes, CacheRegistrationTypes, WriteCheckedTypes, WriteEmbeddingTypes,
     IndexEmbeddingTypes, FailTypes
<1>2. CASE Restart
  BY <1>2, RestartTypes
<1>3. CASE UNCHANGED vars
  BY <1>3 DEF vars, store, file, caches, client, ghost, Types, StoreOK, FileOK, FileHeld, CallsOK,
     GhostOK, RowsKnown
<1> QED BY <1>1, <1>2, <1>3 DEF Next

(* Whatever the clients call, and wherever calls fail or the process       *)
(* restarts, the store, the file, the caches and the calls keep their      *)
(* types.  With RowsKnown, that a row is written back only for a fact that *)
(* is stored; with FileHeld, that what the process holds is what the       *)
(* writes that succeeded built, but for records in doubt.                  *)
THEOREM TypeCorrect == Spec => []TypeOK
<1>1. Spec => []Types
  BY InitTypes, StepTypes, PTL DEF Spec
<1> QED BY <1>1, TypesImply, PTL

-----------------------------------------------------------------------------
(* Which tables a write leaves alone. *)
LEMMA Untouched ==
    ASSUME Types, NEW r, Succeeds(r)
    PROVE  /\ r.keys = Empty => /\ keys' = keys /\ settled'.keys = settled.keys
                                /\ doubt'.keys = doubt.keys
           /\ r.registry = Empty => registry' = registry
           /\ r.embeddings = Empty => embeddings' = embeddings
           /\ DOMAIN facts \subseteq DOMAIN facts'
<1>1. /\ keys' = Over(keys, r.keys) /\ settled'.keys = Over(settled.keys, r.keys)
      /\ doubt'.keys = {p \in doubt.keys : p[1] \notin DOMAIN r.keys}
  BY DEF Succeeds, Tables
<1>2. /\ keys = [x \in DOMAIN keys |-> keys[x]]
      /\ settled.keys = [x \in DOMAIN settled.keys |-> settled.keys[x]]
      /\ registry = [x \in DOMAIN registry |-> registry[x]]
      /\ embeddings = [x \in DOMAIN embeddings |-> embeddings[x]]
  BY DEF Types, StoreOK, FileOK, IsMap
<1>3. r.keys = Empty => doubt'.keys = doubt.keys
  BY <1>1 DEF Empty
<1>4. r.keys = Empty => keys' = keys /\ settled'.keys = settled.keys
  BY <1>1, <1>2, OverNothing
<1>5. r.registry = Empty => registry' = registry
  BY <1>2, OverNothing DEF Succeeds
<1>6. r.embeddings = Empty => embeddings' = embeddings
  BY <1>2, OverNothing DEF Succeeds
<1>7. DOMAIN facts \subseteq DOMAIN facts'
  BY DEF Succeeds, Over
<1> QED BY <1>3, <1>4, <1>5, <1>6, <1>7

(* The steps of a client that write a record, and those that write none. *)
WritesRecord(c) ==
    \/ WriteFact(c) \/ WriteIdempotent(c) \/ ReplaceRow(c) \/ StoreRegistration(c)
    \/ WriteChecked(c) \/ WriteEmbedding(c)
    \/ FailFact(c) \/ FailEnd(c) \/ FailRegistration(c) \/ FailEmbedding(c)

OnlyCalls(c) ==
    \/ CallAssert(c) \/ LookUpKey(c) \/ CallInvalidate(c) \/ CallCorrect(c) \/ ReadAgain(c)
    \/ CacheRegistration(c) \/ CallAssertChecked(c) \/ IndexEmbedding(c)

LEMMA OnlyCallsKeep ==
    ASSUME NEW c \in Clients, OnlyCalls(c)
    PROVE  UNCHANGED <<store, file, strict>>
  BY DEF OnlyCalls, CallAssert, LookUpKey, CallInvalidate, CallCorrect, ReadAgain,
     CacheRegistration, CallAssertChecked, IndexEmbedding, ghost

LEMMA FactsStay ==
    ASSUME Types, NEW c \in Clients, WritesRecord(c) \/ OnlyCalls(c)
    PROVE  DOMAIN facts \subseteq DOMAIN facts'
<1>1. ASSUME NEW r, Succeeds(r) PROVE DOMAIN facts \subseteq DOMAIN facts'
  BY <1>1, Untouched
<1>2. ASSUME UNCHANGED store PROVE DOMAIN facts \subseteq DOMAIN facts'
  BY <1>2 DEF store
<1>3. ASSUME NEW r, Fails(r) PROVE UNCHANGED store
  BY <1>3 DEF Fails
<1>4. CASE OnlyCalls(c)
  BY <1>2, <1>4, OnlyCallsKeep
<1>5. CASE FailFact(c) \/ FailEnd(c) \/ FailRegistration(c) \/ FailEmbedding(c)
  BY <1>2, <1>3, <1>5 DEF FailFact, FailEnd, FailRegistration, FailEmbedding
<1>6. CASE WriteFact(c) \/ ReplaceRow(c) \/ StoreRegistration(c) \/ WriteEmbedding(c)
  BY <1>1, <1>6 DEF WriteFact, ReplaceRow, StoreRegistration, WriteEmbedding, StoreEmbedding
<1>7. CASE WriteIdempotent(c)
  BY <1>1, <1>2, <1>7 DEF WriteIdempotent, StoreWithKey
<1>8. CASE WriteChecked(c)
  BY <1>1, <1>2, <1>8 DEF WriteChecked, StoreChecked
<1> QED BY <1>4, <1>5, <1>6, <1>7, <1>8 DEF WritesRecord

-----------------------------------------------------------------------------
(* Idempotency keys: while the process lives no step forgets a fact, and a *)
(* key is answered with the fact it is stored for.  A key whose write      *)
(* succeeded is not written again, so it is never in doubt: every open     *)
(* gives it back.                                                          *)
Sure(k) == \A p \in doubt.keys : p[1] # k

KeysInv ==
    /\ KeysAnswerOneFact
    /\ \A k \in DOMAIN keys : keys[k] \in DOMAIN facts
    /\ \A k \in DOMAIN settled.keys : Sure(k)

LEMMA AnswerAdds ==
    ASSUME Types, NEW k \in IdemKeys, NEW f, Answer(k, f)
    PROVE  \A i \in IdemKeys : answers'[i] = IF i = k THEN answers[k] \cup {f} ELSE answers[i]
  BY DEF Types, GhostOK, Answer

LEMMA AnswerStored ==
    ASSUME Types, KeysInv, NEW k \in DOMAIN keys, Answer(k, keys[k]), UNCHANGED <<store, file>>
    PROVE  KeysInv'
<1>1. k \in IdemKeys
  BY DEF Types, StoreOK, IsMap
<1>2. \A i \in IdemKeys : answers'[i] = IF i = k THEN answers[k] \cup {keys[k]} ELSE answers[i]
  BY <1>1, AnswerAdds
<1> QED BY <1>2 DEF KeysInv, KeysAnswerOneFact, Sure, store, file

LEMMA AnswerNew ==
    ASSUME Types, KeysInv, NEW k \in IdemKeys, k \notin DOMAIN keys, NEW f, NEW row,
           Succeeds(KeyedRecord(f, row, k)), Answer(k, f)
    PROVE  KeysInv'
<1>1. KeyedRecord(f, row, k).keys = Entry(k, f) /\ KeyedRecord(f, row, k).facts = Entry(f, row)
  BY KeyedParts
<1>2. /\ keys' = Over(keys, Entry(k, f)) /\ facts' = Over(facts, Entry(f, row))
      /\ settled'.keys = Over(settled.keys, Entry(k, f))
      /\ doubt'.keys = {p \in doubt.keys : p[1] \notin DOMAIN Entry(k, f)}
  BY <1>1 DEF Succeeds, Tables
<1>3. DOMAIN Entry(k, f) = {k}
  BY DEF Entry
<1>4. \A i \in IdemKeys : answers'[i] = IF i = k THEN answers[k] \cup {f} ELSE answers[i]
  BY AnswerAdds
<1>5. answers[k] = {}
  BY DEF KeysInv, KeysAnswerOneFact
<1>6. DOMAIN keys' = DOMAIN keys \cup {k} /\ keys'[k] = f
      /\ \A i \in DOMAIN keys : keys'[i] = keys[i]
  BY <1>2 DEF Over, Entry
<1>7. DOMAIN facts \subseteq DOMAIN facts' /\ f \in DOMAIN facts'
  BY <1>2 DEF Over, Entry
<1>8. DOMAIN settled'.keys = DOMAIN settled.keys \cup {k}
  BY <1>2 DEF Over, Entry
<1>9. KeysAnswerOneFact'
  BY <1>4, <1>5, <1>6, <1>7 DEF KeysInv, KeysAnswerOneFact
<1>10. \A i \in DOMAIN settled'.keys : Sure(i)'
  BY <1>2, <1>3, <1>8 DEF KeysInv, Sure
<1>11. \A i \in DOMAIN keys' : keys'[i] \in DOMAIN facts'
  BY <1>6, <1>7 DEF KeysInv
<1> QED BY <1>9, <1>10, <1>11 DEF KeysInv

(* Writes of records without a key. *)
LEMMA KeysSucceed ==
    ASSUME Types, KeysInv, UNCHANGED answers, NEW r, r.keys = Empty, Succeeds(r)
    PROVE  KeysInv'
<1>1. /\ keys' = keys /\ settled'.keys = settled.keys /\ doubt'.keys = doubt.keys
      /\ DOMAIN facts \subseteq DOMAIN facts'
  BY Untouched
<1> QED BY <1>1 DEF KeysInv, KeysAnswerOneFact, Sure

LEMMA KeysFail ==
    ASSUME Types, KeysInv, UNCHANGED answers, NEW r, Fails(r),
           r.keys = Empty \/ \E k : k \notin DOMAIN keys /\ DOMAIN r.keys = {k}
    PROVE  KeysInv'
<1>1. UNCHANGED <<facts, keys, settled>>
      /\ \/ doubt' = doubt
         \/ doubt'.keys = doubt.keys \cup {<<x, r.keys[x]>> : x \in DOMAIN r.keys}
  BY FailsDoubts DEF Types
<1>2. DOMAIN settled.keys \subseteq DOMAIN keys
  BY DEF Types, FileHeld, Holds
<1>3. \A x \in DOMAIN r.keys : x \notin DOMAIN settled.keys
  BY <1>2 DEF Empty
<1>4. \A p \in doubt'.keys : p \in doubt.keys \/ p[1] \in DOMAIN r.keys
  BY <1>1
<1>5. \A k \in DOMAIN settled.keys : Sure(k)'
  BY <1>3, <1>4 DEF KeysInv, Sure
<1> QED BY <1>1, <1>5 DEF KeysInv, KeysAnswerOneFact

LEMMA KeysRestart ==
    ASSUME Types, KeysInv, Restart
    PROVE  KeysInv'
<1>1. /\ keys' \in Loads(settled.keys, doubt.keys) /\ UNCHANGED <<settled, doubt>>
      /\ \A k \in DOMAIN keys' : keys'[k] \in DOMAIN facts'
      /\ answers' = [k \in IdemKeys |-> IF k \in DOMAIN settled.keys THEN answers[k] ELSE {}]
  BY DEF Restart, file
<1>2. ASSUME NEW k \in DOMAIN settled.keys
      PROVE  /\ k \in DOMAIN keys /\ keys[k] = settled.keys[k]
             /\ k \in DOMAIN keys' /\ keys'[k] = settled.keys[k]
  <2>1. \A v : <<k, v>> \notin doubt.keys
    BY DEF KeysInv, Sure
  <2>2. Holds(keys, settled.keys, doubt.keys)
    BY DEF Types, FileHeld
  <2>3. Holds(keys', settled.keys, doubt.keys)
    BY <1>1, LoadsHolds
  <2>4. k \in DOMAIN keys /\ keys[k] = settled.keys[k]
    BY <2>1, <2>2 DEF Holds
  <2>5. k \in DOMAIN keys' /\ keys'[k] = settled.keys[k]
    BY <2>1, <2>3 DEF Holds
  <2> QED BY <2>4, <2>5
<1>3. KeysAnswerOneFact'
  <2> SUFFICES ASSUME NEW k \in IdemKeys, NEW f \in answers'[k]
               PROVE  k \in DOMAIN keys' /\ keys'[k] = f /\ f \in DOMAIN facts'
    BY DEF KeysAnswerOneFact
  <2>1. k \in DOMAIN settled.keys /\ f \in answers[k]
    BY <1>1
  <2> QED BY <1>1, <1>2, <2>1 DEF KeysInv, KeysAnswerOneFact
<1> QED BY <1>1, <1>3 DEF KeysInv, Sure

LEMMA StepKeys == Types /\ KeysInv /\ [Next]_vars => KeysInv'
<1> SUFFICES ASSUME Types, KeysInv, [Next]_vars PROVE KeysInv'
  OBVIOUS
<1>1. ASSUME UNCHANGED <<store, file, answers>> PROVE KeysInv'
  BY <1>1 DEF KeysInv, KeysAnswerOneFact, Sure, store, file
<1>2. ASSUME NEW c \in Clients,
             \/ CallAssert(c) \/ CallInvalidate(c) \/ CallCorrect(c) \/ ReadAgain(c)
             \/ CacheRegistration(c) \/ CallAssertChecked(c) \/ IndexEmbedding(c)
      PROVE  UNCHANGED <<store, file, answers>>
  BY <1>2 DEF CallAssert, CallInvalidate, CallCorrect, ReadAgain, CacheRegistration,
     CallAssertChecked, IndexEmbedding, ghost
<1>3. ASSUME NEW c \in Clients, LookUpKey(c) PROVE KeysInv'
  <2>1. UNCHANGED <<store, file>>
    BY <1>3 DEF LookUpKey
  <2>2. PICK k \in IdemKeys : IF k \in DOMAIN keys THEN Answer(k, keys[k]) ELSE UNCHANGED answers
    BY <1>3 DEF LookUpKey
  <2>3. CASE k \in DOMAIN keys
    BY <2>1, <2>2, <2>3, AnswerStored
  <2>4. CASE k \notin DOMAIN keys
    BY <1>1, <2>1, <2>2, <2>4
  <2> QED BY <2>3, <2>4
<1>4. ASSUME NEW c \in Clients, WriteIdempotent(c) PROVE KeysInv'
  <2> DEFINE k == call[c].key
  <2>1. k \in IdemKeys
    BY <1>4, CallTypes DEF WriteIdempotent, Types
  <2>2. CASE k \in DOMAIN keys
    <3>1. Answer(k, keys[k]) /\ UNCHANGED <<store, file>>
      BY <1>4, <2>2 DEF WriteIdempotent
    <3> HIDE DEF k
    <3> QED BY <2>2, <3>1, AnswerStored
  <2>3. CASE k \notin DOMAIN keys
    <3>1. PICK f \in Fresh : Succeeds(KeyedRecord(f, NewRowOf(c), k)) /\ Answer(k, f)
      BY <1>4, <2>3 DEF WriteIdempotent, StoreWithKey
    <3> HIDE DEF k
    <3> QED BY <2>1, <2>3, <3>1, AnswerNew
  <2> QED BY <2>2, <2>3
<1>5. ASSUME NEW c \in Clients, WriteFact(c) PROVE KeysInv'
  BY <1>5, KeysSucceed, FactParts DEF WriteFact
<1>6. ASSUME NEW c \in Clients, ReplaceRow(c) PROVE KeysInv'
  BY <1>6, KeysSucceed, FactParts DEF ReplaceRow, EndRecord, ghost
<1>7. ASSUME NEW c \in Clients, StoreRegistration(c) PROVE KeysInv'
  BY <1>7, KeysSucceed, PolicyParts DEF StoreRegistration
<1>8. ASSUME NEW c \in Clients, WriteChecked(c) PROVE KeysInv'
  BY <1>1, <1>8, KeysSucceed, FactParts DEF WriteChecked, StoreChecked
<1>9. ASSUME NEW c \in Clients, WriteEmbedding(c) PROVE KeysInv'
  BY <1>9, KeysSucceed, EmbeddedParts DEF WriteEmbedding, StoreEmbedding, Embedded
<1>10. ASSUME NEW c \in Clients, FailFact(c) PROVE KeysInv'
  BY <1>10, KeysFail, FailFactRecord DEF FailFact
<1>11. ASSUME NEW c \in Clients, FailEnd(c) PROVE KeysInv'
  BY <1>11, KeysFail, FactParts DEF FailEnd, EndRecord, ghost
<1>12. ASSUME NEW c \in Clients, FailRegistration(c) PROVE KeysInv'
  BY <1>12, KeysFail, PolicyParts DEF FailRegistration, ghost
<1>13. ASSUME NEW c \in Clients, FailEmbedding(c) PROVE KeysInv'
  BY <1>13, KeysFail, EmbeddedParts DEF FailEmbedding, Embedded
<1>14. CASE UNCHANGED vars
  BY <1>1, <1>14 DEF vars, ghost
<1> QED BY <1>1, <1>2, <1>3, <1>4, <1>5, <1>6, <1>7, <1>8, <1>9, <1>10, <1>11, <1>12, <1>13,
           <1>14, KeysRestart DEF Next

LEMMA InitKeys == Init => KeysInv
  BY DEF Init, KeysInv, KeysAnswerOneFact, Empty, Sure, Tables

(* A key is answered with one fact, which is stored: by any number of      *)
(* clients and retries of failed calls while the process lives, and over   *)
(* all restarts once a write of the key has succeeded.                     *)
THEOREM KeysAnswerOne == Spec => []KeysAnswerOneFact
<1>1. Spec => [](Types /\ KeysInv)
  BY InitTypes, StepTypes, InitKeys, StepKeys, PTL DEF Spec
<1>2. KeysInv => KeysAnswerOneFact
  BY DEF KeysInv
<1> QED BY <1>1, <1>2, PTL

-----------------------------------------------------------------------------
(* Strict checks, over what the file holds for sure.  Of two strict facts  *)
(* of a slot that conflict, one is ended there, or the end of one is in    *)
(* doubt.  Such a pair can come to be only with the check that stores one  *)
(* of them, and that check sees the other as the process holds it: current *)
(* unless it is ended, or its end in doubt.                                *)
Apart(f, g) ==
    /\ settled.facts[f].slot = settled.facts[g].slot
    /\ ~settled.facts[f].ended /\ ~settled.facts[g].ended
    /\ ~InDoubt(f) /\ ~InDoubt(g)
    => settled.facts[f].object = settled.facts[g].object

StrictInv ==
    /\ strict \subseteq DOMAIN settled.facts
    /\ \A f, g \in strict : Apart(f, g)

LEMMA StrictImplies == Types /\ StrictInv => StrictFactsAgree
<1> SUFFICES ASSUME Types, StrictInv, NEW s \in Slots,
                    NEW f \in Current(s) \cap strict, ~InDoubt(f),
                    NEW g \in Current(s) \cap strict, ~InDoubt(g)
             PROVE  facts[f].object = facts[g].object
  BY DEF StrictFactsAgree, Agree
<1>1. ASSUME NEW x \in DOMAIN facts, ~InDoubt(x)
      PROVE  x \in DOMAIN settled.facts /\ facts[x] = settled.facts[x]
  BY <1>1 DEF Types, FileHeld, Holds, InDoubt
<1>2. /\ f \in DOMAIN facts /\ facts[f].slot = s /\ ~facts[f].ended
      /\ g \in DOMAIN facts /\ facts[g].slot = s /\ ~facts[g].ended
  BY DEF Current
<1>3. Apart(f, g)
  BY DEF StrictInv
<1> QED BY <1>1, <1>2, <1>3 DEF Apart

(* A strict fact is left as it was, with its doubts or more of them, or is *)
(* ended.                                                                  *)
LEMMA StrictKeeps ==
    ASSUME StrictInv, UNCHANGED strict,
           \A f \in strict : /\ f \in DOMAIN settled'.facts
                             /\ \/ settled'.facts[f].ended
                                \/ /\ settled'.facts[f] = settled.facts[f]
                                   /\ InDoubt(f) => InDoubt(f)'
    PROVE  StrictInv'
<1>1. strict' \subseteq DOMAIN settled'.facts
  OBVIOUS
<1>2. ASSUME NEW f \in strict, NEW g \in strict PROVE Apart(f, g)'
  <2>0. Apart(f, g)
    BY DEF StrictInv
  <2>1. CASE /\ settled'.facts[f] = settled.facts[f] /\ (InDoubt(f) => InDoubt(f)')
             /\ settled'.facts[g] = settled.facts[g] /\ (InDoubt(g) => InDoubt(g)')
    BY <2>0, <2>1 DEF Apart
  <2>2. CASE settled'.facts[f].ended \/ settled'.facts[g].ended
    BY <2>2 DEF Apart
  <2> QED BY <2>1, <2>2
<1> QED BY <1>1, <1>2 DEF StrictInv

LEMMA StrictSame ==
    ASSUME StrictInv, UNCHANGED strict, UNCHANGED file
    PROVE  StrictInv'
<1>1. \A f \in strict : InDoubt(f) => InDoubt(f)'
  BY DEF InDoubt, file
<1> QED BY <1>1, StrictKeeps DEF file, StrictInv

LEMMA StrictFails ==
    ASSUME Types, StrictInv, UNCHANGED strict, NEW r, Fails(r)
    PROVE  StrictInv'
<1>1. settled' = settled /\ doubt.facts \subseteq doubt'.facts
  BY FailsDoubts DEF Types
<1>2. \A f \in strict : InDoubt(f) => InDoubt(f)'
  BY <1>1 DEF InDoubt
<1> QED BY <1>1, <1>2, StrictKeeps DEF StrictInv

(* What a success does to the facts. *)
LEMMA FactsSettle ==
    ASSUME Types, NEW r, Succeeds(r)
    PROVE  /\ settled'.facts = Over(settled.facts, r.facts)
           /\ doubt'.facts = {p \in doubt.facts : p[1] \notin DOMAIN r.facts}
           /\ \A f \in DOMAIN settled.facts : f \notin DOMAIN r.facts =>
                /\ f \in DOMAIN settled'.facts /\ settled'.facts[f] = settled.facts[f]
                /\ InDoubt(f) => InDoubt(f)'
           /\ \A f \in DOMAIN r.facts :
                f \in DOMAIN settled'.facts /\ settled'.facts[f] = r.facts[f]
<1>1. /\ settled'.facts = Over(settled.facts, r.facts)
      /\ doubt'.facts = {p \in doubt.facts : p[1] \notin DOMAIN r.facts}
  BY DEF Succeeds, Tables
<1>2. ASSUME NEW f \in DOMAIN settled.facts, f \notin DOMAIN r.facts
      PROVE  f \in DOMAIN settled'.facts /\ settled'.facts[f] = settled.facts[f]
  BY <1>1, <1>2 DEF Over
<1>3. ASSUME NEW f, f \notin DOMAIN r.facts, InDoubt(f) PROVE InDoubt(f)'
  BY <1>1, <1>3 DEF InDoubt
<1>4. ASSUME NEW f \in DOMAIN r.facts
      PROVE  f \in DOMAIN settled'.facts /\ settled'.facts[f] = r.facts[f]
  BY <1>1, <1>4 DEF Over
<1> QED BY <1>1, <1>2, <1>3, <1>4

LEMMA StrictSucceeds ==
    ASSUME Types, StrictInv, UNCHANGED strict, NEW r, Succeeds(r),
           \A f \in strict : f \in DOMAIN r.facts => r.facts[f].ended
    PROVE  StrictInv'
<1>1. ASSUME NEW f \in strict, f \in DOMAIN r.facts
      PROVE  f \in DOMAIN settled'.facts /\ settled'.facts[f].ended
  BY <1>1, FactsSettle
<1> QED BY <1>1, FactsSettle, StrictKeeps DEF StrictInv

LEMMA StrictNewFact ==
    ASSUME Types, StrictInv, UNCHANGED strict, NEW f \in Fresh, NEW row, NEW r,
           r.facts = Entry(f, row), Succeeds(r)
    PROVE  StrictInv'
<1>1. f \notin strict
  BY FreshFact DEF StrictInv
<1>2. DOMAIN r.facts = {f}
  BY DEF Entry
<1> QED BY <1>1, <1>2, StrictSucceeds

LEMMA StrictCheck ==
    ASSUME Types, StrictInv, NEW c \in Clients, WriteChecked(c)
    PROVE  StrictInv'
<1> DEFINE s == call[c].slot
           o == call[c].object
<1>1. CASE UNCHANGED <<store, file, strict, loose>>
  BY <1>1, StrictSame
<1>2. CASE ~Rejected(c) /\ StoreChecked(c)
  <2>1. PICK f \in Fresh :
          /\ Succeeds(FactRecord(f, NewRowOf(c)))
          /\ strict' = IF call[c].reject THEN strict \cup {f} ELSE strict
    BY <1>2 DEF StoreChecked
  <2>2. FactRecord(f, NewRowOf(c)).facts = Entry(f, NewRowOf(c))
    BY FactParts
  <2>3. CASE ~call[c].reject
    BY <2>1, <2>2, <2>3, StrictNewFact
  <2>4. CASE call[c].reject
    <3>1. \A g \in DOMAIN facts : facts[g].slot = s /\ ~facts[g].ended => facts[g].object = o
      BY <1>2, <2>4 DEF Rejected, Contradicts, Current
    <3>2. strict' = strict \cup {f}
      BY <2>1, <2>4
    <3>3. NewRowOf(c).slot = s /\ NewRowOf(c).object = o
      BY DEF NewRowOf
    <3> HIDE DEF s, o
    <3>4. DOMAIN Entry(f, NewRowOf(c)) = {f} /\ Entry(f, NewRowOf(c))[f] = NewRowOf(c)
      BY DEF Entry
    <3>5. /\ settled'.facts = Over(settled.facts, Entry(f, NewRowOf(c)))
          /\ \A g \in DOMAIN settled.facts : g # f =>
               /\ g \in DOMAIN settled'.facts /\ settled'.facts[g] = settled.facts[g]
               /\ InDoubt(g) => InDoubt(g)'
      BY <2>1, <2>2, <3>4, FactsSettle
    <3>6. f \in DOMAIN settled'.facts /\ settled'.facts[f] = NewRowOf(c)
      BY <3>4, <3>5 DEF Over
    <3>7. f \notin strict /\ strict \subseteq DOMAIN settled.facts
      BY FreshFact DEF StrictInv
    <3>8. ASSUME NEW g \in strict, ~InDoubt(g)
          PROVE  settled.facts[g].slot = s /\ ~settled.facts[g].ended
                 => settled.facts[g].object = o
      <4>1. g \in DOMAIN facts
        BY <3>7 DEF Types, FileHeld, Holds
      <4>2. facts[g] = settled.facts[g]
        BY <3>8, <4>1 DEF Types, FileHeld, Holds, InDoubt
      <4> QED BY <3>1, <4>1, <4>2
    <3>9. strict' \subseteq DOMAIN settled'.facts
      BY <3>2, <3>5, <3>6, <3>7
    <3>10. ASSUME NEW g \in strict', NEW h \in strict' PROVE Apart(g, h)'
      <4>1. g \in strict \/ g = f BY <3>2
      <4>2. h \in strict \/ h = f BY <3>2
      <4>3. \A x \in strict : settled'.facts[x] = settled.facts[x] /\ (InDoubt(x) => InDoubt(x)')
        BY <3>5, <3>7
      <4>4. CASE g \in strict /\ h \in strict
        <5>1. Apart(g, h) BY <4>4 DEF StrictInv
        <5> QED BY <4>3, <4>4, <5>1 DEF Apart
      <4>5. CASE g \in strict /\ h = f
        BY <3>3, <3>6, <3>8, <4>3, <4>5 DEF Apart
      <4>6. CASE g = f /\ h \in strict
        BY <3>3, <3>6, <3>8, <4>3, <4>6 DEF Apart
      <4>7. CASE g = f /\ h = f
        BY <4>7 DEF Apart
      <4> QED BY <4>1, <4>2, <4>4, <4>5, <4>6, <4>7
    <3> QED BY <3>9, <3>10 DEF StrictInv
  <2> QED BY <2>3, <2>4
<1> QED BY <1>1, <1>2 DEF WriteChecked

LEMMA StrictReplace ==
    ASSUME Types, StrictInv, NEW c \in Clients, ReplaceRow(c)
    PROVE  StrictInv'
<1> DEFINE row == [call[c].row EXCEPT !.ended = TRUE]
<1>1. call[c].row \in Row /\ UNCHANGED strict /\ Succeeds(EndRecord(c))
  BY CallTypes DEF ReplaceRow, Types, ghost
<1>2. row.ended
  BY <1>1, EndedRow
<1>3. EndRecord(c) = FactRecord(call[c].fact, row)
  BY DEF EndRecord
<1> HIDE DEF row
<1>4. EndRecord(c).facts = Entry(call[c].fact, row)
  BY <1>3, FactParts
<1>5. \A f \in DOMAIN EndRecord(c).facts : EndRecord(c).facts[f].ended
  BY <1>2, <1>4 DEF Entry
<1> QED BY <1>1, <1>5, StrictSucceeds

LEMMA StepStrict == Types /\ StrictInv /\ [Next]_vars => StrictInv'
<1> SUFFICES ASSUME Types, StrictInv, [Next]_vars PROVE StrictInv'
  OBVIOUS
<1>1. ASSUME NEW c \in Clients, OnlyCalls(c) PROVE StrictInv'
  BY <1>1, OnlyCallsKeep, StrictSame
<1>2. ASSUME NEW c \in Clients, WriteFact(c) PROVE StrictInv'
  BY <1>2, StrictNewFact, FactParts DEF WriteFact
<1>3. ASSUME NEW c \in Clients, WriteIdempotent(c) PROVE StrictInv'
  <2>1. UNCHANGED strict
    BY <1>3 DEF WriteIdempotent
  <2>2. CASE UNCHANGED <<store, file, loose>>
    BY <2>1, <2>2, StrictSame
  <2>3. CASE StoreWithKey(c)
    BY <2>1, <2>3, StrictNewFact, KeyedParts DEF StoreWithKey
  <2> QED BY <1>3, <2>2, <2>3 DEF WriteIdempotent
<1>4. ASSUME NEW c \in Clients, WriteEmbedding(c) PROVE StrictInv'
  BY <1>4, StrictNewFact, EmbeddedParts DEF WriteEmbedding, StoreEmbedding, Embedded
<1>5. ASSUME NEW c \in Clients, StoreRegistration(c) PROVE StrictInv'
  <2>1. PICK s \in Slots, p \in Policies : Succeeds(PolicyRecord(s, p))
    BY <1>5 DEF StoreRegistration
  <2>2. UNCHANGED strict
    BY <1>5 DEF StoreRegistration
  <2>3. DOMAIN PolicyRecord(s, p).facts = {}
    BY PolicyParts DEF Empty
  <2> QED BY <2>1, <2>2, <2>3, StrictSucceeds
<1>6. ASSUME NEW c \in Clients,
             FailFact(c) \/ FailEnd(c) \/ FailRegistration(c) \/ FailEmbedding(c)
      PROVE  StrictInv'
  <2>1. UNCHANGED strict
    BY <1>6 DEF FailFact, FailEnd, FailRegistration, FailEmbedding, ghost
  <2> QED BY <1>6, <2>1, StrictFails DEF FailFact, FailEnd, FailRegistration, FailEmbedding
<1>7. CASE Restart \/ UNCHANGED vars
  BY <1>7, StrictSame DEF Restart, vars, ghost
<1> QED BY <1>1, <1>2, <1>3, <1>4, <1>5, <1>6, <1>7, StrictCheck, StrictReplace DEF Next, OnlyCalls

LEMMA InitStrict == Init => StrictInv
  BY DEF Init, StrictInv

(* Facts whose assertion returned success under Reject never contradict    *)
(* each other while both are current and no end of theirs is in doubt,     *)
(* whatever runs between the checks, fails or restarts.                    *)
THEOREM StrictChecksHold == Spec => []StrictFactsAgree
<1>1. Spec => [](Types /\ StrictInv)
  BY InitTypes, StepTypes, InitStrict, StepStrict, PTL DEF Spec
<1> QED BY <1>1, StrictImplies, PTL

-----------------------------------------------------------------------------
(* The detector.  Of a predicate whose registrations did not overlap, the  *)
(* call that is about to cache an entry has the stored one; when there is  *)
(* no such call, the stored one is cached.                                 *)
Caching(c, s) == pc[c] = "cache" /\ call[c].slot = s

CacheInv ==
    \A s \in Slots \ overlapped :
        /\ \A c \in Clients : Caching(c, s) => call[c].policy = registry[s]
        /\ (\A c \in Clients : ~Caching(c, s)) => policies[s] = registry[s]

(* A policy with no registration in doubt is loaded as the process has it. *)
LEMMA CacheImplies == Types /\ CacheInv => CacheFollowsStore
<1> SUFFICES ASSUME Types, CacheInv, NEW s \in Slots, s \notin overlapped,
                    \A c \in Clients : pc[c] = "cache" => call[c].slot # s,
                    \A p \in doubt.registry : p[1] # s,
                    NEW loaded \in Loads(settled.registry, doubt.registry)
             PROVE  policies[s] = loaded[s]
  BY DEF CacheFollowsStore
<1>1. policies[s] = registry[s]
  BY DEF CacheInv, Caching
<1>2. s \in DOMAIN settled.registry
  BY DEF Types, FileOK
<1>3. \A v : <<s, v>> \notin doubt.registry
  OBVIOUS
<1>4. Holds(registry, settled.registry, doubt.registry)
      /\ Holds(loaded, settled.registry, doubt.registry)
  BY LoadsHolds DEF Types, FileHeld
<1>5. registry[s] = settled.registry[s] /\ loaded[s] = settled.registry[s]
  BY <1>2, <1>3, <1>4 DEF Holds
<1> QED BY <1>1, <1>5

(* A step of a client that caches nothing before or after it. *)
LEMMA CacheKeeps ==
    ASSUME CacheInv, UNCHANGED <<registry, policies, overlapped>>, NEW c \in Clients,
           pc[c] # "cache", pc'[c] # "cache",
           \A d \in Clients : d # c => pc'[d] = pc[d] /\ call'[d] = call[d]
    PROVE  CacheInv'
<1>1. \A d \in Clients, s \in Slots : Caching(d, s)' <=> Caching(d, s)
  BY DEF Caching
<1>2. \A d \in Clients, s \in Slots : Caching(d, s) => call'[d] = call[d]
  BY DEF Caching
<1> QED BY <1>1, <1>2 DEF CacheInv

LEMMA GotoOthers ==
    ASSUME Types, NEW c \in Clients, NEW step \in Steps, NEW arguments, Goto(c, step, arguments)
    PROVE  /\ pc'[c] = step /\ call'[c] = arguments
           /\ \A d \in Clients : d # c => pc'[d] = pc[d] /\ call'[d] = call[d]
  BY DEF Goto, Types, CallsOK

LEMMA ReturnOthers ==
    ASSUME Types, NEW c \in Clients, Return(c)
    PROVE  /\ pc'[c] = "idle"
           /\ \A d \in Clients : d # c => pc'[d] = pc[d] /\ call'[d] = call[d]
  BY GotoOthers DEF Return, Steps

LEMMA PlainWrite ==
    ASSUME Types, NEW r, Succeeds(r), r.registry = Empty, r.embeddings = Empty
    PROVE  UNCHANGED <<registry, embeddings>>
  BY Untouched

(* The steps that neither register nor index. *)
LEMMA OtherSteps ==
    ASSUME Types, NEW c \in Clients,
           \/ CallAssert(c) \/ WriteFact(c) \/ LookUpKey(c) \/ WriteIdempotent(c)
           \/ CallInvalidate(c) \/ CallCorrect(c) \/ ReadAgain(c) \/ ReplaceRow(c)
           \/ CallAssertChecked(c) \/ WriteChecked(c) \/ FailFact(c) \/ FailEnd(c)
    PROVE  /\ UNCHANGED <<registry, policies, overlapped, embeddings, vectors>>
           /\ pc[c] \notin {"cache", "index"} /\ pc'[c] \notin {"cache", "index"}
           /\ \A d \in Clients : d # c => pc'[d] = pc[d] /\ call'[d] = call[d]
<1> DEFINE Quiet == UNCHANGED <<registry, policies, overlapped, embeddings, vectors>>
                    /\ pc[c] \notin {"cache", "index"}
           Moves == /\ pc'[c] \notin {"cache", "index"}
                    /\ \A d \in Clients : d # c => pc'[d] = pc[d] /\ call'[d] = call[d]
<1>1. CASE CallAssert(c)
  <2>1. Quiet BY <1>1 DEF CallAssert, Idle, store, caches, ghost
  <2>2. Moves BY <1>1, GotoOthers DEF CallAssert, Steps
  <2> QED BY <2>1, <2>2
<1>2. CASE CallInvalidate(c)
  <2>1. Quiet BY <1>2 DEF CallInvalidate, Idle, store, caches, ghost
  <2>2. Moves BY <1>2, GotoOthers DEF CallInvalidate, Steps
  <2> QED BY <2>1, <2>2
<1>3. CASE CallCorrect(c)
  <2>1. Quiet BY <1>3 DEF CallCorrect, Idle, store, caches, ghost
  <2>2. Moves BY <1>3, GotoOthers DEF CallCorrect, Steps
  <2> QED BY <2>1, <2>2
<1>4. CASE ReadAgain(c)
  <2>1. Quiet BY <1>4 DEF ReadAgain, store, caches, ghost
  <2>2. Moves BY <1>4, GotoOthers DEF ReadAgain, Steps
  <2> QED BY <2>1, <2>2
<1>5. CASE CallAssertChecked(c)
  <2>1. Quiet BY <1>5 DEF CallAssertChecked, Idle, store, caches, ghost
  <2>2. Moves BY <1>5, GotoOthers DEF CallAssertChecked, Steps
  <2> QED BY <2>1, <2>2
<1>6. CASE WriteFact(c)
  <2>1. Quiet BY <1>6, PlainWrite, FactParts DEF WriteFact, caches
  <2>2. Moves BY <1>6, ReturnOthers DEF WriteFact
  <2> QED BY <2>1, <2>2
<1>7. CASE WriteIdempotent(c)
  <2>1. Quiet
    BY <1>7, PlainWrite, KeyedParts DEF WriteIdempotent, StoreWithKey, store, caches
  <2>2. Moves BY <1>7, ReturnOthers DEF WriteIdempotent
  <2> QED BY <2>1, <2>2
<1>8. CASE WriteChecked(c)
  <2>1. Quiet BY <1>8, PlainWrite, FactParts DEF WriteChecked, StoreChecked, store, caches
  <2>2. Moves BY <1>8, ReturnOthers DEF WriteChecked
  <2> QED BY <2>1, <2>2
<1>9. CASE FailFact(c) \/ FailEnd(c)
  <2>1. Quiet BY <1>9 DEF FailFact, FailEnd, Fails, store, caches, ghost
  <2>2. Moves BY <1>9, ReturnOthers DEF FailFact, FailEnd
  <2> QED BY <2>1, <2>2
<1>10. CASE LookUpKey(c)
  <2>1. Quiet BY <1>10 DEF LookUpKey, Idle, store, caches
  <2>2. CASE UNCHANGED client
    BY <1>10, <2>1, <2>2 DEF client
  <2>3. CASE \E arguments : Goto(c, "idempotent", arguments)
    BY <2>1, <2>3, GotoOthers DEF Steps
  <2> QED BY <1>10, <2>2, <2>3 DEF LookUpKey
<1>11. CASE ReplaceRow(c)
  <2>1. Quiet
    BY <1>11, PlainWrite, FactParts DEF ReplaceRow, EndRecord, caches, ghost
  <2>2. CASE Return(c)
    BY <2>1, <2>2, ReturnOthers
  <2>3. CASE \E arguments : Goto(c, "assert", arguments)
    BY <2>1, <2>3, GotoOthers DEF Steps
  <2> QED BY <1>11, <2>2, <2>3 DEF ReplaceRow
<1> QED BY <1>1, <1>2, <1>3, <1>4, <1>5, <1>6, <1>7, <1>8, <1>9, <1>10, <1>11

LEMMA CacheStored ==
    ASSUME Types, CacheInv, NEW c \in Clients, StoreRegistration(c)
    PROVE  CacheInv'
<1>0. PICK s \in Slots, p \in Policies :
        /\ pc[c] = "idle" /\ Succeeds(PolicyRecord(s, p))
        /\ overlapped' = IF Registering(c, s) THEN overlapped \cup {s} ELSE overlapped \ {s}
        /\ Goto(c, "cache", [slot |-> s, policy |-> p])
  BY DEF StoreRegistration, Idle
<1>1. /\ registry' = Over(registry, Entry(s, p))
      /\ overlapped' = IF Registering(c, s) THEN overlapped \cup {s} ELSE overlapped \ {s}
      /\ Goto(c, "cache", [slot |-> s, policy |-> p])
  BY <1>0, PolicyParts DEF Succeeds
<1>2. policies' = policies
  BY DEF StoreRegistration, caches
<1>3. /\ pc'[c] = "cache" /\ call'[c] = [slot |-> s, policy |-> p]
      /\ \A d \in Clients : d # c => pc'[d] = pc[d] /\ call'[d] = call[d]
  BY <1>1, GotoOthers DEF Steps
<1>4. call'[c].slot = s /\ call'[c].policy = p
  BY <1>3
<1>5. \A t \in Slots : registry'[t] = IF t = s THEN p ELSE registry[t]
  BY <1>1 DEF Types, StoreOK, Over, Entry
<1>6. ASSUME NEW t \in Slots, t # s, t \notin overlapped'
      PROVE  /\ \A d \in Clients : Caching(d, t)' => call'[d].policy = registry'[t]
             /\ (\A d \in Clients : ~Caching(d, t)') => policies'[t] = registry'[t]
  <2>1. t \notin overlapped
    BY <1>1, <1>6
  <2>2. \A d \in Clients : Caching(d, t)' <=> Caching(d, t)
    BY <1>0, <1>1, <1>3, <1>4, <1>6 DEF Caching
  <2>3. \A d \in Clients : Caching(d, t) => call'[d] = call[d]
    BY <1>0, <1>1, <1>3 DEF Caching
  <2> QED BY <1>2, <1>5, <1>6, <2>1, <2>2, <2>3 DEF CacheInv
<1>7. ASSUME s \notin overlapped'
      PROVE  /\ \A d \in Clients : Caching(d, s)' => call'[d].policy = registry'[s]
             /\ (\A d \in Clients : ~Caching(d, s)') => policies'[s] = registry'[s]
  <2>1. ~Registering(c, s)
    BY <1>1, <1>7
  <2>2. \A d \in Clients : d # c => ~Caching(d, s)'
    BY <1>3, <2>1 DEF Registering, Caching
  <2>3. Caching(c, s)'
    BY <1>3, <1>4 DEF Caching
  <2> QED BY <1>4, <1>5, <2>2, <2>3
<1> QED BY <1>6, <1>7 DEF CacheInv

LEMMA CacheCached ==
    ASSUME Types, CacheInv, NEW c \in Clients, CacheRegistration(c)
    PROVE  CacheInv'
<1> DEFINE s == call[c].slot
<1>1. Caching(c, s) /\ s \in Slots
  BY CallTypes DEF CacheRegistration, Caching, Types
<1>2. \A t \in Slots : policies'[t] = IF t = s THEN call[c].policy ELSE policies[t]
  BY DEF CacheRegistration, Types, StoreOK
<1>3. UNCHANGED <<registry, overlapped>>
  BY DEF CacheRegistration, store, ghost
<1>4. pc'[c] = "idle" /\ \A d \in Clients : d # c => pc'[d] = pc[d] /\ call'[d] = call[d]
  BY ReturnOthers DEF CacheRegistration
<1>5. \A t \in Slots : Caching(c, t) => t = s
  BY DEF Caching
<1> HIDE DEF s
<1>6. \A d \in Clients, t \in Slots : Caching(d, t)' <=> d # c /\ Caching(d, t)
  BY <1>4 DEF Caching
<1>7. ASSUME NEW t \in Slots, t \notin overlapped
      PROVE  /\ \A d \in Clients : Caching(d, t)' => call'[d].policy = registry[t]
             /\ (\A d \in Clients : ~Caching(d, t)') => policies'[t] = registry[t]
  <2>1. \A d \in Clients : Caching(d, t)' => call'[d].policy = registry[t]
    BY <1>4, <1>6, <1>7 DEF CacheInv
  <2>2. CASE t = s
    BY <1>1, <1>2, <1>7, <2>1, <2>2 DEF CacheInv
  <2>3. CASE t # s
    <3>1. \A d \in Clients : Caching(d, t)' <=> Caching(d, t)
      BY <1>5, <1>6, <2>3
    <3> QED BY <1>2, <1>7, <2>1, <2>3, <3>1 DEF CacheInv
  <2> QED BY <2>2, <2>3
<1> QED BY <1>3, <1>7 DEF CacheInv

LEMMA StepCache == Types /\ CacheInv /\ [Next]_vars => CacheInv'
<1> SUFFICES ASSUME Types, CacheInv, [Next]_vars PROVE CacheInv'
  OBVIOUS
<1>1. ASSUME NEW c \in Clients,
             \/ CallAssert(c) \/ WriteFact(c) \/ LookUpKey(c) \/ WriteIdempotent(c)
             \/ CallInvalidate(c) \/ CallCorrect(c) \/ ReadAgain(c) \/ ReplaceRow(c)
             \/ CallAssertChecked(c) \/ WriteChecked(c) \/ FailFact(c) \/ FailEnd(c)
      PROVE  CacheInv'
  <2>1. /\ UNCHANGED <<registry, policies, overlapped>>
        /\ pc[c] # "cache" /\ pc'[c] # "cache"
        /\ \A d \in Clients : d # c => pc'[d] = pc[d] /\ call'[d] = call[d]
    BY <1>1, OtherSteps
  <2> QED BY <2>1, CacheKeeps
<1>2. ASSUME NEW c \in Clients, WriteEmbedding(c) PROVE CacheInv'
  <2>1. PICK f \in Fresh, s \in Slots, o \in Objects, d \in Dims :
          Idle(c) /\ StoreEmbedding(c, f, s, o, d)
    BY <1>2 DEF WriteEmbedding
  <2>2. UNCHANGED <<registry, policies, overlapped>> /\ pc[c] # "cache"
    BY <2>1, Untouched, EmbeddedParts DEF StoreEmbedding, Embedded, Idle, caches
  <2>3. /\ pc'[c] # "cache"
        /\ \A e \in Clients : e # c => pc'[e] = pc[e] /\ call'[e] = call[e]
    BY <2>1, GotoOthers DEF StoreEmbedding, Steps
  <2> QED BY <2>2, <2>3, CacheKeeps
<1>3. ASSUME NEW c \in Clients, IndexEmbedding(c) PROVE CacheInv'
  <2>1. UNCHANGED <<registry, policies, overlapped>> /\ pc[c] # "cache"
    BY <1>3 DEF IndexEmbedding, store, ghost
  <2>2. /\ pc'[c] # "cache"
        /\ \A e \in Clients : e # c => pc'[e] = pc[e] /\ call'[e] = call[e]
    BY <1>3, ReturnOthers DEF IndexEmbedding
  <2> QED BY <2>1, <2>2, CacheKeeps
<1>4. CASE Restart
  <2>1. ASSUME NEW c \in Clients, NEW s \in Slots PROVE ~Caching(c, s)'
    <3>1. pc'[c] = "idle"
      BY <1>4 DEF Restart
    <3> QED BY <3>1 DEF Caching
  <2>2. policies' = registry'
    BY <1>4 DEF Restart
  <2> QED BY <2>1, <2>2 DEF CacheInv
<1>5. ASSUME UNCHANGED <<registry, policies, overlapped, pc, call>> PROVE CacheInv'
  BY <1>5 DEF CacheInv, Caching
<1>6. ASSUME NEW c \in Clients, FailRegistration(c) \/ FailEmbedding(c) PROVE CacheInv'
  BY <1>5, <1>6 DEF FailRegistration, FailEmbedding, Fails, store, caches, client, ghost
<1>7. CASE UNCHANGED vars
  BY <1>5, <1>7 DEF vars, store, caches, client, ghost
<1> QED BY <1>1, <1>2, <1>3, <1>4, <1>6, <1>7, CacheStored, CacheCached DEF Next

LEMMA InitCache == Init => CacheInv
  BY DEF Init, CacheInv, Caching

(* Outside overlapping, unfinished and failed registrations of one         *)
(* predicate, checked assertions decide by the policy of the next restart. *)
THEOREM DetectorFollows == Spec => []CacheFollowsStore
<1>1. Spec => [](Types /\ CacheInv)
  BY InitTypes, StepTypes, InitCache, StepCache, PTL DEF Spec
<1> QED BY <1>1, CacheImplies, PTL

-----------------------------------------------------------------------------
(* Embeddings.  The stored ones have one length, so an insert into the     *)
(* index, which holds nothing else, is never refused; each insert under    *)
(* way is of an embedding that is stored, and no two are of the same one.  *)
Indexing(c, f) == pc[c] = "index" /\ call[c].fact = f

VectorsInv ==
    /\ DOMAIN embeddings \subseteq DOMAIN facts
    /\ \A f, g \in DOMAIN embeddings : embeddings[f] = embeddings[g]
    /\ \A c \in Clients : pc[c] = "index" => /\ call[c].fact \in DOMAIN embeddings
                                            /\ embeddings[call[c].fact] = call[c].dim
    /\ \A c, d \in Clients : \A f \in DOMAIN embeddings : Indexing(c, f) /\ Indexing(d, f) => c = d
    /\ DOMAIN vectors \subseteq DOMAIN embeddings
    /\ \A f \in DOMAIN embeddings : f \in DOMAIN vectors <=> \A c \in Clients : ~Indexing(c, f)
    /\ \A f \in DOMAIN vectors : vectors[f] = embeddings[f]

LEMMA VectorsImplies == VectorsInv => VectorsFollowStore
  BY DEF VectorsInv, VectorsFollowStore, Indexing

(* A step of a client that indexes nothing before or after it. *)
LEMMA VectorsKeep ==
    ASSUME VectorsInv, UNCHANGED <<embeddings, vectors>>, DOMAIN facts \subseteq DOMAIN facts',
           NEW c \in Clients, pc[c] # "index", pc'[c] # "index",
           \A d \in Clients : d # c => pc'[d] = pc[d] /\ call'[d] = call[d]
    PROVE  VectorsInv'
<1>1. \A d \in Clients, f \in DOMAIN embeddings : Indexing(d, f)' <=> Indexing(d, f)
  BY DEF Indexing
<1>2. \A d \in Clients : pc'[d] = "index" => pc[d] = "index" /\ call'[d] = call[d]
  OBVIOUS
<1> QED BY <1>1, <1>2 DEF VectorsInv

LEMMA VectorsStored ==
    ASSUME Types, VectorsInv, NEW c \in Clients, WriteEmbedding(c)
    PROVE  VectorsInv'
<1>0. PICK f \in Fresh, s \in Slots, o \in Objects, n \in Dims :
        /\ pc[c] = "idle" /\ \A g \in DOMAIN embeddings : embeddings[g] = n
        /\ Succeeds(Embedded(f, s, o, n)) /\ vectors' = vectors
        /\ Goto(c, "index", [fact |-> f, dim |-> n])
  BY DEF WriteEmbedding, StoreEmbedding, Idle, caches
<1> DEFINE row == [slot |-> s, object |-> o, ended |-> FALSE]
<1>a. Succeeds(EmbeddedRecord(f, row, n))
  BY <1>0 DEF Embedded
<1> HIDE DEF row
<1>b. facts' = Over(facts, Entry(f, row)) /\ embeddings' = Over(embeddings, Entry(f, n))
  BY <1>a, EmbeddedParts DEF Succeeds
<1>1. /\ pc[c] = "idle" /\ \A g \in DOMAIN embeddings : embeddings[g] = n
      /\ embeddings' = Over(embeddings, Entry(f, n)) /\ vectors' = vectors
      /\ Goto(c, "index", [fact |-> f, dim |-> n])
  BY <1>0, <1>b
<1>2. /\ f \notin DOMAIN facts /\ f \in DOMAIN facts' /\ DOMAIN facts \subseteq DOMAIN facts'
  BY <1>b, FreshFact DEF Over, Entry
<1>3. /\ DOMAIN embeddings' = DOMAIN embeddings \cup {f} /\ f \notin DOMAIN embeddings
      /\ \A g \in DOMAIN embeddings' : embeddings'[g] = n
      /\ \A g \in DOMAIN embeddings : embeddings'[g] = embeddings[g]
  BY <1>1, <1>2 DEF Over, Entry, VectorsInv
<1>4. /\ pc'[c] = "index" /\ call'[c] = [fact |-> f, dim |-> n]
      /\ \A d \in Clients : d # c => pc'[d] = pc[d] /\ call'[d] = call[d]
  BY <1>1, GotoOthers DEF Steps
<1>5. call'[c].fact = f /\ call'[c].dim = n
  BY <1>4
<1>6. \A d \in Clients : Indexing(d, f)' <=> d = c
  BY <1>3, <1>4, <1>5 DEF Indexing, VectorsInv
<1>7. \A d \in Clients, g \in DOMAIN embeddings : Indexing(d, g)' <=> Indexing(d, g)
  BY <1>1, <1>3, <1>4, <1>5 DEF Indexing
<1>8. DOMAIN embeddings' \subseteq DOMAIN facts'
  BY <1>2, <1>3 DEF VectorsInv
<1>9. \A d \in Clients : pc'[d] = "index" => /\ call'[d].fact \in DOMAIN embeddings'
                                            /\ embeddings'[call'[d].fact] = call'[d].dim
  BY <1>3, <1>4, <1>5 DEF VectorsInv
<1>10. \A d, e \in Clients : \A g \in DOMAIN embeddings' :
         Indexing(d, g)' /\ Indexing(e, g)' => d = e
  BY <1>3, <1>6, <1>7 DEF VectorsInv
<1>11. /\ DOMAIN vectors' \subseteq DOMAIN embeddings'
       /\ \A g \in DOMAIN vectors' : vectors'[g] = embeddings'[g]
  BY <1>1, <1>3 DEF VectorsInv
<1>12. \A g \in DOMAIN embeddings' :
         g \in DOMAIN vectors' <=> \A d \in Clients : ~Indexing(d, g)'
  BY <1>1, <1>3, <1>6, <1>7 DEF VectorsInv
<1> QED BY <1>3, <1>8, <1>9, <1>10, <1>11, <1>12 DEF VectorsInv

LEMMA VectorsIndexed ==
    ASSUME Types, VectorsInv, NEW c \in Clients, IndexEmbedding(c)
    PROVE  VectorsInv'
<1> DEFINE x == call[c].fact
           n == call[c].dim
<1>1. /\ pc[c] = "index" /\ UNCHANGED <<facts, embeddings>>
      /\ vectors' = IF \A g \in DOMAIN vectors : vectors[g] = n
                      THEN Over(vectors, Entry(x, n)) ELSE vectors
  BY DEF IndexEmbedding, store
<1>2. x \in DOMAIN embeddings /\ embeddings[x] = n /\ Indexing(c, x)
  BY <1>1 DEF VectorsInv, Indexing
<1>3. \A f \in DOMAIN embeddings : Indexing(c, f) => f = x
  BY DEF Indexing
<1>4. /\ pc'[c] = "idle"
      /\ \A d \in Clients : d # c => pc'[d] = pc[d] /\ call'[d] = call[d]
  BY ReturnOthers DEF IndexEmbedding
<1> HIDE DEF x, n
<1>5. \A g \in DOMAIN vectors : vectors[g] = n
  BY <1>2 DEF VectorsInv
<1>6. vectors' = Over(vectors, Entry(x, n))
  BY <1>1, <1>5
<1>7. /\ DOMAIN vectors' = DOMAIN vectors \cup {x}
      /\ \A g \in DOMAIN vectors' : vectors'[g] = n
  BY <1>5, <1>6 DEF Over, Entry
<1>8. \A d \in Clients, f \in DOMAIN embeddings : Indexing(d, f)' <=> d # c /\ Indexing(d, f)
  BY <1>4 DEF Indexing
<1>9. ASSUME NEW f \in DOMAIN embeddings
      PROVE  f \in DOMAIN vectors' <=> \A d \in Clients : ~Indexing(d, f)'
  <2>1. CASE f = x
    BY <1>2, <1>7, <1>8, <2>1 DEF VectorsInv
  <2>2. CASE f # x
    BY <1>3, <1>7, <1>8, <2>2 DEF VectorsInv
  <2> QED BY <2>1, <2>2
<1>10. \A f \in DOMAIN embeddings : embeddings[f] = n
  BY <1>2 DEF VectorsInv
<1>11. \A d \in Clients : pc'[d] = "index" => /\ call'[d].fact \in DOMAIN embeddings
                                             /\ embeddings[call'[d].fact] = call'[d].dim
  BY <1>4 DEF VectorsInv
<1>12. DOMAIN vectors' \subseteq DOMAIN embeddings /\ DOMAIN embeddings \subseteq DOMAIN facts
  BY <1>2, <1>7 DEF VectorsInv
<1>13. \A d, e \in Clients : \A f \in DOMAIN embeddings :
         Indexing(d, f)' /\ Indexing(e, f)' => d = e
  BY <1>8 DEF VectorsInv
<1> QED BY <1>1, <1>7, <1>9, <1>10, <1>11, <1>12, <1>13 DEF VectorsInv

LEMMA StepVectors == Types /\ VectorsInv /\ [Next]_vars => VectorsInv'
<1> SUFFICES ASSUME Types, VectorsInv, [Next]_vars PROVE VectorsInv'
  OBVIOUS
<1>0. ASSUME NEW c \in Clients, WritesRecord(c) \/ OnlyCalls(c)
      PROVE  DOMAIN facts \subseteq DOMAIN facts'
  BY <1>0, FactsStay
<1>1. ASSUME NEW c \in Clients,
             \/ CallAssert(c) \/ WriteFact(c) \/ LookUpKey(c) \/ WriteIdempotent(c)
             \/ CallInvalidate(c) \/ CallCorrect(c) \/ ReadAgain(c) \/ ReplaceRow(c)
             \/ CallAssertChecked(c) \/ WriteChecked(c) \/ FailFact(c) \/ FailEnd(c)
      PROVE  VectorsInv'
  <2>1. /\ UNCHANGED <<embeddings, vectors>>
        /\ pc[c] # "index" /\ pc'[c] # "index"
        /\ \A d \in Clients : d # c => pc'[d] = pc[d] /\ call'[d] = call[d]
    BY <1>1, OtherSteps
  <2>2. DOMAIN facts \subseteq DOMAIN facts'
    BY <1>0, <1>1 DEF WritesRecord, OnlyCalls
  <2> QED BY <2>1, <2>2, VectorsKeep
<1>2. ASSUME NEW c \in Clients, StoreRegistration(c) PROVE VectorsInv'
  <2>1. UNCHANGED <<embeddings, vectors>> /\ pc[c] # "index"
    BY <1>2, Untouched, PolicyParts DEF StoreRegistration, Idle, caches
  <2>2. \E arguments : Goto(c, "cache", arguments)
    BY <1>2 DEF StoreRegistration
  <2>3. /\ pc'[c] # "index"
        /\ \A e \in Clients : e # c => pc'[e] = pc[e] /\ call'[e] = call[e]
    BY <2>2, GotoOthers DEF Steps
  <2>4. DOMAIN facts \subseteq DOMAIN facts'
    BY <1>0, <1>2 DEF WritesRecord
  <2> QED BY <2>1, <2>3, <2>4, VectorsKeep
<1>3. ASSUME NEW c \in Clients, CacheRegistration(c) PROVE VectorsInv'
  <2>1. UNCHANGED <<embeddings, vectors>> /\ pc[c] # "index"
    BY <1>3 DEF CacheRegistration, store
  <2>2. /\ pc'[c] # "index"
        /\ \A e \in Clients : e # c => pc'[e] = pc[e] /\ call'[e] = call[e]
    BY <1>3, ReturnOthers DEF CacheRegistration
  <2>3. DOMAIN facts \subseteq DOMAIN facts'
    BY <1>0, <1>3 DEF OnlyCalls
  <2> QED BY <2>1, <2>2, <2>3, VectorsKeep
<1>4. CASE Restart
  <2>1. ASSUME NEW c \in Clients PROVE pc'[c] # "index"
    BY <1>4 DEF Restart
  <2>3. /\ vectors' = embeddings' /\ DOMAIN embeddings' \subseteq DOMAIN facts'
        /\ \A f, g \in DOMAIN embeddings' : embeddings'[f] = embeddings'[g]
    BY <1>4 DEF Restart
  <2>4. \A c \in Clients, f \in DOMAIN embeddings' : ~Indexing(c, f)'
    BY <2>1 DEF Indexing
  <2> QED BY <2>1, <2>3, <2>4 DEF VectorsInv
<1>5. CASE UNCHANGED vars
  <2>1. UNCHANGED <<facts, embeddings, vectors, pc, call>>
    BY <1>5 DEF vars, store, caches, client
  <2> QED BY <2>1 DEF VectorsInv, Indexing
<1>6. ASSUME NEW c \in Clients, FailRegistration(c) \/ FailEmbedding(c) PROVE VectorsInv'
  <2>1. UNCHANGED <<facts, embeddings, vectors, pc, call>>
    BY <1>6 DEF FailRegistration, FailEmbedding, Fails, store, caches, client
  <2> QED BY <2>1 DEF VectorsInv, Indexing
<1> QED BY <1>1, <1>2, <1>3, <1>4, <1>5, <1>6, VectorsStored, VectorsIndexed DEF Next

LEMMA InitVectors == Init => VectorsInv
  BY DEF Init, VectorsInv, Indexing, Empty

(* The vector index never misses or mistakes a stored embedding that no    *)
(* call is about to insert, and every insert it is asked for succeeds.     *)
THEOREM VectorsFollow == Spec => []VectorsFollowStore
<1>1. Spec => [](Types /\ VectorsInv)
  BY InitTypes, StepTypes, InitVectors, StepVectors, PTL DEF Spec
<1> QED BY <1>1, VectorsImplies, PTL
====
