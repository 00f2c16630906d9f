---- MODULE FactIndex ----
(***************************************************************************)
(* The derived maps of AppendLogState (storage_append_log.rs): the indexes *)
(* of the facts of each (subject, predicate) slot, the chain of a slot's   *)
(* facts by valid_from, and the queries they answer.  Clients assert facts *)
(* and invalidate them with a row read earlier; the log is compacted, and  *)
(* replayed when the database is opened again.  Files and faults are the   *)
(* matter of AppendLog: here an upsert reaches the log and the state       *)
(* together.  An index entry that the code removes is the empty one.       *)
(***************************************************************************)
EXTENDS Naturals, Sequences, FiniteSets, SequencesExt

CONSTANTS
    FactIds,  \* fact ids, in the order of the row keys
    Slots,    \* (subject, predicate) pairs
    Times,    \* points in valid time
    Clients,
    NoEnd,    \* None: the fact has not ended
    NoRow,    \* a client is not in the middle of an invalidation
    MaxLog    \* bound on the upserts in the log

ASSUME OrderAssumption == FactIds \subseteq Nat /\ Times \subseteq Nat /\ MaxLog \in Nat
ASSUME NoneAssumption == NoEnd \notin Times

VARIABLES
    state,   \* AppendLogState: the facts, and what is derived from them
    log,     \* the upserts in the file, in order
    keyed,   \* facts that an idempotency key names
    pending  \* what a client's invalidate_fact has read

vars == <<state, log, keyed, pending>>

Row == [slot : Slots, from : Times, to : Times \cup {NoEnd}, expired : Times \cup {NoEnd}]
Upsert == [id : FactIds, row : Row]

EmptyIndex == [s \in Slots |-> {}]
NoFacts ==
    [facts |-> [f \in {} |-> NoRow], byId |-> {}, bySlot |-> EmptyIndex,
     active |-> EmptyIndex, current |-> EmptyIndex, chain |-> [s \in Slots |-> <<>>]]

TypeOK ==
    /\ DOMAIN state.facts \subseteq FactIds
    /\ \A f \in DOMAIN state.facts : state.facts[f] \in Row
    /\ state.byId \subseteq FactIds
    /\ {state.bySlot, state.active, state.current} \subseteq [Slots -> SUBSET FactIds]
    /\ state.chain \in [Slots -> Seq(FactIds)]
    /\ log \in Seq(Upsert) /\ Len(log) <= MaxLog
    /\ keyed \subseteq FactIds
    /\ pending \in [Clients -> Upsert \cup {NoRow}]

Init == state = NoFacts /\ log = <<>> /\ keyed = {} /\ pending = [c \in Clients |-> NoRow]

-----------------------------------------------------------------------------
IsCurrentlyValid(row) == row.to = NoEnd /\ row.expired = NoEnd

After(end, at) == end = NoEnd \/ end > at
WasValidAt(row, at) == row.from <= at /\ After(row.to, at) /\ After(row.expired, at)

(* slice::partition_point: how many elements come before the first not in S. *)
PartitionPoint(seq, S) ==
    CHOOSE n \in 0..Len(seq) :
        (\A i \in 1..n : seq[i] \in S) /\ (n < Len(seq) => seq[n + 1] \notin S)

(* Mutant: a new fact goes to the end of its slot's chain. *)
InsertLast(st, f, row) ==
    [st EXCEPT !.bySlot[row.slot] = @ \cup {f},
               !.active[row.slot] = IF row.expired = NoEnd THEN @ \cup {f} ELSE @,
               !.current[row.slot] = IF IsCurrentlyValid(row) THEN @ \cup {f} ELSE @,
               !.chain[row.slot] = Append(@, f)]

InsertFactIndex(st, f, row) ==
    LET notLater == {g \in DOMAIN st.facts : st.facts[g].from <= row.from} IN
    [st EXCEPT !.bySlot[row.slot] = @ \cup {f},
               !.active[row.slot] = IF row.expired = NoEnd THEN @ \cup {f} ELSE @,
               !.current[row.slot] = IF IsCurrentlyValid(row) THEN @ \cup {f} ELSE @,
               !.chain[row.slot] = InsertAt(@, PartitionPoint(@, notLater) + 1, f)]

RemoveFactIndex(st, f, row) ==
    [st EXCEPT !.bySlot[row.slot] = @ \ {f},
               !.active[row.slot] = @ \ {f},
               !.current[row.slot] = @ \ {f},
               !.chain[row.slot] = RemoveFirst(@, f)]

StoreRow(st, u) ==
    [st EXCEPT !.facts = [f \in DOMAIN @ \cup {u.id} |-> IF f = u.id THEN u.row ELSE @[f]],
               !.byId = @ \cup {u.id}]

(* Mutant: the entries of the row that is replaced stay. *)
UpsertKeepsEntries(st, u) ==
    IF u.id \in DOMAIN st.facts
      THEN LET bare == RemoveFactIndex(StoreRow(st, u), u.id, st.facts[u.id])
           IN  InsertFactIndex([bare EXCEPT !.active = st.active, !.current = st.current],
                               u.id, u.row)
      ELSE InsertFactIndex(StoreRow(st, u), u.id, u.row)

ApplyFactUpsert(st, u) ==
    LET stored == StoreRow(st, u)
        bare   == IF u.id \in DOMAIN st.facts
                    THEN RemoveFactIndex(stored, u.id, st.facts[u.id]) ELSE stored
    IN  InsertFactIndex(bare, u.id, u.row)

Rebuild(upserts) ==
    LET replayed[n \in 0..Len(upserts)] ==
            IF n = 0 THEN NoFacts ELSE ApplyFactUpsert(replayed[n - 1], upserts[n])
    IN  replayed[Len(upserts)]

-----------------------------------------------------------------------------
(* Iterator::filter: the elements that are in S, in their order. *)
Keep(seq, S) ==
    LET kept[n \in 0..Len(seq)] ==
            IF n = 0 THEN <<>>
            ELSE IF seq[n] \in S THEN Append(kept[n - 1], seq[n]) ELSE kept[n - 1]
    IN  kept[Len(seq)]

(* facts_at: those that began by at, newest first, the ended ones left out. *)
FactsAt(st, s, at) ==
    LET began == {f \in DOMAIN st.facts : st.facts[f].from <= at}
        valid == {f \in DOMAIN st.facts : WasValidAt(st.facts[f], at)}
    IN  Keep(Reverse(SubSeq(st.chain[s], 1, PartitionPoint(st.chain[s], began))), valid)

-----------------------------------------------------------------------------
Write(u) ==
    /\ Len(log) < MaxLog
    /\ log' = Append(log, u)
    /\ state' = ApplyFactUpsert(state, u)

(* write_fact, or write_fact_and_idempotency with a new key. *)
AssertFact == \E f \in FactIds \ DOMAIN state.facts, s \in Slots, t \in Times :
    /\ Write([id |-> f, row |-> [slot |-> s, from |-> t, to |-> NoEnd, expired |-> NoEnd]])
    /\ keyed' \in {keyed, keyed \cup {f}}
    /\ UNCHANGED pending

(* invalidate_fact: read the row; write it back with both its ends closed. *)
ReadRow(c) == \E f \in state.byId :
    /\ pending[c] = NoRow
    /\ pending' = [pending EXCEPT ![c] = [id |-> f, row |-> state.facts[f]]]
    /\ UNCHANGED <<state, log, keyed>>

Ended(u, at) == [u EXCEPT !.row.to = at, !.row.expired = at]

(* Mutant: the ended row is not written to the log. *)
ReplaceInMemory(c) == \E at \in Times :
    /\ pending[c] # NoRow
    /\ state' = ApplyFactUpsert(state, Ended(pending[c], at))
    /\ pending' = [pending EXCEPT ![c] = NoRow]
    /\ UNCHANGED <<log, keyed>>

ReplaceRow(c) == \E at \in Times :
    /\ pending[c] # NoRow
    /\ Write(Ended(pending[c], at))
    /\ pending' = [pending EXCEPT ![c] = NoRow]
    /\ UNCHANGED keyed

(* The records of a compaction: the facts in the order of their keys, then *)
(* once more those named by an idempotency key, in the order of the keys.  *)
UpsertsOf(ids) == [i \in DOMAIN ids |-> [id |-> ids[i], row |-> state.facts[ids[i]]]]
KeyOrders(ids) ==
    {ordered \in SetToSeqs(ids) : \A i, j \in DOMAIN ordered : i < j => ordered[i] < ordered[j]}

(* Mutant: only the current facts are kept. *)
CompactCurrent ==
    LET ids == {f \in DOMAIN state.facts : IsCurrentlyValid(state.facts[f])} IN
    \E ordered \in KeyOrders(ids), named \in SetToSeqs(keyed) :
    /\ Cardinality(ids) + Cardinality(keyed) <= MaxLog
    /\ log' = UpsertsOf(ordered) \o UpsertsOf(named)
    /\ UNCHANGED <<state, keyed, pending>>

(* Mutant: the compacted records are written behind the old ones. *)
CompactBehind == \E ordered \in KeyOrders(DOMAIN state.facts), named \in SetToSeqs(keyed) :
    /\ Cardinality(DOMAIN state.facts) + Cardinality(keyed) <= MaxLog
    /\ log' = log \o UpsertsOf(ordered) \o UpsertsOf(named)
    /\ UNCHANGED <<state, keyed, pending>>

Compact == \E ordered \in KeyOrders(DOMAIN state.facts), named \in SetToSeqs(keyed) :
    /\ Cardinality(DOMAIN state.facts) + Cardinality(keyed) <= MaxLog
    /\ log' = UpsertsOf(ordered) \o UpsertsOf(named)
    /\ UNCHANGED <<state, keyed, pending>>

(* The process ends and the database is opened again. *)
Reopen ==
    /\ state' = Rebuild(log)
    /\ pending' = [c \in Clients |-> NoRow]
    /\ UNCHANGED <<log, keyed>>

Next ==
    \/ AssertFact
    \/ \E c \in Clients : ReadRow(c) \/ ReplaceRow(c)
    \/ Compact \/ Reopen

Spec == Init /\ [][Next]_vars

-----------------------------------------------------------------------------
SlotFacts(st, s) == {f \in DOMAIN st.facts : st.facts[f].slot = s}

(* The indexes and chains are what a pass over the facts would find: with  *)
(* stale rows written back, compaction and replay, no entry is left behind *)
(* by a replaced row, missing, or in the chain twice.                      *)
Indexed(st) ==
    /\ st.byId = DOMAIN st.facts
    /\ \A s \in Slots :
         /\ st.bySlot[s] = SlotFacts(st, s)
         /\ st.active[s] = {f \in SlotFacts(st, s) : st.facts[f].expired = NoEnd}
         /\ st.current[s] = {f \in SlotFacts(st, s) : IsCurrentlyValid(st.facts[f])}
         /\ ToSet(st.chain[s]) = SlotFacts(st, s) /\ IsInjective(st.chain[s])

IndexesMatchFacts == Indexed(state)

(* facts_at finds by binary search exactly the facts that were valid then, *)
(* the latest valid_from first, after any order of assertions with past    *)
(* and future dates.                                                       *)
FactsAtExact == \A s \in Slots, at \in Times :
    LET found == FactsAt(state, s, at)
        From(i) == state.facts[found[i]].from
    IN  /\ ToSet(found) = {f \in SlotFacts(state, s) : WasValidAt(state.facts[f], at)}
        /\ \A i, j \in DOMAIN found : i < j => From(i) >= From(j)

(* Opening the database now would find every slot as the running process   *)
(* has it: the same facts and indexes, and a chain in the order of         *)
(* valid_from.  (Facts with one valid_from may come in another order.)     *)
ReplayRebuilds ==
    LET rebuilt == Rebuild(log)
        From(s, i) == rebuilt.facts[rebuilt.chain[s][i]].from
    IN  /\ rebuilt.facts = state.facts
        /\ Indexed(rebuilt)
        /\ \A s \in Slots : \A i, j \in DOMAIN rebuilt.chain[s] :
              i < j => From(s, i) <= From(s, j)

(* History is kept: nothing, a compaction and reopening included, forgets  *)
(* a fact, moves its beginning, or revives it once ended, even when rows   *)
(* read before another client's invalidation are written back.             *)
HistoryKept ==
    [][ \A f \in DOMAIN state.facts :
            /\ f \in DOMAIN state'.facts
            /\ state'.facts[f].slot = state.facts[f].slot
            /\ state'.facts[f].from = state.facts[f].from
            /\ IsCurrentlyValid(state'.facts[f]) => IsCurrentlyValid(state.facts[f]) ]_vars
====
