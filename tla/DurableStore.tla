---- MODULE DurableStore ----
(***************************************************************************)
(* What the append log promises the code above it: one map of cells that   *)
(* writes change one record at a time.  A record is in force once its      *)
(* write has succeeded; one whose write ended otherwise is in doubt, and   *)
(* until its cells are written again an open may give it back or not.      *)
(* There is no file here, no tail of a file and no compaction, and no      *)
(* promise that an open succeeds.                                          *)
(***************************************************************************)
EXTENDS LogRecords

VARIABLES
    status,  \* "down", "opening", "up"
    memory,  \* what reads are answered from
    call,    \* the record being written, UnknownRecord when none is
    acked,   \* what the writes that succeeded built
    doubt    \* <<cell, value>> of the records in doubt

vars == <<status, memory, call, acked, doubt>>

NoCall == UnknownRecord

(* s holds what a does, but for values of D, and nothing that is in neither. *)
Recovers(s, a, D) ==
    /\ DOMAIN a \subseteq DOMAIN s
    /\ \A c \in DOMAIN s : (c \in DOMAIN a /\ s[c] = a[c]) \/ <<c, s[c]>> \in D

(* What a record may be, by what is stored: of a stored fact only the end   *)
(* can be written, a stored key is not written, and embeddings have one     *)
(* length.                                                                  *)
Fits(r) ==
    /\ \A f \in StoredFacts(r) \cap StoredFacts(memory) :
         r = FactRecord(f, [memory[FactCell(f)] EXCEPT !.ended = TRUE])
    /\ StoredKeys(r) \cap StoredKeys(memory) = {}
    /\ StoredDims(r) # {} => StoredDims(memory) \subseteq StoredDims(r)

Init ==
    /\ status = "down" /\ memory = EmptyState /\ call = NoCall
    /\ acked = EmptyState /\ doubt = {}

(* An open gives back whole records: every key with its fact. *)
Open ==
    /\ status = "down" /\ status' = "opening"
    /\ Recovers(memory', acked, doubt) /\ Compactable(memory')
    /\ UNCHANGED <<call, acked, doubt>>
Serve ==
    /\ status = "opening" /\ call = NoCall /\ status' = "up"
    /\ {HeaderCell, SchemaCell} \subseteq DOMAIN memory /\ Cardinality(StoredDims(memory)) <= 1
    /\ UNCHANGED <<memory, call, acked, doubt>>

Begin ==
    /\ call = NoCall /\ call' \in Record /\ Fits(call')
    /\ \/ status = "up"
       \/ status = "opening" /\ call' \in {HeaderRecord(Magic), SchemaRecord(SchemaVersion)}
    /\ UNCHANGED <<status, memory, acked, doubt>>
Succeed ==
    /\ call # NoCall /\ call' = NoCall
    /\ memory' = ApplyRecord(memory, call) /\ acked' = ApplyRecord(acked, call)
    /\ doubt' = {p \in doubt : p[1] \notin DOMAIN call}
    /\ UNCHANGED status

InDoubt == doubt' \in {doubt, doubt \cup {<<c, call[c]>> : c \in DOMAIN call}}
Fail ==
    /\ status = "up" /\ call # NoCall /\ call' = NoCall /\ InDoubt
    /\ UNCHANGED <<status, memory, acked>>
Stop ==
    /\ status # "down" /\ status' = "down" /\ memory' = EmptyState
    /\ call' = NoCall /\ InDoubt
    /\ UNCHANGED acked

Next == Open \/ Serve \/ Begin \/ Succeed \/ Fail \/ Stop

Spec == Init /\ [][Next]_vars
====
