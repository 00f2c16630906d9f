---- MODULE LogRecords ----
(***************************************************************************)
(* The records of the append log, the logical state they build, and what   *)
(* an open reads back from a file (storage_append_log.rs).                 *)
(*                                                                         *)
(* AppendLogState is a bundle of maps, and every record overwrites entries *)
(* of some of them: "latest record wins".  Here one map entry is a CELL, a *)
(* logical state is a function from the cells that hold something to their *)
(* values, and a record is the function of the cells it overwrites.  The   *)
(* derived maps (the indexes over the facts) are modelled in FactIndex.    *)
(***************************************************************************)
EXTENDS Naturals, Sequences, FiniteSets, SequencesExt

CONSTANTS
    FactIds,       \* fact ids; a fact row is keyed by subject:predicate:id, so by its id
    IdemKeys,      \* idempotency keys
    RegistryKeys,  \* keys of the predicate, volatility and source-weight registries
    RegistryValues,\* their encoded entries
    Dims,          \* embedding lengths
    Objects,       \* what a fact row's object can be: "finite", or "nonfinite" (NaN, inf)
    Junk,          \* bytes that do not parse as a record
    NoTail         \* the file ends in a newline (or is empty)

ASSUME FiniteAssumption ==
    IsFiniteSet(FactIds) /\ IsFiniteSet(IdemKeys) /\ IsFiniteSet(RegistryKeys)

(* The parts of a logical state, one cell per map entry. *)
HeaderCell       == <<"header", "magic">>
SchemaCell       == <<"schema", "version">>
RegistryCell(p)  == <<"registry", p>>
FactCell(f)      == <<"fact", f>>
IdemCell(k)      == <<"idempotency", k>>
EmbeddingCell(f) == <<"embedding", f>>

Magic         == "kronroe-append-log-v1"
SchemaVersion == 2

(* A stored fact: what its object is, and whether it was invalidated. *)
Row == [object : Objects, ended : BOOLEAN]

Cell ==
    {HeaderCell, SchemaCell} \cup {RegistryCell(p) : p \in RegistryKeys}
    \cup {FactCell(f) : f \in FactIds} \cup {IdemCell(k) : k \in IdemKeys}
    \cup {EmbeddingCell(f) : f \in FactIds}

Write(c, v) == [x \in {c} |-> v]

(* state.apply_record: the record's cells win over what was there. *)
ApplyRecord(s, r) ==
    [c \in DOMAIN s \cup DOMAIN r |-> IF c \in DOMAIN r THEN r[c] ELSE s[c]]

HeaderRecord(magic)       == Write(HeaderCell, magic)
SchemaRecord(version)     == Write(SchemaCell, version)
RegistryRecord(p, e)      == Write(RegistryCell(p), e)
FactRecord(f, row)        == Write(FactCell(f), row)   \* UpsertFact and ReplaceFact
(* Mutant: the key is written without its fact. *)
KeyOnlyRecord(f, row, k)  == Write(IdemCell(k), f)
FactIdemRecord(f, row, k) == ApplyRecord(FactRecord(f, row), Write(IdemCell(k), f))
FactEmbeddingRecord(f, row, d) ==
    ApplyRecord(FactRecord(f, row), Write(EmbeddingCell(f), d))
(* A record type of a newer version: it parses, and nothing is applied. *)
UnknownRecord == [x \in {} |-> 0]

EmptyState == [x \in {} |-> 0]

(* The records this version writes. *)
Record ==
    {HeaderRecord(Magic), SchemaRecord(SchemaVersion)}
    \cup {RegistryRecord(p, e) : p \in RegistryKeys, e \in RegistryValues}
    \cup {FactRecord(f, row) : f \in FactIds, row \in Row}
    \cup {FactIdemRecord(f, row, k) : f \in FactIds, row \in Row, k \in IdemKeys}
    \cup {FactEmbeddingRecord(f, row, d) : f \in FactIds, row \in Row, d \in Dims}

(* json_write prints a non-finite float as NaN or inf, which json_read refuses: *)
(* such a row is written whole and cannot be read.                              *)
Readable(s) == \A f \in FactIds :
                  FactCell(f) \in DOMAIN s => s[FactCell(f)].object # "nonfinite"
Encode(r) == IF Readable(r) THEN r ELSE Junk

-----------------------------------------------------------------------------
(* Replaying a sequence of records: every cell keeps the value of the last *)
(* record that writes it.                                                  *)
Writers(recs, c) == {i \in DOMAIN recs : c \in DOMAIN recs[i]}
LastWriter(recs, c) ==
    CHOOSE i \in Writers(recs, c) : \A j \in Writers(recs, c) : j <= i
Written(recs) == UNION {DOMAIN recs[i] : i \in DOMAIN recs}
Replay(recs) == [c \in Written(recs) |-> recs[LastWriter(recs, c)][c]]

(* Mutant: a last segment that does not parse is corruption like any other. *)
StrictVerdict(segments, unterminated, i) ==
    IF segments[i] = Junk THEN "corruption" ELSE "fine"

(* What the scan finds wrong with segment i of a file, "fine" when nothing. *)
Verdict(segments, unterminated, i) ==
    LET r == segments[i] IN
    IF r = Junk
      THEN IF i = 1 THEN "backend mismatch"
           ELSE IF i = Len(segments) /\ unterminated THEN "torn tail"
           ELSE "corruption"
    ELSE IF i = 1 /\ r \notin {HeaderRecord(Magic), UnknownRecord} THEN "backend mismatch"
    ELSE IF SchemaCell \in DOMAIN r /\ r[SchemaCell] # SchemaVersion THEN "schema mismatch"
    ELSE "fine"

(* load_state_from_path on a file of these newline-terminated lines, followed *)
(* by the unterminated bytes tail: the first problem decides.  A last segment *)
(* without a newline that does not parse is an interrupted append, left out.  *)
Load(lines, tail) ==
    LET segments == IF tail = NoTail THEN lines ELSE Append(lines, tail)
        Bad == {i \in DOMAIN segments : Verdict(segments, tail # NoTail, i) # "fine"}
        first == CHOOSE i \in Bad : \A j \in Bad : i <= j
        problem == Verdict(segments, tail # NoTail, first)
    IN  IF Bad = {} THEN [result |-> "ok", state |-> Replay(segments)]
        ELSE IF problem = "torn tail" THEN [result |-> "ok", state |-> Replay(lines)]
        ELSE [result |-> problem, state |-> EmptyState]

Loads(lines, tail, s) == Load(lines, tail) = [result |-> "ok", state |-> s]

-----------------------------------------------------------------------------
IsState(s) ==
    /\ s = [c \in DOMAIN s |-> s[c]]
    /\ DOMAIN s \subseteq Cell
    /\ \A f \in FactIds : FactCell(f) \in DOMAIN s => s[FactCell(f)] \in Row
    /\ \A k \in IdemKeys : IdemCell(k) \in DOMAIN s => s[IdemCell(k)] \in FactIds
    /\ \A f \in FactIds : EmbeddingCell(f) \in DOMAIN s => s[EmbeddingCell(f)] \in Dims

(* Reading a logical state. *)
StoredFacts(s) == {f \in FactIds : FactCell(f) \in DOMAIN s}
StoredKeys(s)  == {k \in IdemKeys : IdemCell(k) \in DOMAIN s}
StoredDims(s)  == {s[EmbeddingCell(f)] : f \in {g \in FactIds : EmbeddingCell(g) \in DOMAIN s}}

(* compaction_records: its error paths, and the records in the order written. *)
Compactable(s) == \A k \in StoredKeys(s) : s[IdemCell(k)] \in StoredFacts(s)

RegistryRecords(s) ==
    {RegistryRecord(p, s[RegistryCell(p)]) :
        p \in {q \in RegistryKeys : RegistryCell(q) \in DOMAIN s}}

FactRecords(s) ==
    {IF EmbeddingCell(f) \in DOMAIN s
       THEN FactEmbeddingRecord(f, s[FactCell(f)], s[EmbeddingCell(f)])
       ELSE FactRecord(f, s[FactCell(f)]) : f \in StoredFacts(s)}

KeyRecords(s) ==
    {FactIdemRecord(s[IdemCell(k)], s[FactCell(s[IdemCell(k)])], k) : k \in StoredKeys(s)}

Preamble == <<HeaderRecord(Magic), SchemaRecord(SchemaVersion)>>

(* Mutant: compaction forgets the idempotency keys. *)
CompactionWithoutKeys(s) ==
    Preamble \o SetToSeq(RegistryRecords(s)) \o SetToSeq(FactRecords(s))

CompactionRecords(s) ==
    Preamble \o SetToSeq(RegistryRecords(s)) \o SetToSeq(FactRecords(s))
             \o SetToSeq(KeyRecords(s))
====
