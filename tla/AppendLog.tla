---- MODULE AppendLog ----
(***************************************************************************)
(* AppendLogBackend (storage_append_log.rs): one process that holds the    *)
(* write lock, its logical state behind a mutex, and the file it appends   *)
(* to.  A write takes the mutex, appends the record, a newline, and syncs, *)
(* and applies the record in memory only then; pc and rec are the call     *)
(* that holds the mutex.  Between the steps of a call an I/O error can end *)
(* it (the process lives on), the process can die, or the machine can lose *)
(* power.  WriteLock shows when the single process is guaranteed.          *)
(*                                                                         *)
(* The file system is a journaling one: a successful sync of the file also *)
(* makes its directory entry durable; a rename alone does not.             *)
(***************************************************************************)
EXTENDS LogRecords

CONSTANTS
    Faults,    \* what can go wrong: a subset of {"io", "crash", "power"}
    MaxLines,  \* bound on the lines of the file
    NoFile     \* no other version of the file is on the disk

ASSUME FaultsAssumption == Faults \subseteq {"io", "crash", "power"}
ASSUME MaxLinesAssumption == MaxLines \in Nat
ASSUME DistinctAssumption ==
    /\ Junk \notin Record
    /\ NoTail \notin Record \cup {Junk}

VARIABLES
    lines,    \* newline-terminated lines of the file, records or Junk
    tail,     \* bytes after the last newline: NoTail, a record, or Junk
    synced,   \* how many lines are durable
    stale,    \* file the directory may still name after a power loss
    status,   \* "closed", "refused" (open failed on the file), "init", "open"
    mem,      \* AppendLogState, EmptyState when no process has the file open
    pc,       \* step of the call that holds the state mutex, "idle" if none
    rec,      \* record that call appends
    \* What callers were told, for the properties.
    acked,    \* state that the acknowledged records build
    doubt,    \* <<cell, value>> of records whose append did not end in success
    answered, \* idempotency keys that were answered with a fact stored before
    clean     \* since the last open nothing went wrong that the file remembers

file  == <<lines, tail, synced, stale>>
call  == <<pc, rec>>
ghost == <<acked, doubt, answered, clean>>
vars  == <<file, status, mem, call, ghost>>

TypeOK ==
    /\ lines \in Seq(Record \cup {Junk}) /\ Len(lines) <= MaxLines
    /\ tail \in Record \cup {Junk, NoTail}
    /\ synced \in 0..Len(lines)
    /\ stale # NoFile =>
          /\ stale.lines \in Seq(Record \cup {Junk})
          /\ stale.tail \in Record \cup {Junk, NoTail}
          /\ stale.synced \in 0..Len(stale.lines)
    /\ status \in {"closed", "refused", "init", "open"}
    /\ IsState(mem) /\ IsState(acked)
    /\ pc \in {"idle", "write", "newline", "sync", "rename", "syncdir"}
    /\ rec \in Record \cup {UnknownRecord}
    /\ answered \subseteq IdemKeys
    /\ clean \in BOOLEAN

Init ==
    /\ lines = <<>> /\ tail = NoTail /\ synced = 0 /\ stale = NoFile
    /\ status = "closed" /\ mem = EmptyState
    /\ pc = "idle" /\ rec = UnknownRecord
    /\ acked = EmptyState /\ doubt = {} /\ answered = {} /\ clean = TRUE

-----------------------------------------------------------------------------
(* Opening: load_state_from_path, then initialize_schema, then the rebuild *)
(* of the vector index, which refuses embeddings of different lengths.     *)

Down == status \in {"closed", "refused"}

Open ==
    /\ Down
    /\ Load(lines, tail).result = "ok"
    /\ status' = "init" /\ mem' = Load(lines, tail).state
    /\ clean' = TRUE
    /\ UNCHANGED <<file, call, acked, doubt, answered>>

OpenRefused ==
    /\ Down
    /\ Load(lines, tail).result # "ok"
    /\ status' = "refused"
    /\ UNCHANGED <<file, mem, call, ghost>>

(* Any write: take the mutex, open the file for append. *)
BeginAppend(r) ==
    /\ pc = "idle" /\ Len(lines) < MaxLines
    /\ pc' = "write" /\ rec' = r
    /\ UNCHANGED <<file, status, mem, ghost>>

InitializeSchema ==
    /\ status = "init"
    /\ \/ HeaderCell \notin DOMAIN mem /\ BeginAppend(HeaderRecord(Magic))
       \/ /\ HeaderCell \in DOMAIN mem /\ SchemaCell \notin DOMAIN mem
          /\ BeginAppend(SchemaRecord(SchemaVersion))

FinishOpen ==
    /\ status = "init" /\ pc = "idle"
    /\ {HeaderCell, SchemaCell} \subseteq DOMAIN mem
    /\ IF Cardinality(StoredDims(mem)) <= 1
         THEN status' = "open" /\ mem' = mem
         ELSE status' = "refused" /\ mem' = EmptyState
    /\ UNCHANGED <<file, call, ghost>>

-----------------------------------------------------------------------------
(* The write operations, up to the start of their append.                  *)

(* FactId::new never returns an id twice. *)
Unused(f) == /\ FactCell(f) \notin DOMAIN acked \cup DOMAIN mem
             /\ \A p \in doubt : p[1] # FactCell(f)

WriteFact == \E f \in FactIds, o \in Objects :
    /\ status = "open" /\ Unused(f)
    /\ BeginAppend(FactRecord(f, [object |-> o, ended |-> FALSE]))

ReplaceFactRow == \E f \in StoredFacts(mem) :
    /\ status = "open"
    /\ BeginAppend(FactRecord(f, [mem[FactCell(f)] EXCEPT !.ended = TRUE]))

(* Mutant: the key is not looked up again under the lock. *)
WriteKeyUnchecked == \E f \in FactIds, k \in IdemKeys, o \in Objects :
    /\ status = "open" /\ Unused(f)
    /\ BeginAppend(FactIdemRecord(f, [object |-> o, ended |-> FALSE], k))

WriteFactAndIdempotency == \E f \in FactIds, k \in IdemKeys, o \in Objects :
    /\ status = "open" /\ Unused(f)
    /\ IdemCell(k) \notin DOMAIN mem
    /\ BeginAppend(FactIdemRecord(f, [object |-> o, ended |-> FALSE], k))

(* The key is known: its fact id is returned, nothing is written. *)
AnswerExisting == \E k \in StoredKeys(mem) :
    /\ status = "open" /\ pc = "idle"
    /\ answered' = answered \cup {k}
    /\ UNCHANGED <<file, status, mem, call, acked, doubt, clean>>

(* Mutant: the length is not compared with the embeddings stored before. *)
WriteEmbeddingUnchecked == \E f \in FactIds, d \in Dims, o \in Objects :
    /\ status = "open" /\ Unused(f)
    /\ BeginAppend(FactEmbeddingRecord(f, [object |-> o, ended |-> FALSE], d))

WriteFactWithEmbedding == \E f \in FactIds, d \in Dims, o \in Objects :
    /\ status = "open" /\ Unused(f)
    /\ StoredDims(mem) \subseteq {d}
    /\ BeginAppend(FactEmbeddingRecord(f, [object |-> o, ended |-> FALSE], d))

WriteRegistryEntry == \E p \in RegistryKeys, e \in RegistryValues :
    /\ status = "open"
    /\ BeginAppend(RegistryRecord(p, e))

-----------------------------------------------------------------------------
(* append_record_to_path: the record's bytes, the newline, the sync.       *)

(* Bytes written behind an unterminated tail join it in one line. *)
Glue(t, r) == IF t = NoTail THEN Encode(r) ELSE Junk

WriteRecord ==
    /\ pc = "write"
    /\ tail' = Glue(tail, rec)
    /\ clean' = (clean /\ tail = NoTail)
    /\ pc' = "newline"
    /\ UNCHANGED <<lines, synced, stale, status, mem, rec, acked, doubt, answered>>

WriteNewline ==
    /\ pc = "newline"
    /\ lines' = Append(lines, tail) /\ tail' = NoTail
    /\ pc' = "sync"
    /\ UNCHANGED <<synced, stale, status, mem, rec, ghost>>

Acknowledge ==
    /\ acked' = ApplyRecord(acked, rec)
    /\ doubt' = {p \in doubt : p[1] \notin DOMAIN rec}
    /\ pc' = "idle" /\ rec' = UnknownRecord
    /\ UNCHANGED <<lines, tail, status, answered, clean>>

(* Mutant: success is returned without the sync. *)
ApplyWithoutSync ==
    /\ pc = "sync"
    /\ mem' = ApplyRecord(mem, rec)
    /\ Acknowledge
    /\ UNCHANGED <<synced, stale>>

(* Mutant: the record reaches the disk and is not applied in memory. *)
SyncWithoutApply ==
    /\ pc = "sync"
    /\ synced' = Len(lines) /\ stale' = NoFile
    /\ Acknowledge
    /\ UNCHANGED mem

SyncAndApply ==
    /\ pc = "sync"
    /\ synced' = Len(lines) /\ stale' = NoFile
    /\ mem' = ApplyRecord(mem, rec)
    /\ Acknowledge

(* The call in flight ends without success: its record is in doubt once all *)
(* its bytes are written.                                                   *)
InDoubt == doubt' = IF pc = "write" THEN doubt
                                    ELSE doubt \cup {<<c, rec[c]>> : c \in DOMAIN rec}

(* An I/O error is returned to the caller and nothing is applied; an open *)
(* that fails this way drops the backend.                                  *)
ReturnError ==
    /\ "io" \in Faults
    /\ pc' = "idle" /\ rec' = UnknownRecord
    /\ status' = IF status = "init" THEN "closed" ELSE status
    /\ mem' = IF status = "init" THEN EmptyState ELSE mem

(* No byte, or some of the record's bytes, were written. *)
PartOfRecord == tail' \in {tail, Junk}

WriteFails ==
    /\ pc = "write" /\ ReturnError
    /\ PartOfRecord /\ InDoubt
    /\ clean' = (clean /\ (tail \in Record => tail' = tail))
    /\ UNCHANGED <<lines, synced, stale, acked, answered>>

NewlineFails ==
    /\ pc = "newline" /\ ReturnError
    /\ InDoubt /\ clean' = FALSE
    /\ UNCHANGED <<file, acked, answered>>

(* Mutant: the record is in the file, so it is applied although the sync failed. *)
SyncFailsApplied ==
    /\ "io" \in Faults /\ pc = "sync"
    /\ pc' = "idle" /\ rec' = UnknownRecord
    /\ mem' = ApplyRecord(mem, rec)
    /\ InDoubt /\ clean' = FALSE
    /\ UNCHANGED <<file, status, acked, answered>>

SyncFails ==
    /\ pc = "sync" /\ ReturnError
    /\ InDoubt /\ clean' = FALSE
    /\ UNCHANGED <<file, acked, answered>>

-----------------------------------------------------------------------------
(* compact: the state is written to a temporary file and synced, the       *)
(* temporary file renamed over the log, the directory synced.  Nothing     *)
(* reads the temporary file, so it appears only as the step "rename".      *)

WriteCompacted ==
    /\ status = "open" /\ pc = "idle"
    /\ Compactable(mem) /\ Len(CompactionRecords(mem)) <= MaxLines
    /\ pc' = "rename"
    /\ UNCHANGED <<file, status, mem, rec, ghost>>

(* An older file that no sync of the directory has ruled out may still be   *)
(* the one a power loss brings back: stale is any one of them.              *)
ReplaceFile ==
    /\ \/ stale' = [lines |-> lines, tail |-> tail, synced |-> synced]
       \/ stale # NoFile /\ stale' = stale
    /\ lines' = [i \in DOMAIN CompactionRecords(mem) |-> Encode(CompactionRecords(mem)[i])]
    /\ tail' = NoTail

RenameCompacted ==
    /\ pc = "rename" /\ pc' = "syncdir"
    /\ ReplaceFile
    /\ synced' = Len(lines') /\ clean' = (clean /\ stale = NoFile)
    /\ UNCHANGED <<status, mem, rec, acked, doubt, answered>>

SyncDirectory ==
    /\ pc = "syncdir"
    /\ stale' = NoFile /\ clean' = TRUE
    /\ pc' = "idle"
    /\ UNCHANGED <<lines, tail, synced, status, mem, rec, acked, doubt, answered>>

(* The rename or the directory sync fails. *)
CompactFails ==
    /\ "io" \in Faults /\ pc \in {"rename", "syncdir"}
    /\ pc' = "idle"
    /\ UNCHANGED <<file, status, mem, rec, ghost>>

-----------------------------------------------------------------------------
(* The end of the process: an orderly drop, a crash, a power loss.         *)

Close ==
    /\ status = "open" /\ pc = "idle"
    /\ status' = "closed" /\ mem' = EmptyState
    /\ UNCHANGED <<file, call, ghost>>

Dead ==
    /\ status' = "closed" /\ mem' = EmptyState
    /\ pc' = "idle" /\ rec' = UnknownRecord
    /\ InDoubt
    /\ UNCHANGED <<acked, answered, clean>>

Crash ==
    /\ "crash" \in Faults /\ status \in {"init", "open"}
    /\ IF pc = "write" THEN PartOfRecord ELSE tail' = tail
    /\ UNCHANGED <<lines, synced, stale>>
    /\ Dead

(* What a file can hold after a power loss: at least the synced lines, and *)
(* of the bytes behind them any prefix.  (A prefix that cuts a line glued  *)
(* together of two writes between the two is what a power loss before the  *)
(* second write leaves.)                                                   *)
SurvivingTails(f, n) ==
    IF n = Len(f.lines) THEN {f.tail, NoTail} \cup (IF f.tail = NoTail THEN {} ELSE {Junk})
                        ELSE {NoTail, Junk, f.lines[n + 1]}

PowerLoss ==
    /\ "power" \in Faults
    /\ \E f \in {[lines |-> lines, tail |-> t, synced |-> synced] :
                    t \in {tail} \cup (IF pc = "write" THEN {Junk} ELSE {})}
                \cup (IF stale = NoFile THEN {} ELSE {stale}) :
         \E n \in f.synced..Len(f.lines) : \E t \in SurvivingTails(f, n) :
            /\ lines' = SubSeq(f.lines, 1, n) /\ tail' = t
            /\ synced' = n
    /\ stale' = NoFile
    /\ Dead

Next ==
    \/ Open \/ OpenRefused \/ InitializeSchema \/ FinishOpen
    \/ WriteFact \/ ReplaceFactRow \/ WriteFactAndIdempotency \/ AnswerExisting
    \/ WriteFactWithEmbedding \/ WriteRegistryEntry
    \/ WriteRecord \/ WriteNewline \/ SyncAndApply
    \/ WriteFails \/ NewlineFails \/ SyncFails
    \/ WriteCompacted \/ RenameCompacted \/ SyncDirectory \/ CompactFails
    \/ Close \/ Crash \/ PowerLoss

Spec == Init /\ [][Next]_vars

-----------------------------------------------------------------------------
(* An acknowledged record is never lost in silence: as long as the file    *)
(* opens, it gives back every acknowledged cell, overwritten at most by a  *)
(* record still in flight or whose append ended in an error or a crash.    *)
NoSilentLoss ==
    LET got == Load(lines, tail) IN
    got.result = "ok" =>
        \A c \in DOMAIN acked :
            /\ c \in DOMAIN got.state
            /\ \/ got.state[c] = acked[c]
               \/ <<c, got.state[c]>> \in doubt
               \/ c \in DOMAIN rec /\ got.state[c] = rec[c]

(* The log is the source of truth: while the process has met no error and  *)
(* no unterminated tail to append behind, replaying the file at any moment *)
(* between two writes gives the state in memory.                           *)
MemoryMatchesLog ==
    /\ status \in {"init", "open"} /\ pc \in {"idle", "write", "rename", "syncdir"}
    /\ clean /\ Readable(mem)
    => Loads(lines, tail, mem)

(* What was on the disk when the call in flight began was all durable. *)
DurableBase ==
    /\ synced = IF pc = "sync" THEN Len(lines) - 1 ELSE Len(lines)
    /\ tail \in Record => pc = "newline"
    /\ stale # NoFile =>
          pc = "syncdir" /\ stale.synced = Len(stale.lines) /\ stale.tail \notin Record

(* A crash or power loss is atomic: the next open finds the state before   *)
(* the call in flight or after it, in every step of a write or compaction  *)
(* once the header is there.                                               *)
CrashAtomic ==
    [][ /\ status \in {"init", "open"} /\ status' = "closed"
        /\ HeaderCell \in DOMAIN mem
        /\ clean /\ Readable(mem) /\ Readable(rec) /\ DurableBase
        => \/ Loads(lines', tail', mem)
           \/ Loads(lines', tail', ApplyRecord(mem, rec)) ]_vars

(* Compaction keeps every fact, key, registry entry and embedding that is  *)
(* in memory, whatever earlier errors left in the file it replaces.        *)
CompactionKeepsState ==
    [][ pc = "rename" /\ pc' = "syncdir" /\ Readable(mem)
        => Loads(lines', tail', mem) ]_vars

(* A fact and its idempotency key are one record: no crash, error or       *)
(* compaction leaves a key that names a fact the store does not have, in   *)
(* memory (where it would make every compaction fail) or on the disk.      *)
KeysNameStoredFacts ==
    Compactable(mem) /\ Compactable(Load(lines, tail).state)

(* Two acknowledged writes never share an idempotency key: the fact a key  *)
(* was acknowledged with stays its fact.                                   *)
KeyKeepsItsFact ==
    [][ \A k \in StoredKeys(acked) : acked'[IdemCell(k)] = acked[IdemCell(k)] ]_vars

(* Without I/O errors the vector index can always be rebuilt: a file that  *)
(* opens holds embeddings of one length.                                   *)
EmbeddingsRebuild == Cardinality(StoredDims(Load(lines, tail).state)) <= 1

(* The log implements the map of cells that the code above it relies on:   *)
(* torn tails, partial writes and compaction never show.                   *)
Store == INSTANCE DurableStore WITH
    status <- CASE status = "init" -> "opening" [] status = "open" -> "up" [] OTHER -> "down",
    memory <- mem, call <- rec
ImplementsStore == Store!Spec

(* What STORAGE-ENGINE.md promises without those conditions. *)

(* "Source of truth: append-log record stream": between two calls, a       *)
(* replay of the file gives the state the process answers reads from.      *)
SourceOfTruth ==
    status = "open" /\ pc = "idle" => Loads(lines, tail, mem)

(* A key that was answered with its fact id keeps its fact. *)
AnsweredKeysSurvive ==
    Down /\ Load(lines, tail).result = "ok" => answered \subseteq StoredKeys(Load(lines, tail).state)
====
