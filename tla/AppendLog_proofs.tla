---- MODULE AppendLog_proofs ----
(***************************************************************************)
(* Proofs about AppendLog, for every set of fact ids, keys and faults and  *)
(* every bound on the file: its types, that a key never names a missing    *)
(* fact, that compaction keeps the state, that no acknowledged record is   *)
(* lost, that the log replays to the state in memory, that a crash is      *)
(* atomic, that a key keeps its fact, and that the vector index can be     *)
(* rebuilt.  First come facts about replay, loading and compaction, for    *)
(* every sequence of records.                                              *)
(***************************************************************************)
EXTENDS AppendLog, Integers, FiniteSetTheorems, WellFoundedInduction, TLAPS

-----------------------------------------------------------------------------
(* Least and greatest elements of sets of naturals, which tell what the      *)
(* CHOOSEs of LogRecords return.                                             *)
LEMMA MinExists ==
    ASSUME NEW T \in SUBSET Nat, T # {}
    PROVE  \E x \in T : \A y \in T : x <= y
<1> DEFINE Less == OpToRel(<, Nat)
<1>1. IsWellFoundedOn(Less, Nat)
  BY NatLessThanWellFounded
<1>2. \A x, y \in Nat : <<y, x>> \in Less <=> y < x
  BY DEF OpToRel
<1> HIDE DEF Less
<1>3. PICK x \in T : \A y \in T : ~ (<<y, x>> \in Less)
  BY <1>1, WFMin
<1>4. \A y \in T : ~(y < x)
  BY <1>2, <1>3
<1>5. x \in Nat /\ \A y \in T : y \in Nat
  OBVIOUS
<1>6. \A y \in T : x <= y
  BY <1>4, <1>5
<1> QED
  BY <1>6

LEMMA MaxExists ==
    ASSUME NEW n \in Nat, NEW S \in SUBSET (0..n), S # {}
    PROVE  \E x \in S : \A y \in S : y <= x
<1> DEFINE T == {n - x : x \in S}
<1>1. \A x \in S : x \in Nat /\ n - x \in Nat
  OBVIOUS
<1>2. T \in SUBSET Nat
  BY <1>1
<1>3. T # {}
  BY Zenon
<1>4. PICK m \in T : \A y \in T : m <= y
  BY <1>2, <1>3, MinExists
<1>5. PICK x \in S : m = n - x
  BY <1>4
<1>6. \A y \in S : n - x <= n - y
  BY <1>4, <1>5
<1> QED
  BY <1>6

LEMMA MaxUnique ==
    ASSUME NEW S \in SUBSET Nat, NEW n \in S, \A j \in S : j <= n
    PROVE  (CHOOSE i \in S : \A j \in S : j <= i) = n
<1>1. \A i \in S : (\A j \in S : j <= i) => i = n
  OBVIOUS
<1> QED
  BY <1>1

-----------------------------------------------------------------------------
(* A sequence of records: functions from cells. *)
IsFcn(r) == r = [c \in DOMAIN r |-> r[c]]

LEMMA LastWriterIsWriter ==
    ASSUME NEW recs, DOMAIN recs = 1..Len(recs), Len(recs) \in Nat,
           NEW c, Writers(recs, c) # {}
    PROVE  /\ LastWriter(recs, c) \in DOMAIN recs
           /\ c \in DOMAIN recs[LastWriter(recs, c)]
           /\ \A j \in DOMAIN recs : c \in DOMAIN recs[j] => j <= LastWriter(recs, c)
<1>1. Writers(recs, c) \in SUBSET (0..Len(recs))
  BY DEF Writers
<1>2. \E i \in Writers(recs, c) : \A j \in Writers(recs, c) : j <= i
  BY <1>1, MaxExists
<1> QED
  BY <1>2 DEF Writers, LastWriter

(* One more record wins over the state before it: appending to the log and *)
(* apply_record in memory do the same to the logical state.                *)
LEMMA ReplayAppend ==
    ASSUME NEW R, NEW recs \in Seq(R), NEW r
    PROVE  Replay(Append(recs, r)) = ApplyRecord(Replay(recs), r)
<1> DEFINE longer == Append(recs, r)
           n == Len(recs)
<1>1. /\ n \in Nat /\ DOMAIN recs = 1..n
      /\ DOMAIN longer = 1..(n + 1)
      /\ longer[n + 1] = r
      /\ \A i \in 1..n : longer[i] = recs[i]
  OBVIOUS
<1>2. Written(longer) = Written(recs) \cup DOMAIN r
  <2>1. \A c : c \in Written(longer) <=> \E i \in DOMAIN longer : c \in DOMAIN longer[i]
    BY DEF Written
  <2>2. \A c : c \in Written(recs) <=> \E i \in DOMAIN recs : c \in DOMAIN recs[i]
    BY DEF Written
  <2>3. \A c : c \in Written(longer) <=> c \in Written(recs) \/ c \in DOMAIN r
    BY <1>1, <2>1, <2>2
  <2> QED
    BY <2>3
<1>3. ASSUME NEW c \in DOMAIN r
      PROVE  longer[LastWriter(longer, c)][c] = r[c]
  <2>1. /\ n + 1 \in Writers(longer, c) /\ Writers(longer, c) \in SUBSET Nat
        /\ \A j \in Writers(longer, c) : j <= n + 1
    BY <1>1 DEF Writers
  <2> QED
    BY <1>1, <2>1, MaxUnique DEF LastWriter
<1>4. ASSUME NEW c \in Written(recs), c \notin DOMAIN r
      PROVE  longer[LastWriter(longer, c)][c] = recs[LastWriter(recs, c)][c]
  <2>1. Writers(longer, c) = Writers(recs, c)
    BY <1>1, <1>4 DEF Writers
  <2>2. LastWriter(longer, c) = LastWriter(recs, c)
    BY <2>1 DEF LastWriter
  <2>3. Writers(recs, c) # {}
    BY <1>4 DEF Writers, Written
  <2>4. LastWriter(recs, c) \in 1..n
    BY <1>1, <2>3, LastWriterIsWriter
  <2> QED
    BY <1>1, <2>2, <2>4
<1>5. DOMAIN Replay(recs) = Written(recs)
  BY DEF Replay
<1>6. \A c \in Written(recs) : Replay(recs)[c] = recs[LastWriter(recs, c)][c]
  BY DEF Replay
<1>7. \A c \in Written(recs) \cup DOMAIN r :
         longer[LastWriter(longer, c)][c]
           = IF c \in DOMAIN r THEN r[c] ELSE Replay(recs)[c]
  BY <1>3, <1>4, <1>6
<1> HIDE DEF longer
<1>8. Replay(longer) = [c \in Written(recs) \cup DOMAIN r |->
                          IF c \in DOMAIN r THEN r[c] ELSE Replay(recs)[c]]
  BY <1>2, <1>7 DEF Replay
<1> QED
  BY <1>5, <1>8 DEF ApplyRecord, longer

-----------------------------------------------------------------------------
(* What a record overwrites, by the kind of its cells. *)

LEMMA CellsDiffer ==
    ASSUME NEW f, NEW k, NEW p
    PROVE  /\ HeaderCell \notin {SchemaCell, RegistryCell(p), FactCell(f), IdemCell(k), EmbeddingCell(f)}
           /\ SchemaCell \notin {RegistryCell(p), FactCell(f), IdemCell(k), EmbeddingCell(f)}
           /\ RegistryCell(p) \notin {FactCell(f), IdemCell(k), EmbeddingCell(f)}
           /\ FactCell(f) \notin {IdemCell(k), EmbeddingCell(k)}
           /\ IdemCell(k) # EmbeddingCell(f)
           /\ FactCell(f) = FactCell(k) => f = k
           /\ EmbeddingCell(f) = EmbeddingCell(k) => f = k
           /\ IdemCell(f) = IdemCell(k) => f = k
           /\ RegistryCell(f) = RegistryCell(k) => f = k
  BY DEF HeaderCell, SchemaCell, RegistryCell, FactCell, IdemCell, EmbeddingCell

(* The cells of a state, or of a record, hold what their kind says; a key *)
(* and an embedding come with the fact they belong to.                    *)
WellFormed(s) ==
    /\ s = [c \in DOMAIN s |-> s[c]] /\ DOMAIN s \subseteq Cell
    /\ HeaderCell \in DOMAIN s => s[HeaderCell] = Magic
    /\ SchemaCell \in DOMAIN s => s[SchemaCell] = SchemaVersion
    /\ \A p \in RegistryKeys : RegistryCell(p) \in DOMAIN s => s[RegistryCell(p)] \in RegistryValues
    /\ \A f \in FactIds : FactCell(f) \in DOMAIN s => s[FactCell(f)] \in Row
    /\ \A k \in IdemKeys : IdemCell(k) \in DOMAIN s =>
          s[IdemCell(k)] \in FactIds /\ FactCell(s[IdemCell(k)]) \in DOMAIN s
    /\ \A f \in FactIds : EmbeddingCell(f) \in DOMAIN s =>
          s[EmbeddingCell(f)] \in Dims /\ FactCell(f) \in DOMAIN s

LEMMA RecordWellFormed == ASSUME NEW r \in Record PROVE WellFormed(r)
<1>1. ASSUME r = HeaderRecord(Magic) PROVE WellFormed(r)
  BY <1>1, CellsDiffer DEF WellFormed, HeaderRecord, Write, Cell
<1>2. ASSUME r = SchemaRecord(SchemaVersion) PROVE WellFormed(r)
  BY <1>2, CellsDiffer DEF WellFormed, SchemaRecord, Write, Cell
<1>3. ASSUME NEW p \in RegistryKeys, NEW e \in RegistryValues, r = RegistryRecord(p, e)
      PROVE WellFormed(r)
  BY <1>3, CellsDiffer DEF WellFormed, RegistryRecord, Write, Cell
<1>4. ASSUME NEW f \in FactIds, NEW row \in Row, r = FactRecord(f, row)
      PROVE WellFormed(r)
  BY <1>4, CellsDiffer DEF WellFormed, FactRecord, Write, Cell
<1>5. ASSUME NEW f \in FactIds, NEW row \in Row, NEW k \in IdemKeys,
             r = FactIdemRecord(f, row, k)
      PROVE WellFormed(r)
  BY <1>5, CellsDiffer DEF WellFormed, FactIdemRecord, FactRecord, ApplyRecord, Write, Cell
<1>6. ASSUME NEW f \in FactIds, NEW row \in Row, NEW d \in Dims,
             r = FactEmbeddingRecord(f, row, d)
      PROVE WellFormed(r)
  BY <1>6, CellsDiffer DEF WellFormed, FactEmbeddingRecord, FactRecord, ApplyRecord, Write, Cell
<1> QED
  BY <1>1, <1>2, <1>3, <1>4, <1>5, <1>6 DEF Record

-----------------------------------------------------------------------------
(* What a replay gives back. *)

LEMMA ReplayCells ==
    ASSUME NEW R, NEW recs \in Seq(R)
    PROVE  /\ Replay(recs) = [c \in DOMAIN Replay(recs) |-> Replay(recs)[c]]
           /\ \A c : c \in DOMAIN Replay(recs) <=> \E i \in DOMAIN recs : c \in DOMAIN recs[i]
           /\ \A c \in DOMAIN Replay(recs) :
                 \E i \in DOMAIN recs : c \in DOMAIN recs[i] /\ Replay(recs)[c] = recs[i][c]
<1>1. DOMAIN recs = 1..Len(recs) /\ Len(recs) \in Nat
  OBVIOUS
<1>2. DOMAIN Replay(recs) = Written(recs)
  BY DEF Replay
<1>3. \A c : c \in Written(recs) <=> \E i \in DOMAIN recs : c \in DOMAIN recs[i]
  BY DEF Written
<1>4. Replay(recs) = [c \in DOMAIN Replay(recs) |-> Replay(recs)[c]]
  BY DEF Replay
<1>5. ASSUME NEW c \in Written(recs)
      PROVE  \E i \in DOMAIN recs : c \in DOMAIN recs[i] /\ Replay(recs)[c] = recs[i][c]
  <2>1. Writers(recs, c) # {}
    BY <1>3 DEF Writers
  <2>2. /\ LastWriter(recs, c) \in DOMAIN recs
        /\ c \in DOMAIN recs[LastWriter(recs, c)]
    BY <1>1, <2>1, LastWriterIsWriter
  <2>3. Replay(recs)[c] = recs[LastWriter(recs, c)][c]
    BY DEF Replay
  <2> QED
    BY <2>2, <2>3
<1> QED
  BY <1>2, <1>3, <1>4, <1>5

(* Records that all agree with a state, and together write all of it, *)
(* replay to it in any order and with any repetition.                 *)
LEMMA ReplayAgrees ==
    ASSUME NEW R, NEW recs \in Seq(R), NEW s, s = [c \in DOMAIN s |-> s[c]],
           \A i \in DOMAIN recs : \A c \in DOMAIN recs[i] : c \in DOMAIN s /\ recs[i][c] = s[c],
           \A c \in DOMAIN s : \E i \in DOMAIN recs : c \in DOMAIN recs[i]
    PROVE  Replay(recs) = s
<1> DEFINE t == Replay(recs)
<1> HIDE DEF t
<1>1. /\ t = [c \in DOMAIN t |-> t[c]]
      /\ \A c : c \in DOMAIN t <=> \E i \in DOMAIN recs : c \in DOMAIN recs[i]
      /\ \A c \in DOMAIN t : \E i \in DOMAIN recs : c \in DOMAIN recs[i] /\ t[c] = recs[i][c]
  BY ReplayCells DEF t
<1>2. DOMAIN t = DOMAIN s
  BY <1>1
<1>3. \A c \in DOMAIN s : t[c] = s[c]
  BY <1>1, <1>2
<1>4. t = s
  BY <1>1, <1>2, <1>3
<1> QED
  BY <1>4 DEF t

(* Whatever records were appended, the state they build is well formed. *)
LEMMA ReplayWellFormed == ASSUME NEW recs \in Seq(Record) PROVE WellFormed(Replay(recs))
<1> DEFINE t == Replay(recs)
<1> HIDE DEF t
<1>1. /\ t = [c \in DOMAIN t |-> t[c]]
      /\ \A c : c \in DOMAIN t <=> \E i \in DOMAIN recs : c \in DOMAIN recs[i]
      /\ \A c \in DOMAIN t : \E i \in DOMAIN recs : c \in DOMAIN recs[i] /\ t[c] = recs[i][c]
  BY ReplayCells DEF t
<1>2. \A i \in DOMAIN recs : WellFormed(recs[i])
  BY RecordWellFormed
<1>3. DOMAIN t \subseteq Cell
  BY <1>1, <1>2 DEF WellFormed
<1>4. HeaderCell \in DOMAIN t => t[HeaderCell] = Magic
  BY <1>1, <1>2 DEF WellFormed
<1>5. SchemaCell \in DOMAIN t => t[SchemaCell] = SchemaVersion
  BY <1>1, <1>2 DEF WellFormed
<1>6. \A p \in RegistryKeys : RegistryCell(p) \in DOMAIN t => t[RegistryCell(p)] \in RegistryValues
  BY <1>1, <1>2 DEF WellFormed
<1>7. \A f \in FactIds : FactCell(f) \in DOMAIN t => t[FactCell(f)] \in Row
  BY <1>1, <1>2 DEF WellFormed
<1>8. ASSUME NEW k \in IdemKeys, IdemCell(k) \in DOMAIN t
      PROVE  t[IdemCell(k)] \in FactIds /\ FactCell(t[IdemCell(k)]) \in DOMAIN t
  <2>1. PICK i \in DOMAIN recs : IdemCell(k) \in DOMAIN recs[i] /\ t[IdemCell(k)] = recs[i][IdemCell(k)]
    BY <1>1, <1>8
  <2>2. recs[i][IdemCell(k)] \in FactIds /\ FactCell(recs[i][IdemCell(k)]) \in DOMAIN recs[i]
    BY <1>2, <2>1 DEF WellFormed
  <2> QED
    BY <1>1, <2>1, <2>2
<1>9. ASSUME NEW f \in FactIds, EmbeddingCell(f) \in DOMAIN t
      PROVE  t[EmbeddingCell(f)] \in Dims /\ FactCell(f) \in DOMAIN t
  <2>1. PICK i \in DOMAIN recs :
           EmbeddingCell(f) \in DOMAIN recs[i] /\ t[EmbeddingCell(f)] = recs[i][EmbeddingCell(f)]
    BY <1>1, <1>9
  <2>2. recs[i][EmbeddingCell(f)] \in Dims /\ FactCell(f) \in DOMAIN recs[i]
    BY <1>2, <2>1 DEF WellFormed
  <2> QED
    BY <1>1, <2>1, <2>2
<1>10. WellFormed(t)
  BY <1>1, <1>3, <1>4, <1>5, <1>6, <1>7, <1>8, <1>9 DEF WellFormed
<1> QED
  BY <1>10 DEF t

LEMMA WellFormedIsState ==
    ASSUME NEW s, WellFormed(s)
    PROVE  IsState(s) /\ Compactable(s)
  BY DEF WellFormed, IsState, Compactable, StoredKeys, StoredFacts

LEMMA SeqNarrow ==
    ASSUME NEW R, NEW T, NEW s \in Seq(R), \A i \in DOMAIN s : s[i] \in T
    PROVE  s \in Seq(T)
<1>1. Len(s) \in Nat /\ DOMAIN s = 1..Len(s) /\ s = [i \in 1..Len(s) |-> s[i]]
  OBVIOUS
<1>2. s \in [1..Len(s) -> T]
  BY <1>1
<1> QED
  BY <1>1, <1>2

LEMMA LoadResult ==
    ASSUME NEW x, NEW r, NEW s, x = [result |-> r, state |-> s]
    PROVE  x.result = r /\ x.state = s
  OBVIOUS

LEMMA LoadIsRecord ==
    ASSUME NEW ls, NEW t
    PROVE  Load(ls, t) = [result |-> Load(ls, t).result, state |-> Load(ls, t).state]
  BY DEF Load

(* An open reads back the state of some of the records, or none. *)
LEMMA LoadReplays ==
    ASSUME NEW ls \in Seq(Record \cup {Junk}), NEW t \in Record \cup {Junk, NoTail},
           Junk \notin Record
    PROVE  \E recs \in Seq(Record) : Load(ls, t).state = Replay(recs)
<1> DEFINE segments == IF t = NoTail THEN ls ELSE Append(ls, t)
           Bad == {i \in DOMAIN segments : Verdict(segments, t # NoTail, i) # "fine"}
           first == CHOOSE i \in Bad : \A j \in Bad : i <= j
           problem == Verdict(segments, t # NoTail, first)
<1>1. segments \in Seq(Record \cup {Junk})
  OBVIOUS
<1>2. Load(ls, t) =
        IF Bad = {} THEN [result |-> "ok", state |-> Replay(segments)]
        ELSE IF problem = "torn tail" THEN [result |-> "ok", state |-> Replay(ls)]
        ELSE [result |-> problem, state |-> EmptyState]
  BY DEF Load
<1>a. /\ Bad = {} => Load(ls, t).state = Replay(segments)
      /\ Bad # {} /\ problem = "torn tail" => Load(ls, t).state = Replay(ls)
      /\ Bad # {} /\ problem # "torn tail" => Load(ls, t).state = EmptyState
  <2> HIDE DEF Bad, problem, segments
  <2>1. /\ Bad = {} => Load(ls, t) = [result |-> "ok", state |-> Replay(segments)]
        /\ Bad # {} /\ problem = "torn tail" =>
              Load(ls, t) = [result |-> "ok", state |-> Replay(ls)]
        /\ Bad # {} /\ problem # "torn tail" =>
              Load(ls, t) = [result |-> problem, state |-> EmptyState]
    BY <1>2, Zenon
  <2> QED
    BY <2>1, LoadResult, Zenon
<1>3. ASSUME NEW i \in DOMAIN segments, segments[i] = Junk PROVE i \in Bad
  BY <1>3 DEF Verdict
<1>4. CASE Bad = {}
  <2>1. \A i \in DOMAIN segments : segments[i] \in Record
    BY <1>1, <1>3, <1>4
  <2>2. segments \in Seq(Record)
    <3> HIDE DEF segments
    <3> QED
      BY <1>1, <2>1, SeqNarrow
  <2>3. Load(ls, t).state = Replay(segments)
    BY <1>a, <1>4
  <2> HIDE DEF segments, Bad
  <2> QED
    BY <2>2, <2>3
<1>5. CASE Bad # {} /\ problem = "torn tail"
  <2>1. Bad \in SUBSET Nat
    BY <1>1
  <2>2. PICK b \in Bad : \A j \in Bad : b <= j
    BY <1>5, <2>1, MinExists
  <2>3. first \in Bad /\ \A j \in Bad : first <= j
    BY <2>2
  <2>4. first = Len(segments) /\ t # NoTail
    BY <1>5 DEF Verdict
  <2>5. ASSUME NEW i \in DOMAIN ls PROVE ls[i] \in Record
    <3>1. i \in DOMAIN segments /\ segments[i] = ls[i] /\ i < Len(segments)
      BY <2>4
    <3>2. i \notin Bad
      BY <2>1, <2>3, <2>4, <3>1
    <3> QED
      BY <1>3, <3>1, <3>2
  <2>6. ls \in Seq(Record)
    BY <2>5, SeqNarrow
  <2>7. Load(ls, t).state = Replay(ls)
    BY <1>a, <1>5
  <2> QED
    BY <2>6, <2>7
<1>6. CASE Bad # {} /\ problem # "torn tail"
  <2>1. << >> \in Seq(Record) /\ DOMAIN << >> = {}
    OBVIOUS
  <2>2. Replay(<< >>) = EmptyState
    BY DEF Replay, Written, EmptyState
  <2>3. Load(ls, t).state = EmptyState
    BY <1>a, <1>6
  <2> QED
    BY <2>1, <2>2, <2>3
<1> QED
  BY <1>4, <1>5, <1>6

-----------------------------------------------------------------------------
(* What an open accepts.  A file loads exactly when its complete lines are   *)
(* records, the first of them the header, and what stands behind the last    *)
(* newline is nothing, one more record, or an interrupted append.            *)

Segment == Record \cup {Junk}

Sound(segments) ==
    /\ segments \in Seq(Record)
    /\ segments # <<>> => segments[1] \in {HeaderRecord(Magic), UnknownRecord}

Segments(ls, t) == IF t = NoTail THEN ls ELSE Append(ls, t)

BadSegments(ls, t) ==
    {i \in DOMAIN Segments(ls, t) : Verdict(Segments(ls, t), t # NoTail, i) # "fine"}

LEMMA LoadFine ==
    ASSUME NEW ls, NEW t, BadSegments(ls, t) = {}
    PROVE  Load(ls, t) = [result |-> "ok", state |-> Replay(Segments(ls, t))]
<1>1. {i \in DOMAIN Segments(ls, t) : Verdict(Segments(ls, t), t # NoTail, i) # "fine"} = {}
  BY DEF BadSegments
<1> QED
  BY <1>1, Zenon DEF Load, Segments

LEMMA LoadProblem ==
    ASSUME NEW ls, NEW t, BadSegments(ls, t) # {},
           BadSegments(ls, t) \in SUBSET Nat
    PROVE  \E i \in BadSegments(ls, t) :
             /\ \A j \in BadSegments(ls, t) : i <= j
             /\ Load(ls, t) =
                  IF Verdict(Segments(ls, t), t # NoTail, i) = "torn tail"
                    THEN [result |-> "ok", state |-> Replay(ls)]
                    ELSE [result |-> Verdict(Segments(ls, t), t # NoTail, i),
                          state |-> EmptyState]
<1> DEFINE Bad == BadSegments(ls, t)
           first == CHOOSE i \in Bad : \A j \in Bad : i <= j
<1>1. \E i \in Bad : \A j \in Bad : i <= j
  BY MinExists
<1>2. first \in Bad /\ \A j \in Bad : first <= j
  BY <1>1
<1>3. Load(ls, t) =
        IF Verdict(Segments(ls, t), t # NoTail, first) = "torn tail"
          THEN [result |-> "ok", state |-> Replay(ls)]
          ELSE [result |-> Verdict(Segments(ls, t), t # NoTail, first),
                state |-> EmptyState]
  BY Zenon DEF Load, Segments, BadSegments
<1> QED
  BY <1>2, <1>3

LEMMA SoundIsFine ==
    ASSUME Junk \notin Record, NEW segments, Sound(segments), NEW i \in DOMAIN segments,
           NEW unterminated
    PROVE  Verdict(segments, unterminated, i) = "fine"
<1>1. segments[i] \in Record /\ segments[i] # Junk
  BY DEF Sound
<1>2. i = 1 => segments[i] \in {HeaderRecord(Magic), UnknownRecord}
  BY DEF Sound
<1>3. ~(SchemaCell \in DOMAIN segments[i] /\ segments[i][SchemaCell] # SchemaVersion)
  BY <1>1, RecordWellFormed DEF WellFormed
<1> QED
  BY <1>1, <1>2, <1>3, Zenon DEF Verdict

(* All segments fine: they are sound. *)
LEMMA FineIsSound ==
    ASSUME NEW ls \in Seq(Segment), NEW t \in Segment \cup {NoTail},
           BadSegments(ls, t) = {}
    PROVE  Sound(Segments(ls, t))
<1> DEFINE segments == Segments(ls, t)
<1>1. segments \in Seq(Segment)
  BY DEF Segments
<1>2. \A i \in DOMAIN segments : Verdict(segments, t # NoTail, i) = "fine"
  BY DEF BadSegments
<1> HIDE DEF segments
<1>3. \A i \in DOMAIN segments : segments[i] # Junk
  BY <1>2 DEF Verdict
<1>4. segments \in Seq(Record)
  BY <1>1, <1>3, SeqNarrow DEF Segment
<1>5. ASSUME segments # <<>> PROVE segments[1] \in {HeaderRecord(Magic), UnknownRecord}
  <2>1. 1 \in DOMAIN segments
    BY <1>1, <1>5
  <2>2. Verdict(segments, t # NoTail, 1) = "fine" /\ segments[1] # Junk
    BY <1>2, <1>3, <2>1
  <2> QED
    BY <2>2 DEF Verdict
<1>6. Sound(segments)
  BY <1>4, <1>5 DEF Sound
<1> QED
  BY <1>6 DEF segments

LEMMA LoadSound ==
    ASSUME Junk \notin Record, NEW ls, NEW t, Sound(Segments(ls, t))
    PROVE  Load(ls, t) = [result |-> "ok", state |-> Replay(Segments(ls, t))]
<1>1. BadSegments(ls, t) = {}
  BY SoundIsFine DEF BadSegments
<1> QED
  BY <1>1, LoadFine

(* An interrupted append at the end of a sound file is left out. *)
LEMMA LoadTorn ==
    ASSUME Junk \notin Record, Junk # NoTail, NEW ls, Sound(ls), ls # <<>>
    PROVE  Load(ls, Junk) = [result |-> "ok", state |-> Replay(ls)]
<1> DEFINE n == Len(ls)
           segments == Segments(ls, Junk)
<1>1. /\ ls \in Seq(Record) /\ n \in Nat /\ n > 0 /\ DOMAIN ls = 1..n
      /\ segments = Append(ls, Junk)
  BY DEF Sound, Segments
<1>2. /\ DOMAIN segments = 1..(n + 1) /\ Len(segments) = n + 1
      /\ segments[n + 1] = Junk /\ \A i \in 1..n : segments[i] = ls[i]
  BY <1>1
<1>3. ASSUME NEW i \in 1..n PROVE Verdict(segments, TRUE, i) = "fine"
  <2>1. Verdict(ls, TRUE, i) = "fine"
    BY <1>1, SoundIsFine
  <2>2. segments[i] = ls[i] /\ ls[i] # Junk
    BY <1>1, <1>2
  <2> HIDE DEF segments, n
  <2> QED
    BY <2>1, <2>2, Zenon DEF Verdict
<1>4. Verdict(segments, TRUE, n + 1) = "torn tail"
  <2>1. n + 1 # 1
    BY <1>1
  <2> HIDE DEF segments, n
  <2> QED
    BY <1>2, <2>1, Zenon DEF Verdict
<1>5. BadSegments(ls, Junk) = {n + 1}
  <2> HIDE DEF n
  <2>1. \A i \in DOMAIN segments : Verdict(segments, TRUE, i) # "fine" <=> i = n + 1
    <3> SUFFICES ASSUME NEW i \in DOMAIN segments
                 PROVE  Verdict(segments, TRUE, i) # "fine" <=> i = n + 1
      OBVIOUS
    <3>1. i \in 1..n \/ i = n + 1
      BY <1>1, <1>2
    <3>2. n + 1 \notin 1..n
      BY <1>1
    <3>3. CASE i \in 1..n
      BY <1>3, <3>2, <3>3
    <3>4. CASE i = n + 1
      BY <1>4, <3>4
    <3> QED
      BY <3>1, <3>3, <3>4
  <2>2. n + 1 \in DOMAIN segments
    BY <1>1, <1>2
  <2>3. BadSegments(ls, Junk) = {i \in DOMAIN segments : Verdict(segments, TRUE, i) # "fine"}
    BY DEF BadSegments
  <2> HIDE DEF segments
  <2> QED
    BY <2>1, <2>2, <2>3
<1>6. BadSegments(ls, Junk) # {} /\ BadSegments(ls, Junk) \in SUBSET Nat
  BY <1>1, <1>5
<1>7. PICK i \in BadSegments(ls, Junk) :
        Load(ls, Junk) =
          IF Verdict(segments, Junk # NoTail, i) = "torn tail"
            THEN [result |-> "ok", state |-> Replay(ls)]
            ELSE [result |-> Verdict(segments, Junk # NoTail, i), state |-> EmptyState]
  BY <1>6, LoadProblem
<1>8. i = n + 1 /\ (Junk # NoTail) = TRUE
  BY <1>5, <1>7
<1>9. Verdict(segments, Junk # NoTail, i) = "torn tail"
  BY <1>4, <1>8
<1> HIDE DEF segments
<1> QED
  BY <1>7, <1>9

(* The other way around: the files that load, and as what. *)
LEMMA LoadOk ==
    ASSUME Junk \notin Record, NoTail \notin Record \cup {Junk},
           NEW ls \in Seq(Segment), NEW t \in Segment \cup {NoTail},
           Load(ls, t).result = "ok"
    PROVE  \/ Sound(Segments(ls, t)) /\ t # Junk /\ Load(ls, t).state = Replay(Segments(ls, t))
           \/ Sound(ls) /\ ls # <<>> /\ t = Junk /\ Load(ls, t).state = Replay(ls)
<1> DEFINE segments == Segments(ls, t)
           Bad == BadSegments(ls, t)
<1>1. segments \in Seq(Segment) /\ Bad \in SUBSET Nat
  BY DEF Segments, BadSegments
<1>2. CASE Bad = {}
  <2>1. Sound(segments) /\ Load(ls, t) = [result |-> "ok", state |-> Replay(segments)]
    BY <1>2, FineIsSound, LoadFine
  <2>2. t # Junk
    <3> SUFFICES ASSUME t = Junk PROVE FALSE
      OBVIOUS
    <3>1. segments = Append(ls, Junk)
      BY DEF Segments
    <3>2. Len(segments) \in DOMAIN segments /\ segments[Len(segments)] = Junk
      BY <3>1
    <3> HIDE DEF segments
    <3> QED
      BY <2>1, <3>2 DEF Sound
  <2>3. Load(ls, t).state = Replay(segments)
    BY <2>1, LoadResult, Zenon
  <2> QED
    BY <2>1, <2>2, <2>3
<1>3. CASE Bad # {}
  <2>1. PICK i \in Bad :
          /\ \A j \in Bad : i <= j
          /\ Load(ls, t) = IF Verdict(segments, t # NoTail, i) = "torn tail"
                             THEN [result |-> "ok", state |-> Replay(ls)]
                             ELSE [result |-> Verdict(segments, t # NoTail, i),
                                   state |-> EmptyState]
    BY <1>1, <1>3, LoadProblem
  <2> HIDE DEF segments, Bad
  <2>2. Verdict(segments, t # NoTail, i) # "ok"
    BY DEF Verdict
  <2>3. Verdict(segments, t # NoTail, i) = "torn tail"
    <3>1. Verdict(segments, t # NoTail, i) # "torn tail" =>
            Load(ls, t) = [result |-> Verdict(segments, t # NoTail, i), state |-> EmptyState]
      BY <2>1, Zenon
    <3>2. Verdict(segments, t # NoTail, i) # "torn tail" =>
            Load(ls, t).result = Verdict(segments, t # NoTail, i)
      BY <3>1, LoadResult, Zenon
    <3> QED
      BY <2>2, <3>2
  <2>4. Load(ls, t) = [result |-> "ok", state |-> Replay(ls)]
    BY <2>1, <2>3, Zenon
  <2>5. segments[i] = Junk /\ i # 1 /\ i = Len(segments) /\ t # NoTail
    BY <2>3 DEF Verdict
  <2>6. segments = Append(ls, t) /\ Len(segments) = Len(ls) + 1 /\ DOMAIN ls = 1..Len(ls)
    BY <2>5 DEF segments, Segments
  <2>7. t = Junk
    BY <2>5, <2>6
  <2>8. ls # <<>>
    BY <2>5, <2>6
  <2>9. ASSUME NEW j \in DOMAIN ls PROVE ls[j] = segments[j] /\ Verdict(segments, TRUE, j) = "fine"
    <3>1. j \in DOMAIN segments /\ j < i /\ ls[j] = segments[j]
      BY <2>5, <2>6
    <3>2. i \in Nat /\ j \in Nat
      BY <1>1, <2>6
    <3>3. ~(i <= j)
      BY <3>1, <3>2
    <3>4. j \notin Bad
      BY <2>1, <3>3
    <3> QED
      BY <2>5, <3>1, <3>4 DEF Bad, BadSegments, segments
  <2>10. \A j \in DOMAIN ls : ls[j] # Junk
    <3> SUFFICES ASSUME NEW j \in DOMAIN ls, ls[j] = Junk PROVE FALSE
      OBVIOUS
    <3>1. segments[j] = Junk /\ Verdict(segments, TRUE, j) = "fine"
      BY <2>9
    <3> QED
      BY <3>1 DEF Verdict
  <2>11. ls \in Seq(Record)
    BY <2>10, SeqNarrow DEF Segment
  <2>12. ls[1] \in {HeaderRecord(Magic), UnknownRecord}
    <3>1. 1 \in DOMAIN ls
      BY <2>8
    <3>2. ls[1] = segments[1] /\ ls[1] # Junk /\ Verdict(segments, TRUE, 1) = "fine"
      BY <2>9, <2>10, <3>1
    <3> QED
      BY <3>2 DEF Verdict
  <2>13. Sound(ls)
    BY <2>11, <2>12 DEF Sound
  <2>14. Load(ls, t).state = Replay(ls)
    BY <2>4, LoadResult, Zenon
  <2> QED
    BY <2>7, <2>8, <2>13, <2>14
<1> QED
  BY <1>2, <1>3

LEMMA ReplayNone == Replay(<<>>) = EmptyState /\ DOMAIN EmptyState = {}
<1>1. DOMAIN (<<>>) = {}
  OBVIOUS
<1>2. Written(<<>>) = {}
  BY <1>1 DEF Written
<1> QED
  BY <1>2 DEF Replay, EmptyState

(* A file without an unterminated tail loads as the replay of its lines. *)
LEMMA LoadsLines ==
    ASSUME Junk \notin Record, NoTail \notin Record \cup {Junk},
           NEW ls \in Seq(Segment), NEW s
    PROVE  Loads(ls, NoTail, s) <=> Sound(ls) /\ s = Replay(ls)
<1>1. Segments(ls, NoTail) = ls
  BY DEF Segments
<1>2. ASSUME Loads(ls, NoTail, s) PROVE Sound(ls) /\ s = Replay(ls)
  <2>1. Load(ls, NoTail).result = "ok" /\ Load(ls, NoTail).state = s
    BY <1>2, LoadResult, Zenon DEF Loads
  <2> QED
    BY <1>1, <2>1, LoadOk
<1>3. ASSUME Sound(ls), s = Replay(ls) PROVE Loads(ls, NoTail, s)
  BY <1>1, <1>3, LoadSound DEF Loads
<1> QED
  BY <1>2, <1>3

(* An interrupted append does not change what a file loads as. *)
LEMMA LoadsTorn ==
    ASSUME Junk \notin Record, NoTail \notin Record \cup {Junk},
           NEW ls \in Seq(Segment), NEW s
    PROVE  Loads(ls, Junk, s) <=> Loads(ls, NoTail, s) /\ ls # <<>>
<1>1. ASSUME Loads(ls, Junk, s) PROVE Loads(ls, NoTail, s) /\ ls # <<>>
  <2>1. Load(ls, Junk).result = "ok" /\ Load(ls, Junk).state = s
    BY <1>1, LoadResult, Zenon DEF Loads
  <2>2. Junk \in Segment
    BY DEF Segment
  <2> QED
    BY <2>1, <2>2, LoadOk, LoadsLines
<1>2. ASSUME Loads(ls, NoTail, s), ls # <<>> PROVE Loads(ls, Junk, s)
  BY <1>2, LoadsLines, LoadTorn DEF Loads
<1> QED
  BY <1>1, <1>2

(* One more record, whether or not its newline is there, loads as the state *)
(* with the record applied.  Only a header can be the first.                *)
LEMMA LoadsGrow ==
    ASSUME Junk \notin Record, NoTail \notin Record \cup {Junk},
           NEW ls \in Seq(Segment), NEW s, Loads(ls, NoTail, s), NEW r \in Record,
           HeaderCell \notin DOMAIN s => r = HeaderRecord(Magic)
    PROVE  /\ Loads(Append(ls, r), NoTail, ApplyRecord(s, r))
           /\ Loads(ls, r, ApplyRecord(s, r))
<1> DEFINE longer == Append(ls, r)
<1>1. Sound(ls) /\ ls \in Seq(Record) /\ s = Replay(ls)
  BY LoadsLines DEF Sound
<1>2. longer \in Seq(Record) /\ Replay(longer) = ApplyRecord(s, r)
  BY <1>1, ReplayAppend
<1>3. longer[1] \in {HeaderRecord(Magic), UnknownRecord}
  <2>1. CASE ls = <<>>
    <3>1. HeaderCell \notin DOMAIN s
      BY <1>1, <2>1, ReplayNone
    <3> QED
      BY <2>1, <3>1
  <2>2. CASE ls # <<>>
    <3>1. longer[1] = ls[1]
      BY <1>1, <2>2
    <3> QED
      BY <1>1, <2>2, <3>1 DEF Sound
  <2> QED
    BY <2>1, <2>2
<1>4. Sound(longer)
  BY <1>2, <1>3 DEF Sound
<1>5. Segments(longer, NoTail) = longer /\ Segments(ls, r) = longer
  BY DEF Segments
<1> QED
  BY <1>2, <1>4, <1>5, LoadSound DEF Loads

LEMMA LoadsNothing ==
    ASSUME Junk \notin Record, NoTail \notin Record \cup {Junk},
           NEW s, Loads(<<>>, NoTail, s)
    PROVE  DOMAIN s = {}
<1>1. <<>> \in Seq(Segment) /\ <<>> \in Seq(Record)
  OBVIOUS
<1>2. s = Replay(<<>>)
  BY <1>1, LoadsLines
<1> QED
  BY <1>2, ReplayNone

-----------------------------------------------------------------------------
(* Compaction writes what it found. *)

Elements(q) == {q[i] : i \in DOMAIN q}

LEMMA SetToSeqEnumerates ==
    ASSUME NEW S, IsFiniteSet(S)
    PROVE  SetToSeq(S) \in Seq(S) /\ Elements(SetToSeq(S)) = S
<1> DEFINE n == Cardinality(S)
<1>1. n \in Nat /\ ExistsBijection(1..n, S)
  BY FS_CardinalityType
<1>2. PICK g : g \in Bijection(1..n, S)
  BY <1>1 DEF ExistsBijection
<1>3. g \in [1..n -> S] /\ IsInjective(g)
  BY <1>2 DEF Bijection, Injection
<1>4. SetToSeq(S) \in [1..n -> S] /\ IsInjective(SetToSeq(S))
  BY <1>3 DEF SetToSeq
<1>5. SetToSeq(S) \in Seq(S)
  BY <1>1, <1>4
<1>6. SetToSeq(S) \in Injection(1..n, S)
  BY <1>4 DEF Injection
<1>7. SetToSeq(S) \in Surjection(1..n, S)
  <2>1. Cardinality(1..n) = n
    BY <1>1, FS_Interval
  <2>2. Cardinality(1..n) = Cardinality(S) <=> SetToSeq(S) \in Surjection(1..n, S)
    BY <1>6, FS_Injection
  <2> QED
    BY <2>1, <2>2
<1> QED
  BY <1>4, <1>5, <1>7 DEF Surjection, Elements

LEMMA ConcatElements ==
    ASSUME NEW R, NEW a \in Seq(R), NEW b \in Seq(R)
    PROVE  a \o b \in Seq(R) /\ Elements(a \o b) = Elements(a) \cup Elements(b)
<1>1. /\ a \o b \in Seq(R) /\ Len(a) \in Nat /\ Len(b) \in Nat
      /\ Len(a \o b) = Len(a) + Len(b)
      /\ \A i \in 1..Len(a) : (a \o b)[i] = a[i]
      /\ \A i \in 1..Len(b) : (a \o b)[Len(a) + i] = b[i]
  OBVIOUS
<1>2. DOMAIN a = 1..Len(a) /\ DOMAIN b = 1..Len(b) /\ DOMAIN (a \o b) = 1..(Len(a) + Len(b))
  BY <1>1
<1>3. ASSUME NEW x \in Elements(a \o b) PROVE x \in Elements(a) \cup Elements(b)
  <2>1. PICK i \in 1..(Len(a) + Len(b)) : x = (a \o b)[i]
    BY <1>2 DEF Elements
  <2>2. CASE i <= Len(a)
    BY <1>1, <1>2, <2>1, <2>2 DEF Elements
  <2>3. CASE i > Len(a)
    <3>1. i - Len(a) \in 1..Len(b) /\ i = Len(a) + (i - Len(a))
      BY <1>1, <2>1, <2>3
    <3>2. x = b[i - Len(a)]
      BY <1>1, <2>1, <3>1
    <3> QED
      BY <1>2, <3>1, <3>2 DEF Elements
  <2> QED
    BY <1>1, <2>1, <2>2, <2>3
<1>4. ASSUME NEW x \in Elements(a) PROVE x \in Elements(a \o b)
  <2>1. PICK i \in 1..Len(a) : x = a[i]
    BY <1>2 DEF Elements
  <2>2. i \in DOMAIN (a \o b) /\ x = (a \o b)[i]
    BY <1>1, <1>2, <2>1
  <2> QED
    BY <2>2 DEF Elements
<1>5. ASSUME NEW x \in Elements(b) PROVE x \in Elements(a \o b)
  <2>1. PICK i \in 1..Len(b) : x = b[i]
    BY <1>2 DEF Elements
  <2>2. Len(a) + i \in DOMAIN (a \o b) /\ x = (a \o b)[Len(a) + i]
    BY <1>1, <1>2, <2>1
  <2> QED
    BY <2>2 DEF Elements
<1> QED
  BY <1>1, <1>3, <1>4, <1>5

(* A record that says nothing a state does not. *)
PartOf(r, s) == r \in Record /\ \A c \in DOMAIN r : c \in DOMAIN s /\ r[c] = s[c]

LEMMA CompactedRecordsArePart ==
    ASSUME NEW s, WellFormed(s), HeaderCell \in DOMAIN s, SchemaCell \in DOMAIN s
    PROVE  /\ PartOf(HeaderRecord(Magic), s) /\ PartOf(SchemaRecord(SchemaVersion), s)
           /\ \A r \in RegistryRecords(s) \cup FactRecords(s) \cup KeyRecords(s) : PartOf(r, s)
<1>1. PartOf(HeaderRecord(Magic), s) /\ PartOf(SchemaRecord(SchemaVersion), s)
  BY DEF PartOf, Record, HeaderRecord, SchemaRecord, Write, WellFormed
<1>2. ASSUME NEW r \in RegistryRecords(s) PROVE PartOf(r, s)
  <2>1. PICK p \in RegistryKeys :
           RegistryCell(p) \in DOMAIN s /\ r = RegistryRecord(p, s[RegistryCell(p)])
    BY DEF RegistryRecords
  <2> QED
    BY <2>1 DEF PartOf, Record, RegistryRecord, Write, WellFormed
<1>3. ASSUME NEW r \in FactRecords(s) PROVE PartOf(r, s)
  <2>1. PICK f \in StoredFacts(s) :
           r = IF EmbeddingCell(f) \in DOMAIN s
                 THEN FactEmbeddingRecord(f, s[FactCell(f)], s[EmbeddingCell(f)])
                 ELSE FactRecord(f, s[FactCell(f)])
    BY DEF FactRecords
  <2>2. f \in FactIds /\ FactCell(f) \in DOMAIN s /\ s[FactCell(f)] \in Row
    BY DEF StoredFacts, WellFormed
  <2>3. CASE EmbeddingCell(f) \in DOMAIN s
    <3>1. s[EmbeddingCell(f)] \in Dims
      BY <2>2, <2>3 DEF WellFormed
    <3>2. r \in Record
      BY <2>1, <2>2, <2>3, <3>1 DEF Record
    <3>3. \A c \in DOMAIN r : c \in DOMAIN s /\ r[c] = s[c]
      BY <2>1, <2>2, <2>3 DEF FactEmbeddingRecord, FactRecord, ApplyRecord, Write
    <3> QED
      BY <3>2, <3>3 DEF PartOf
  <2>4. CASE EmbeddingCell(f) \notin DOMAIN s
    <3>1. r \in Record
      BY <2>1, <2>2, <2>4 DEF Record
    <3> QED
      BY <2>1, <2>2, <2>4, <3>1 DEF PartOf, FactRecord, Write
  <2> QED
    BY <2>3, <2>4
<1>4. ASSUME NEW r \in KeyRecords(s) PROVE PartOf(r, s)
  <2>1. PICK k \in StoredKeys(s) :
           r = FactIdemRecord(s[IdemCell(k)], s[FactCell(s[IdemCell(k)])], k)
    BY DEF KeyRecords
  <2>2. /\ k \in IdemKeys /\ IdemCell(k) \in DOMAIN s
        /\ s[IdemCell(k)] \in FactIds /\ FactCell(s[IdemCell(k)]) \in DOMAIN s
        /\ s[FactCell(s[IdemCell(k)])] \in Row
    BY DEF StoredKeys, WellFormed
  <2>3. r \in Record
    BY <2>1, <2>2 DEF Record
  <2>4. \A c \in DOMAIN r : c \in DOMAIN s /\ r[c] = s[c]
    BY <2>1, <2>2 DEF FactIdemRecord, FactRecord, ApplyRecord, Write
  <2> QED
    BY <2>3, <2>4 DEF PartOf
<1> QED
  BY <1>1, <1>2, <1>3, <1>4

LEMMA CompactedSetsFinite ==
    ASSUME NEW s
    PROVE  /\ IsFiniteSet(RegistryRecords(s)) /\ IsFiniteSet(FactRecords(s))
           /\ IsFiniteSet(KeyRecords(s))
<1>1. IsFiniteSet(RegistryRecords(s))
  <2> DEFINE D == {p \in RegistryKeys : RegistryCell(p) \in DOMAIN s}
             g == [p \in D |-> RegistryRecord(p, s[RegistryCell(p)])]
  <2>1. IsFiniteSet(D)
    BY FiniteAssumption, FS_Subset
  <2>2. g \in Surjection(D, RegistryRecords(s))
    BY DEF Surjection, RegistryRecords
  <2> QED
    BY <2>1, <2>2, FS_Surjection
<1>2. IsFiniteSet(FactRecords(s))
  <2> DEFINE g == [f \in StoredFacts(s) |->
                     IF EmbeddingCell(f) \in DOMAIN s
                       THEN FactEmbeddingRecord(f, s[FactCell(f)], s[EmbeddingCell(f)])
                       ELSE FactRecord(f, s[FactCell(f)])]
  <2>1. IsFiniteSet(StoredFacts(s))
    BY FiniteAssumption, FS_Subset DEF StoredFacts
  <2>2. g \in Surjection(StoredFacts(s), FactRecords(s))
    BY DEF Surjection, FactRecords
  <2> QED
    BY <2>1, <2>2, FS_Surjection
<1>3. IsFiniteSet(KeyRecords(s))
  <2> DEFINE g == [k \in StoredKeys(s) |->
                     FactIdemRecord(s[IdemCell(k)], s[FactCell(s[IdemCell(k)])], k)]
  <2>1. IsFiniteSet(StoredKeys(s))
    BY FiniteAssumption, FS_Subset DEF StoredKeys
  <2>2. g \in Surjection(StoredKeys(s), KeyRecords(s))
    BY DEF Surjection, KeyRecords
  <2> QED
    BY <2>1, <2>2, FS_Surjection
<1> QED
  BY <1>1, <1>2, <1>3

LEMMA CompactionElements ==
    ASSUME NEW s, WellFormed(s), HeaderCell \in DOMAIN s, SchemaCell \in DOMAIN s
    PROVE  /\ CompactionRecords(s) \in Seq(Record)
           /\ Elements(CompactionRecords(s)) =
                 {HeaderRecord(Magic), SchemaRecord(SchemaVersion)}
                 \cup RegistryRecords(s) \cup FactRecords(s) \cup KeyRecords(s)
<1> DEFINE A == SetToSeq(RegistryRecords(s))
           B == SetToSeq(FactRecords(s))
           C == SetToSeq(KeyRecords(s))
<1>1. /\ A \in Seq(RegistryRecords(s)) /\ Elements(A) = RegistryRecords(s)
      /\ B \in Seq(FactRecords(s)) /\ Elements(B) = FactRecords(s)
      /\ C \in Seq(KeyRecords(s)) /\ Elements(C) = KeyRecords(s)
  BY CompactedSetsFinite, SetToSeqEnumerates
<1>2. RegistryRecords(s) \subseteq Record /\ FactRecords(s) \subseteq Record /\ KeyRecords(s) \subseteq Record
  BY CompactedRecordsArePart DEF PartOf
<1> HIDE DEF A, B, C
<1>3. A \in Seq(Record) /\ B \in Seq(Record) /\ C \in Seq(Record)
  <2>1. /\ \A i \in DOMAIN A : A[i] \in Record
        /\ \A i \in DOMAIN B : B[i] \in Record
        /\ \A i \in DOMAIN C : C[i] \in Record
    BY <1>1, <1>2 DEF Elements
  <2> QED
    BY <1>1, <2>1, SeqNarrow
<1>4. /\ Preamble \in Seq(Record)
      /\ Elements(Preamble) = {HeaderRecord(Magic), SchemaRecord(SchemaVersion)}
  <2>1. HeaderRecord(Magic) \in Record /\ SchemaRecord(SchemaVersion) \in Record
    BY DEF Record
  <2> QED
    BY <2>1 DEF Preamble, Elements
<1> DEFINE P1 == Preamble \o A
           P2 == P1 \o B
           P3 == P2 \o C
<1>5. P1 \in Seq(Record) /\ Elements(P1) = Elements(Preamble) \cup Elements(A)
  BY <1>3, <1>4, ConcatElements
<1> HIDE DEF P1
<1>6. P2 \in Seq(Record) /\ Elements(P2) = Elements(P1) \cup Elements(B)
  BY <1>3, <1>5, ConcatElements
<1> HIDE DEF P2
<1>7. P3 \in Seq(Record) /\ Elements(P3) = Elements(P2) \cup Elements(C)
  BY <1>3, <1>6, ConcatElements
<1> HIDE DEF P3
<1>8. CompactionRecords(s) = P3
  BY DEF CompactionRecords, A, B, C, P1, P2, P3
<1> QED
  BY <1>1, <1>4, <1>5, <1>6, <1>7, <1>8

(* Replaying what compaction writes gives the state it was given: the records *)
(* say nothing else (CompactedRecordsArePart), and each cell is in one.       *)
LEMMA CompactionReplays ==
    ASSUME NEW s, WellFormed(s), HeaderCell \in DOMAIN s, SchemaCell \in DOMAIN s
    PROVE  /\ CompactionRecords(s) \in Seq(Record)
           /\ Replay(CompactionRecords(s)) = s
<1> DEFINE recs == CompactionRecords(s)
           All == {HeaderRecord(Magic), SchemaRecord(SchemaVersion)}
                  \cup RegistryRecords(s) \cup FactRecords(s) \cup KeyRecords(s)
<1>1. recs \in Seq(Record) /\ Elements(recs) = All
  BY CompactionElements
<1>2. \A r \in All : PartOf(r, s)
  BY CompactedRecordsArePart
<1>3. \A c \in DOMAIN s : \E r \in All : c \in DOMAIN r
  <2> SUFFICES ASSUME NEW c \in DOMAIN s PROVE \E r \in All : c \in DOMAIN r
    OBVIOUS
  <2>1. CASE c = HeaderCell
    BY <2>1 DEF HeaderRecord, Write
  <2>2. CASE c = SchemaCell
    BY <2>2 DEF SchemaRecord, Write
  <2>3. ASSUME NEW p \in RegistryKeys, c = RegistryCell(p) PROVE \E r \in All : c \in DOMAIN r
    <3>1. RegistryRecord(p, s[RegistryCell(p)]) \in RegistryRecords(s)
      BY <2>3 DEF RegistryRecords
    <3> QED
      BY <2>3, <3>1 DEF RegistryRecord, Write
  <2>4. ASSUME NEW f \in FactIds, FactCell(f) \in DOMAIN s
        PROVE  \E r \in FactRecords(s) : /\ FactCell(f) \in DOMAIN r
                                         /\ EmbeddingCell(f) \in DOMAIN s => EmbeddingCell(f) \in DOMAIN r
    <3> DEFINE r == IF EmbeddingCell(f) \in DOMAIN s
                      THEN FactEmbeddingRecord(f, s[FactCell(f)], s[EmbeddingCell(f)])
                      ELSE FactRecord(f, s[FactCell(f)])
    <3>1. f \in StoredFacts(s)
      BY <2>4 DEF StoredFacts
    <3>2. r \in FactRecords(s)
      BY <3>1 DEF FactRecords
    <3>3. FactCell(f) \in DOMAIN r
      BY DEF FactEmbeddingRecord, FactRecord, ApplyRecord, Write
    <3>4. EmbeddingCell(f) \in DOMAIN s => EmbeddingCell(f) \in DOMAIN r
      BY DEF FactEmbeddingRecord, FactRecord, ApplyRecord, Write
    <3> HIDE DEF r
    <3> QED
      BY <3>2, <3>3, <3>4
  <2>5. ASSUME NEW f \in FactIds, c = FactCell(f) PROVE \E r \in All : c \in DOMAIN r
    BY <2>4, <2>5
  <2>6. ASSUME NEW f \in FactIds, c = EmbeddingCell(f) PROVE \E r \in All : c \in DOMAIN r
    <3>1. FactCell(f) \in DOMAIN s
      BY <2>6 DEF WellFormed
    <3> QED
      BY <2>4, <2>6, <3>1
  <2>7. ASSUME NEW k \in IdemKeys, c = IdemCell(k) PROVE \E r \in All : c \in DOMAIN r
    <3>1. FactIdemRecord(s[IdemCell(k)], s[FactCell(s[IdemCell(k)])], k) \in KeyRecords(s)
      BY <2>7 DEF KeyRecords, StoredKeys
    <3>2. c \in DOMAIN FactIdemRecord(s[IdemCell(k)], s[FactCell(s[IdemCell(k)])], k)
      BY <2>7 DEF FactIdemRecord, FactRecord, ApplyRecord, Write
    <3> QED
      BY <3>1, <3>2
  <2>8. c \in Cell
    BY DEF WellFormed
  <2> QED
    BY <2>1, <2>2, <2>3, <2>5, <2>6, <2>7, <2>8 DEF Cell
<1> HIDE DEF recs, All
<1>4. \A i \in DOMAIN recs : \A c \in DOMAIN recs[i] : c \in DOMAIN s /\ recs[i][c] = s[c]
  BY <1>1, <1>2 DEF Elements, PartOf
<1>5. \A c \in DOMAIN s : \E i \in DOMAIN recs : c \in DOMAIN recs[i]
  BY <1>1, <1>3 DEF Elements
<1>6. s = [c \in DOMAIN s |-> s[c]]
  BY DEF WellFormed
<1>7. Replay(recs) = s
  BY <1>1, <1>4, <1>5, <1>6, ReplayAgrees
<1> QED
  BY <1>1, <1>7 DEF recs

-----------------------------------------------------------------------------
(* A state that records of this version build.  Everything in memory is one, *)
(* which is what bounds the entries of the maps and ties them to each other. *)
Built(s) == \E recs \in Seq(Record) : s = Replay(recs)

FileOK ==
    /\ lines \in Seq(Segment) /\ Len(lines) <= MaxLines
    /\ tail \in Segment \cup {NoTail}
    /\ synced \in 0..Len(lines)
    /\ stale # NoFile =>
          /\ stale.lines \in Seq(Segment) /\ Len(stale.lines) <= MaxLines
          /\ stale.tail \in Segment \cup {NoTail}
          /\ stale.synced \in 0..Len(stale.lines)

CallOK ==
    /\ status \in {"closed", "refused", "init", "open"}
    /\ pc \in {"idle", "write", "newline", "sync", "rename", "syncdir"}
    /\ rec \in Record \cup {UnknownRecord}
    /\ pc \in {"write", "newline", "sync"} => rec \in Record /\ status \in {"init", "open"}
    /\ pc \in {"write", "newline"} => Len(lines) < MaxLines
    /\ pc = "newline" => tail # NoTail
    /\ pc \in {"rename", "syncdir"} => status = "open"
    /\ pc = "rename" => Len(CompactionRecords(mem)) <= MaxLines

StateOK ==
    /\ Built(mem) /\ Built(acked)
    /\ status = "open" => HeaderCell \in DOMAIN mem /\ SchemaCell \in DOMAIN mem

GhostOK == answered \subseteq IdemKeys /\ clean \in BOOLEAN

IInv == FileOK /\ CallOK /\ StateOK /\ GhostOK

LEMMA BuiltWellFormed ==
    ASSUME NEW s, Built(s) PROVE WellFormed(s) /\ IsState(s) /\ Compactable(s)
  BY ReplayWellFormed, WellFormedIsState DEF Built

LEMMA BuiltEmpty == Built(EmptyState)
<1>1. <<>> \in Seq(Record)
  OBVIOUS
<1> QED
  BY <1>1, ReplayNone DEF Built

LEMMA BuiltApply ==
    ASSUME NEW s, Built(s), NEW r \in Record PROVE Built(ApplyRecord(s, r))
<1>1. PICK recs \in Seq(Record) : s = Replay(recs)
  BY DEF Built
<1>2. Append(recs, r) \in Seq(Record) /\ Replay(Append(recs, r)) = ApplyRecord(s, r)
  BY <1>1, ReplayAppend
<1> QED
  BY <1>2 DEF Built

LEMMA BuiltLoad ==
    ASSUME FileOK PROVE Built(Load(lines, tail).state)
  BY LoadReplays, DistinctAssumption DEF FileOK, Segment, Built

LEMMA EncodeSegment == ASSUME NEW r \in Record PROVE Encode(r) \in Segment
  BY DEF Encode, Segment

(* What the invariant says of the types is what TypeOK says. *)
LEMMA IInvImplies == ASSUME IInv PROVE TypeOK /\ KeysNameStoredFacts
<1>1. IsState(mem) /\ IsState(acked) /\ Compactable(mem)
  BY BuiltWellFormed DEF IInv, StateOK
<1>2. Compactable(Load(lines, tail).state)
  BY BuiltLoad, BuiltWellFormed DEF IInv
<1> QED
  BY <1>1, <1>2 DEF IInv, FileOK, CallOK, GhostOK, TypeOK, KeysNameStoredFacts, Segment

LEMMA InitIInv == Init => IInv
<1> SUFFICES ASSUME Init PROVE IInv
  OBVIOUS
<1>1. Built(mem) /\ Built(acked)
  BY BuiltEmpty DEF Init
<1> QED
  BY <1>1, MaxLinesAssumption DEF Init, IInv, FileOK, CallOK, StateOK, GhostOK, Segment

-----------------------------------------------------------------------------
(* Opening a file: the state in memory is the one its records build.  FinishOpen *)
(* is the only way to "open", and it needs the header and the schema.            *)
LEMMA OpeningStep ==
    ASSUME IInv, Open \/ OpenRefused \/ FinishOpen \/ AnswerExisting \/ Close PROVE IInv'
<1> USE DEF file, call, ghost
<1>1. CASE Open
  <2>1. Built(Load(lines, tail).state)
    BY BuiltLoad DEF IInv
  <2>2. FileOK' /\ GhostOK' /\ StateOK'
    BY <1>1, <2>1 DEF IInv, Open, FileOK, GhostOK, StateOK
  <2>3. CallOK'
    BY <1>1 DEF IInv, Open, Down, CallOK
  <2> QED
    BY <2>2, <2>3 DEF IInv
<1>2. CASE OpenRefused
  BY <1>2 DEF IInv, OpenRefused, Down, FileOK, CallOK, StateOK, GhostOK
<1>3. CASE FinishOpen
  <2>1. Built(mem') /\ Built(acked')
    BY <1>3, BuiltEmpty DEF IInv, StateOK, FinishOpen
  <2>2. FileOK' /\ GhostOK' /\ StateOK'
    BY <1>3, <2>1 DEF IInv, FinishOpen, FileOK, GhostOK, StateOK
  <2>3. CallOK'
    BY <1>3 DEF IInv, FinishOpen, CallOK
  <2> QED
    BY <2>2, <2>3 DEF IInv
<1>4. CASE AnswerExisting
  BY <1>4 DEF IInv, AnswerExisting, StoredKeys, FileOK, CallOK, StateOK, GhostOK
<1>5. CASE Close
  BY <1>5, BuiltEmpty DEF IInv, Close, FileOK, CallOK, StateOK, GhostOK
<1> QED
  BY <1>1, <1>2, <1>3, <1>4, <1>5

(* Every write begins the same way, with a record of this version. *)
LEMMA BeginStep ==
    ASSUME IInv, NEW r \in Record, BeginAppend(r), status \in {"init", "open"}
    PROVE  IInv'
  BY DEF IInv, BeginAppend, FileOK, CallOK, StateOK, GhostOK, file, ghost

LEMMA RecordsOfRow ==
    ASSUME NEW f \in FactIds, NEW row \in Row
    PROVE  /\ FactRecord(f, row) \in Record
           /\ \A k \in IdemKeys : FactIdemRecord(f, row, k) \in Record
           /\ \A d \in Dims : FactEmbeddingRecord(f, row, d) \in Record
  BY DEF Record

LEMMA NewRow == ASSUME NEW o \in Objects PROVE [object |-> o, ended |-> FALSE] \in Row
  BY DEF Row

(* The row that replaces a fact is the stored row, ended. *)
LEMMA EndedRow ==
    ASSUME IInv, NEW f \in StoredFacts(mem)
    PROVE  FactRecord(f, [mem[FactCell(f)] EXCEPT !.ended = TRUE]) \in Record
<1>1. f \in FactIds /\ mem[FactCell(f)] \in Row
  BY BuiltWellFormed DEF IInv, StateOK, IsState, StoredFacts
<1> DEFINE row == [mem[FactCell(f)] EXCEPT !.ended = TRUE]
<1>2. row \in Row
  BY <1>1 DEF Row
<1> HIDE DEF row
<1>3. FactRecord(f, row) \in Record
  BY <1>1, <1>2, RecordsOfRow
<1> QED
  BY <1>3 DEF row

LEMMA WriteStep ==
    ASSUME IInv,
           \/ InitializeSchema \/ WriteFact \/ ReplaceFactRow \/ WriteFactAndIdempotency
           \/ WriteFactWithEmbedding \/ WriteRegistryEntry
    PROVE  IInv'
<1>1. CASE InitializeSchema
  <2>1. HeaderRecord(Magic) \in Record /\ SchemaRecord(SchemaVersion) \in Record
    BY DEF Record
  <2> QED
    BY <1>1, <2>1, BeginStep DEF InitializeSchema
<1>2. CASE WriteFact
  <2>1. PICK f \in FactIds, o \in Objects :
           status = "open" /\ BeginAppend(FactRecord(f, [object |-> o, ended |-> FALSE]))
    BY <1>2 DEF WriteFact
  <2>2. FactRecord(f, [object |-> o, ended |-> FALSE]) \in Record
    BY NewRow, RecordsOfRow
  <2> QED
    BY <2>1, <2>2, BeginStep
<1>3. CASE ReplaceFactRow
  BY <1>3, EndedRow, BeginStep DEF ReplaceFactRow
<1>4. CASE WriteFactAndIdempotency
  <2>1. PICK f \in FactIds, k \in IdemKeys, o \in Objects :
           status = "open" /\ BeginAppend(FactIdemRecord(f, [object |-> o, ended |-> FALSE], k))
    BY <1>4 DEF WriteFactAndIdempotency
  <2>2. FactIdemRecord(f, [object |-> o, ended |-> FALSE], k) \in Record
    BY NewRow, RecordsOfRow
  <2> QED
    BY <2>1, <2>2, BeginStep
<1>5. CASE WriteFactWithEmbedding
  <2>1. PICK f \in FactIds, d \in Dims, o \in Objects :
           status = "open" /\ BeginAppend(FactEmbeddingRecord(f, [object |-> o, ended |-> FALSE], d))
    BY <1>5 DEF WriteFactWithEmbedding
  <2>2. FactEmbeddingRecord(f, [object |-> o, ended |-> FALSE], d) \in Record
    BY NewRow, RecordsOfRow
  <2> QED
    BY <2>1, <2>2, BeginStep
<1>6. CASE WriteRegistryEntry
  <2>1. PICK p \in RegistryKeys, e \in RegistryValues :
           status = "open" /\ BeginAppend(RegistryRecord(p, e))
    BY <1>6 DEF WriteRegistryEntry
  <2>2. RegistryRecord(p, e) \in Record
    BY DEF Record
  <2> QED
    BY <2>1, <2>2, BeginStep
<1> QED
  BY <1>1, <1>2, <1>3, <1>4, <1>5, <1>6

-----------------------------------------------------------------------------
(* The steps of an append, and the ways it fails.  A line is added only by the *)
(* newline of a call that began with room for it.                              *)
LEMMA AppendStep ==
    ASSUME IInv, WriteRecord \/ WriteNewline \/ SyncAndApply PROVE IInv'
<1>1. CASE WriteRecord
  <2>1. rec \in Record /\ Encode(rec) \in Segment /\ Junk \in Segment
    BY <1>1, EncodeSegment DEF IInv, CallOK, WriteRecord, Segment
  <2>2. tail' \in Segment
    BY <1>1, <2>1 DEF WriteRecord, Glue
  <2>3. tail' # NoTail
    BY <2>2, DistinctAssumption DEF Segment
  <2> QED
    BY <1>1, <2>2, <2>3 DEF IInv, WriteRecord, FileOK, CallOK, StateOK, GhostOK
<1>2. CASE WriteNewline
  <2>1. tail \in Segment /\ Len(lines) < MaxLines /\ lines \in Seq(Segment)
    BY <1>2 DEF IInv, FileOK, CallOK, WriteNewline
  <2>2. /\ lines' \in Seq(Segment) /\ Len(lines') = Len(lines) + 1
        /\ Len(lines) \in Nat
    BY <1>2, <2>1 DEF WriteNewline
  <2>3. FileOK'
    BY <1>2, <2>1, <2>2, MaxLinesAssumption DEF IInv, WriteNewline, FileOK
  <2> QED
    BY <1>2, <2>3 DEF IInv, WriteNewline, CallOK, StateOK, GhostOK, ghost
<1>3. CASE SyncAndApply
  <2>1. rec \in Record
    BY <1>3 DEF IInv, CallOK, SyncAndApply
  <2>2. Built(ApplyRecord(mem, rec)) /\ Built(ApplyRecord(acked, rec))
    BY <2>1, BuiltApply DEF IInv, StateOK
  <2>3. DOMAIN mem \subseteq DOMAIN ApplyRecord(mem, rec)
    BY DEF ApplyRecord
  <2>4. StateOK'
    BY <1>3, <2>2, <2>3 DEF IInv, SyncAndApply, Acknowledge, StateOK
  <2>5. FileOK'
    BY <1>3 DEF IInv, SyncAndApply, Acknowledge, FileOK
  <2>6. CallOK' /\ GhostOK'
    BY <1>3 DEF IInv, SyncAndApply, Acknowledge, CallOK, GhostOK
  <2> QED
    BY <2>4, <2>5, <2>6 DEF IInv
<1> QED
  BY <1>1, <1>2, <1>3

LEMMA FailStep ==
    ASSUME IInv, WriteFails \/ NewlineFails \/ SyncFails PROVE IInv'
<1>1. ReturnError
  BY DEF WriteFails, NewlineFails, SyncFails
<1>2. StateOK'
  <2>1. acked' = acked
    BY DEF WriteFails, NewlineFails, SyncFails
  <2> QED
    BY <1>1, <2>1, BuiltEmpty DEF IInv, StateOK, ReturnError
<1>3. lines' = lines /\ synced' = synced /\ stale' = stale /\ tail' \in Segment \cup {NoTail}
  BY DEF IInv, FileOK, WriteFails, NewlineFails, SyncFails, PartOfRecord, Segment, file
<1>4. answered' = answered /\ clean' \in BOOLEAN
  BY DEF IInv, GhostOK, WriteFails, NewlineFails, SyncFails
<1>5. FileOK' /\ GhostOK'
  BY <1>3, <1>4 DEF IInv, FileOK, GhostOK
<1>6. CallOK'
  BY <1>1 DEF IInv, CallOK, ReturnError
<1> QED
  BY <1>2, <1>5, <1>6 DEF IInv

-----------------------------------------------------------------------------
(* Compaction: the new file is the compaction of the state in memory. *)
LEMMA Compacted ==
    ASSUME IInv, pc = "rename"
    PROVE  /\ WellFormed(mem) /\ HeaderCell \in DOMAIN mem /\ SchemaCell \in DOMAIN mem
           /\ CompactionRecords(mem) \in Seq(Record)
           /\ Replay(CompactionRecords(mem)) = mem
           /\ Len(CompactionRecords(mem)) <= MaxLines
<1>1. WellFormed(mem) /\ HeaderCell \in DOMAIN mem /\ SchemaCell \in DOMAIN mem
  BY BuiltWellFormed DEF IInv, CallOK, StateOK
<1> QED
  BY <1>1, CompactionReplays DEF IInv, CallOK

LEMMA CompactStep ==
    ASSUME IInv, WriteCompacted \/ RenameCompacted \/ SyncDirectory \/ CompactFails
    PROVE  IInv'
<1> USE DEF file, ghost
<1>1. CASE WriteCompacted
  BY <1>1 DEF IInv, WriteCompacted, FileOK, CallOK, StateOK, GhostOK
<1>2. CASE RenameCompacted
  <2> DEFINE C == CompactionRecords(mem)
  <2>1. C \in Seq(Record) /\ Len(C) <= MaxLines
    BY <1>2, Compacted DEF RenameCompacted
  <2>2. lines' = [i \in DOMAIN C |-> Encode(C[i])]
    BY <1>2 DEF RenameCompacted, ReplaceFile
  <2> HIDE DEF C
  <2>3. \A i \in DOMAIN C : Encode(C[i]) \in Segment
    BY <2>1, EncodeSegment
  <2>4. /\ Len(C) \in Nat /\ DOMAIN C = 1..Len(C)
    BY <2>1
  <2>5. lines' \in [1..Len(C) -> Segment]
    BY <2>2, <2>3, <2>4
  <2>6. lines' \in Seq(Segment) /\ Len(lines') = Len(C)
    BY <2>4, <2>5
  <2>7. FileOK'
    BY <1>2, <2>1, <2>4, <2>6 DEF IInv, RenameCompacted, ReplaceFile, FileOK
  <2>8. CallOK' /\ StateOK' /\ GhostOK'
    BY <1>2 DEF IInv, RenameCompacted, CallOK, StateOK, GhostOK
  <2> QED
    BY <2>7, <2>8 DEF IInv
<1>3. CASE SyncDirectory
  BY <1>3 DEF IInv, SyncDirectory, FileOK, CallOK, StateOK, GhostOK
<1>4. CASE CompactFails
  BY <1>4 DEF IInv, CompactFails, FileOK, CallOK, StateOK, GhostOK
<1> QED
  BY <1>1, <1>2, <1>3, <1>4

-----------------------------------------------------------------------------
(* The end of the process.  A file that a power loss leaves is a prefix of a *)
(* file there was.                                                           *)
LEMMA DeadStep ==
    ASSUME IInv, Dead, FileOK' PROVE IInv'
<1>1. StateOK' /\ CallOK' /\ GhostOK'
  BY BuiltEmpty DEF IInv, Dead, StateOK, CallOK, GhostOK
<1> QED
  BY <1>1 DEF IInv

LEMMA PrefixType ==
    ASSUME NEW R, NEW s \in Seq(R), NEW n \in 0..Len(s)
    PROVE  SubSeq(s, 1, n) \in Seq(R) /\ Len(SubSeq(s, 1, n)) = n
  OBVIOUS

LEMMA EndStep ==
    ASSUME IInv, Crash \/ PowerLoss PROVE IInv'
<1>1. CASE Crash
  <2>1. tail' \in Segment \cup {NoTail}
    BY <1>1 DEF IInv, FileOK, Crash, PartOfRecord, Segment
  <2>2. FileOK'
    BY <1>1, <2>1 DEF IInv, FileOK, Crash
  <2> QED
    BY <1>1, <2>2, DeadStep DEF Crash
<1>2. CASE PowerLoss
  <2>1. PICK f \in {[lines |-> lines, tail |-> t, synced |-> synced] :
                       t \in {tail} \cup (IF pc = "write" THEN {Junk} ELSE {})}
                   \cup (IF stale = NoFile THEN {} ELSE {stale}) :
           \E n \in f.synced..Len(f.lines) : \E t \in SurvivingTails(f, n) :
              lines' = SubSeq(f.lines, 1, n) /\ tail' = t /\ synced' = n
    BY <1>2 DEF PowerLoss
  <2>2. /\ f.lines \in Seq(Segment) /\ Len(f.lines) <= MaxLines
        /\ f.tail \in Segment \cup {NoTail} /\ f.synced \in 0..Len(f.lines)
    BY <2>1 DEF IInv, FileOK, Segment
  <2>3. PICK n \in f.synced..Len(f.lines) : \E t \in SurvivingTails(f, n) :
           lines' = SubSeq(f.lines, 1, n) /\ tail' = t /\ synced' = n
    BY <2>1
  <2>4. n \in 0..Len(f.lines) /\ Len(f.lines) \in Nat
    BY <2>2, <2>3
  <2>5. lines' \in Seq(Segment) /\ Len(lines') = n
    BY <2>2, <2>3, <2>4, PrefixType
  <2>6. SurvivingTails(f, n) \subseteq Segment \cup {NoTail}
    <3>1. CASE n = Len(f.lines)
      BY <2>2, <3>1 DEF SurvivingTails, Segment
    <3>2. CASE n # Len(f.lines)
      <4>1. f.lines[n + 1] \in Segment
        BY <2>2, <2>4, <3>2
      <4> QED
        BY <3>2, <4>1 DEF SurvivingTails, Segment
    <3> QED
      BY <3>1, <3>2
  <2>7. stale' = NoFile
    BY <1>2 DEF PowerLoss
  <2>8. FileOK'
    BY <2>2, <2>3, <2>4, <2>5, <2>6, <2>7, MaxLinesAssumption DEF FileOK
  <2> QED
    BY <1>2, <2>8, DeadStep DEF PowerLoss
<1> QED
  BY <1>1, <1>2

LEMMA NextIInv == IInv /\ [Next]_vars => IInv'
<1> SUFFICES ASSUME IInv, [Next]_vars PROVE IInv'
  OBVIOUS
<1>1. CASE Next
  BY <1>1, OpeningStep, WriteStep, AppendStep, FailStep, CompactStep, EndStep DEF Next
<1>2. CASE UNCHANGED vars
  BY <1>2 DEF vars, file, call, ghost, IInv, FileOK, CallOK, StateOK, GhostOK
<1> QED
  BY <1>1, <1>2

(* The invariant of the types, which the others below rest on. *)
THEOREM Invariant == Spec => []IInv
<1> QED
  BY InitIInv, NextIInv, PTL DEF Spec

(* The file, the state and the bookkeeping keep their types, whatever fails. *)
THEOREM LogTyped == Spec => []TypeOK
<1>1. IInv => TypeOK
  BY IInvImplies
<1> QED
  BY <1>1, Invariant, PTL

(* A key never names a fact the store does not have, in memory or in what an *)
(* open would read, after any number of errors, crashes and compactions.     *)
THEOREM KeysAreGood == Spec => []KeysNameStoredFacts
<1>1. IInv => KeysNameStoredFacts
  BY IInvImplies
<1> QED
  BY <1>1, Invariant, PTL

-----------------------------------------------------------------------------
LEMMA ConcatHead ==
    ASSUME NEW R, NEW T, NEW a \in Seq(R), NEW b \in Seq(T), Len(a) > 0
    PROVE  a \o b \in Seq(R \cup T) /\ Len(a \o b) > 0 /\ (a \o b)[1] = a[1]
<1>1. Len(a) \in Nat /\ Len(b) \in Nat /\ Len(a \o b) = Len(a) + Len(b)
  OBVIOUS
<1>2. 1 \in 1..Len(a)
  BY <1>1
<1>3. (a \o b)[1] = a[1]
  BY <1>1, <1>2
<1>4. a \in Seq(R \cup T) /\ b \in Seq(R \cup T)
  <2>1. /\ \A i \in DOMAIN a : a[i] \in R \cup T
        /\ \A i \in DOMAIN b : b[i] \in R \cup T
    OBVIOUS
  <2> QED
    BY <2>1, SeqNarrow
<1> QED
  BY <1>1, <1>3, <1>4

(* What an open makes of the file a compaction writes.  Each of its records is *)
(* part of the state (CompactedRecordsArePart), so it is readable when the     *)
(* state is, and its schema version is the one this version accepts.           *)
LEMMA CompactedFileLoads ==
    ASSUME IInv, pc = "rename", Readable(mem), ReplaceFile
    PROVE  Loads(lines', tail', mem)
<1> DEFINE C == CompactionRecords(mem)
<1>1. C \in Seq(Record) /\ Replay(C) = mem
  BY Compacted
<1>2. \A i \in DOMAIN C : PartOf(C[i], mem)
  <2>1. Elements(C) = {HeaderRecord(Magic), SchemaRecord(SchemaVersion)}
                      \cup RegistryRecords(mem) \cup FactRecords(mem) \cup KeyRecords(mem)
    BY Compacted, CompactionElements
  <2>2. \A r \in Elements(C) : PartOf(r, mem)
    BY <2>1, Compacted, CompactedRecordsArePart
  <2> HIDE DEF C
  <2> QED
    BY <2>2 DEF Elements
<1>3. C[1] = HeaderRecord(Magic)
  <2>1. /\ Preamble \in Seq(Record) /\ Len(Preamble) = 2 /\ Preamble[1] = HeaderRecord(Magic)
    BY DEF Preamble, Record
  <2> DEFINE A == SetToSeq(RegistryRecords(mem))
             B == SetToSeq(FactRecords(mem))
             D == SetToSeq(KeyRecords(mem))
  <2>2. A \in Seq(RegistryRecords(mem)) /\ B \in Seq(FactRecords(mem)) /\ D \in Seq(KeyRecords(mem))
    BY CompactedSetsFinite, SetToSeqEnumerates
  <2>3. C = ((Preamble \o A) \o B) \o D
    BY DEF CompactionRecords
  <2> DEFINE P1 == Preamble \o A
             P2 == P1 \o B
             P3 == P2 \o D
             R1 == Record \cup RegistryRecords(mem)
             R2 == R1 \cup FactRecords(mem)
  <2> HIDE DEF A, B, C, D, R1, R2
  <2>4. P1 \in Seq(R1) /\ Len(P1) > 0 /\ P1[1] = Preamble[1]
    BY <2>1, <2>2, ConcatHead DEF R1
  <2> HIDE DEF P1
  <2>5. P2 \in Seq(R2) /\ Len(P2) > 0 /\ P2[1] = P1[1]
    BY <2>2, <2>4, ConcatHead DEF R2
  <2> HIDE DEF P2
  <2>6. P3[1] = P2[1]
    BY <2>2, <2>5, ConcatHead
  <2> QED
    BY <2>1, <2>3, <2>4, <2>5, <2>6 DEF P1, P2
<1>4. \A i \in DOMAIN C : C[i] \in Record /\ Encode(C[i]) = C[i]
  <2> SUFFICES ASSUME NEW i \in DOMAIN C PROVE C[i] \in Record /\ Encode(C[i]) = C[i]
    OBVIOUS
  <2>1. PartOf(C[i], mem)
    BY <1>2
  <2> HIDE DEF C
  <2>2. Readable(C[i])
    BY <2>1 DEF PartOf, Readable
  <2> QED
    BY <2>1, <2>2 DEF PartOf, Encode
<1>5. lines' = C /\ tail' = NoTail
  <2>1. lines' = [i \in DOMAIN C |-> Encode(C[i])] /\ tail' = NoTail
    BY DEF ReplaceFile
  <2> HIDE DEF C
  <2>2. C = [i \in DOMAIN C |-> C[i]]
    BY <1>1
  <2> QED
    BY <1>4, <2>1, <2>2
<1>6. ASSUME NEW i \in DOMAIN C PROVE Verdict(C, FALSE, i) = "fine"
  <2>1. C[i] \in Record /\ C[i] # Junk
    BY <1>4, DistinctAssumption
  <2>2. i = 1 => C[i] = HeaderRecord(Magic)
    BY <1>3
  <2>3. SchemaCell \in DOMAIN C[i] => C[i][SchemaCell] = SchemaVersion
    BY <1>2, Compacted DEF PartOf, WellFormed
  <2> HIDE DEF C
  <2> QED
    BY <2>1, <2>2, <2>3, Zenon DEF Verdict
<1> HIDE DEF C
<1>7. {i \in DOMAIN C : Verdict(C, FALSE, i) # "fine"} = {}
  BY <1>6
<1>8. Load(C, NoTail) = [result |-> "ok", state |-> Replay(C)]
  BY <1>7, Zenon DEF Load
<1> QED
  BY <1>1, <1>5, <1>8 DEF Loads

(* Compaction keeps the state, whatever earlier errors left in the file. *)
LEMMA CompactionStepKeeps ==
    ASSUME IInv, [Next]_vars, pc = "rename", pc' = "syncdir", Readable(mem)
    PROVE  Loads(lines', tail', mem)
<1>1. RenameCompacted
  BY DEF Next, vars, call, ghost, file, Open, OpenRefused, InitializeSchema, FinishOpen,
         WriteFact, ReplaceFactRow, WriteFactAndIdempotency, AnswerExisting,
         WriteFactWithEmbedding, WriteRegistryEntry, BeginAppend, WriteRecord,
         WriteNewline, SyncAndApply, WriteFails, NewlineFails, SyncFails,
         WriteCompacted, SyncDirectory, CompactFails, Close, Crash, PowerLoss, Dead
<1> QED
  BY <1>1, CompactedFileLoads DEF RenameCompacted

(* The file a compaction renames into place loads as the state in memory: no *)
(* fact, key, registry entry or embedding is dropped.                        *)
THEOREM CompactionIsFaithful == Spec => CompactionKeepsState
<1>1. IInv /\ [Next]_vars =>
        [pc = "rename" /\ pc' = "syncdir" /\ Readable(mem) => Loads(lines', tail', mem)]_vars
  BY CompactionStepKeeps
<1> QED
  BY <1>1, Invariant, PTL DEF Spec, CompactionKeepsState

-----------------------------------------------------------------------------
(* NoSilentLoss.  Load reads the file as it is; a power loss leaves an       *)
(* earlier one.  The strengthening therefore speaks of every file the disk   *)
(* can be left with: the acknowledged cells are in each of them that loads.  *)

Up == status \in {"init", "open"}

(* The record in flight is in doubt once all its bytes are in the file. *)
InFlight == IF pc \in {"newline", "sync"} THEN {<<c, rec[c]>> : c \in DOMAIN rec} ELSE {}
Doubtful == doubt \cup InFlight

(* s gives back the cells of a, overwritten at most by values of D, and  *)
(* holds nothing else.                                                   *)
Covers(s, a, D) ==
    /\ DOMAIN a \subseteq DOMAIN s
    /\ \A c \in DOMAIN s : (c \in DOMAIN a /\ s[c] = a[c]) \/ <<c, s[c]>> \in D

(* So do the prefixes of a file with n durable lines, its tail included. *)
FileCovers(ls, t, n, a, D) ==
    /\ \A i \in n..Len(ls) :
          SubSeq(ls, 1, i) \in Seq(Record) => Covers(Replay(SubSeq(ls, 1, i)), a, D)
    /\ ls \in Seq(Record) /\ t \in Record => Covers(Replay(Append(ls, t)), a, D)

(* The record in flight is the last in the file, or glued to what was there. *)
CallInFile ==
    /\ pc = "newline" => tail \in {rec, Junk}
    /\ pc = "sync" => tail = NoTail /\ Len(lines) > 0 /\ lines[Len(lines)] \in {rec, Junk}

CoverInv ==
    /\ FileCovers(lines, tail, synced, acked, Doubtful)
    /\ stale # NoFile => FileCovers(stale.lines, stale.tail, stale.synced, acked, Doubtful)
    /\ Up => Covers(mem, acked, Doubtful)
    /\ CallInFile

LEMMA CoversMore ==
    ASSUME NEW a, NEW D, NEW E, D \subseteq E
    PROVE  /\ \A s : Covers(s, a, D) => Covers(s, a, E)
           /\ \A ls, t, n : FileCovers(ls, t, n, a, D) => FileCovers(ls, t, n, a, E)
<1>1. \A s : Covers(s, a, D) => Covers(s, a, E)
  BY DEF Covers
<1> QED
  BY <1>1 DEF FileCovers

(* Covering survives one more record, if its values may be found. *)
LEMMA CoversApply ==
    ASSUME NEW a, NEW D, NEW s, NEW r, Covers(s, a, D),
           \A c \in DOMAIN r : <<c, r[c]>> \in D
    PROVE  Covers(ApplyRecord(s, r), a, D)
  BY DEF Covers, ApplyRecord

LEMMA AppendedTypes ==
    ASSUME NEW R, NEW T, NEW s \in Seq(R), NEW r, Append(s, r) \in Seq(T)
    PROVE  s \in Seq(T)
<1>1. \A i \in DOMAIN s : s[i] = Append(s, r)[i] /\ i \in DOMAIN Append(s, r)
  OBVIOUS
<1>2. \A i \in DOMAIN s : s[i] \in T
  BY <1>1
<1> QED
  BY <1>2, SeqNarrow

(* What the file may load as covers the acknowledged cells. *)
LEMMA LoadCovers ==
    ASSUME IInv, CoverInv, Load(lines, tail).result = "ok"
    PROVE  Covers(Load(lines, tail).state, acked, Doubtful)
<1>1. /\ lines \in Seq(Segment) /\ tail \in Segment \cup {NoTail}
      /\ synced \in 0..Len(lines) /\ Len(lines) \in Nat
  BY DEF IInv, FileOK
<1>2. SubSeq(lines, 1, Len(lines)) = lines /\ Len(lines) \in synced..Len(lines)
  BY <1>1
<1>3. /\ lines \in Seq(Record) => Covers(Replay(lines), acked, Doubtful)
      /\ lines \in Seq(Record) /\ tail \in Record => Covers(Replay(Append(lines, tail)), acked, Doubtful)
  BY <1>2 DEF CoverInv, FileCovers
<1>4. CASE Sound(lines) /\ tail = Junk /\ Load(lines, tail).state = Replay(lines)
  BY <1>3, <1>4 DEF Sound
<1>5. CASE /\ Sound(Segments(lines, tail)) /\ tail # Junk
           /\ Load(lines, tail).state = Replay(Segments(lines, tail))
  <2>1. CASE tail = NoTail
    BY <1>3, <1>5, <2>1 DEF Sound, Segments
  <2>2. CASE tail # NoTail
    <3>1. tail \in Record
      BY <1>1, <1>5, <2>2 DEF Segment
    <3>2. Append(lines, tail) \in Seq(Record) /\ Segments(lines, tail) = Append(lines, tail)
      BY <1>5, <2>2 DEF Sound, Segments
    <3>3. lines \in Seq(Record)
      BY <1>1, <3>2, AppendedTypes
    <3> QED
      BY <1>3, <1>5, <3>1, <3>2, <3>3
  <2> QED
    BY <2>1, <2>2
<1> QED
  BY <1>1, <1>4, <1>5, LoadOk, DistinctAssumption

LEMMA InitCoverInv == Init => CoverInv
<1> SUFFICES ASSUME Init PROVE CoverInv
  OBVIOUS
<1>1. Covers(EmptyState, EmptyState, doubt)
  BY DEF Covers
<1>2. ASSUME NEW i \in synced..Len(lines) PROVE SubSeq(lines, 1, i) = <<>>
  BY DEF Init
<1>3. Doubtful = doubt /\ acked = EmptyState /\ tail \notin Record
  BY DistinctAssumption DEF Init, Doubtful, InFlight
<1>4. FileCovers(lines, tail, synced, acked, Doubtful)
  BY <1>1, <1>2, <1>3, ReplayNone DEF FileCovers
<1> QED
  BY <1>4 DEF Init, CoverInv, CallInFile, Up

(* Steps that leave the lines of the file alone, acknowledge nothing and *)
(* forget no doubt: a tail that is cut off or garbled says less.         *)
LEMMA CoverKept ==
    ASSUME CoverInv, lines' = lines, synced' = synced, tail' \in {tail, Junk},
           stale' \in {stale, NoFile}, acked' = acked, Doubtful \subseteq Doubtful',
           Up' => Covers(mem', acked, Doubtful), CallInFile'
    PROVE  CoverInv'
<1> DEFINE a == acked
           D == Doubtful
           E == Doubtful'
<1>1. FileCovers(lines, tail, synced, a, D) /\ D \subseteq E
  BY DEF CoverInv
<1>2. FileCovers(lines, tail', synced, a, D)
  BY <1>1, DistinctAssumption DEF FileCovers
<1>3. stale' # NoFile => FileCovers(stale'.lines, stale'.tail, stale'.synced, a, D)
  BY DEF CoverInv
<1> HIDE DEF a, D, E
<1>4. /\ FileCovers(lines, tail', synced, a, E)
      /\ stale' # NoFile => FileCovers(stale'.lines, stale'.tail, stale'.synced, a, E)
      /\ Up' => Covers(mem', a, E)
  BY <1>1, <1>2, <1>3, CoversMore DEF a, D
<1> QED
  BY <1>4 DEF CoverInv, a, E

LEMMA CoverOpening ==
    ASSUME IInv, CoverInv, Open \/ OpenRefused \/ FinishOpen \/ AnswerExisting \/ Close
    PROVE  CoverInv'
<1> USE DEF file, call, ghost
<1>1. /\ lines' = lines /\ synced' = synced /\ tail' = tail /\ stale' = stale
      /\ acked' = acked /\ Doubtful' = Doubtful /\ pc' = pc /\ rec' = rec
  BY DEF Open, OpenRefused, FinishOpen, AnswerExisting, Close, Doubtful, InFlight
<1>2. CallInFile'
  BY <1>1 DEF CoverInv, CallInFile
<1>3. Up' => Covers(mem', acked, Doubtful)
  <2>1. CASE Open
    BY <2>1, LoadCovers DEF Open
  <2>2. CASE OpenRefused \/ Close
    BY <2>2 DEF OpenRefused, Close, Up
  <2>3. CASE FinishOpen \/ AnswerExisting
    BY <2>3 DEF FinishOpen, AnswerExisting, Up, CoverInv
  <2> QED
    BY <2>1, <2>2, <2>3
<1> QED
  BY <1>1, <1>2, <1>3, CoverKept

LEMMA CoverBegin ==
    ASSUME CoverInv, NEW r, BeginAppend(r) PROVE CoverInv'
<1>1. /\ lines' = lines /\ synced' = synced /\ tail' = tail /\ stale' = stale
      /\ acked' = acked /\ Doubtful' = Doubtful /\ mem' = mem /\ Up' = Up
  BY DEF BeginAppend, file, ghost, Doubtful, InFlight, Up
<1>2. CallInFile'
  BY DEF BeginAppend, CallInFile
<1> QED
  BY <1>1, <1>2, CoverKept DEF CoverInv

LEMMA WriteBegins ==
    ASSUME \/ InitializeSchema \/ WriteFact \/ ReplaceFactRow \/ WriteFactAndIdempotency
           \/ WriteFactWithEmbedding \/ WriteRegistryEntry
    PROVE  \E r : BeginAppend(r)
  BY DEF InitializeSchema, WriteFact, ReplaceFactRow, WriteFactAndIdempotency,
         WriteFactWithEmbedding, WriteRegistryEntry

(* The bytes of the record: from here on its values may be found. *)
LEMMA CoverWriteRecord ==
    ASSUME IInv, CoverInv, WriteRecord PROVE CoverInv'
<1> DEFINE a == acked
           D == Doubtful
           E == Doubtful'
<1>1. /\ lines' = lines /\ synced' = synced /\ stale' = stale /\ acked' = acked /\ mem' = mem
      /\ Up' = Up /\ rec' = rec /\ pc = "write" /\ pc' = "newline" /\ doubt' = doubt
  BY DEF WriteRecord, Up
<1>2. D \subseteq E /\ \A c \in DOMAIN rec : <<c, rec[c]>> \in E
  BY <1>1 DEF Doubtful, InFlight
<1>3. rec \in Record /\ lines \in Seq(Segment) /\ synced \in 0..Len(lines)
  BY <1>1 DEF IInv, CallOK, FileOK
<1>4. tail' \in {rec, Junk}
  BY DEF WriteRecord, Glue, Encode
<1>5. /\ FileCovers(lines, tail, synced, a, D)
      /\ stale # NoFile => FileCovers(stale.lines, stale.tail, stale.synced, a, D)
      /\ Up => Covers(mem, a, D)
  BY DEF CoverInv
<1> HIDE DEF a, D, E
<1>6. /\ FileCovers(lines, tail, synced, a, E)
      /\ stale # NoFile => FileCovers(stale.lines, stale.tail, stale.synced, a, E)
      /\ Up => Covers(mem, a, E)
  BY <1>2, <1>5, CoversMore
<1>7. FileCovers(lines, tail', synced, a, E)
  <2>1. SubSeq(lines, 1, Len(lines)) = lines /\ Len(lines) \in synced..Len(lines)
    BY <1>3
  <2>2. lines \in Seq(Record) => Covers(Replay(lines), a, E)
    BY <1>6, <2>1 DEF FileCovers
  <2>3. ASSUME lines \in Seq(Record), tail' \in Record
        PROVE  Covers(Replay(Append(lines, tail')), a, E)
    <3>1. tail' = rec
      BY <1>4, <2>3, DistinctAssumption
    <3>2. Covers(ApplyRecord(Replay(lines), rec), a, E)
      BY <1>2, <2>2, <2>3, CoversApply
    <3> QED
      BY <2>3, <3>1, <3>2, ReplayAppend
  <2> QED
    BY <1>6, <2>3 DEF FileCovers
<1>8. CallInFile'
  BY <1>1, <1>4 DEF CallInFile
<1> QED
  BY <1>1, <1>6, <1>7, <1>8 DEF CoverInv, a, E

(* The newline: the tail becomes a line. *)
LEMMA LinesWithOneMore ==
    ASSUME NEW R, NEW s \in Seq(R), NEW r \in R
    PROVE  /\ Len(Append(s, r)) = Len(s) + 1 /\ Append(s, r)[Len(s) + 1] = r
           /\ SubSeq(Append(s, r), 1, Len(s) + 1) = Append(s, r)
           /\ \A i \in 0..Len(s) : SubSeq(Append(s, r), 1, i) = SubSeq(s, 1, i)
  OBVIOUS

LEMMA CoverWriteNewline ==
    ASSUME IInv, CoverInv, WriteNewline PROVE CoverInv'
<1>1. /\ lines' = Append(lines, tail) /\ tail' = NoTail /\ synced' = synced /\ stale' = stale
      /\ acked' = acked /\ mem' = mem /\ Up' = Up /\ rec' = rec
      /\ pc = "newline" /\ pc' = "sync" /\ doubt' = doubt
  BY DEF WriteNewline, ghost, Up
<1>2. Doubtful' = Doubtful
  BY <1>1 DEF Doubtful, InFlight
<1>3. /\ lines \in Seq(Segment) /\ tail \in Segment /\ tail \in {rec, Junk} /\ Len(lines) \in Nat
      /\ synced \in 0..Len(lines)
  BY <1>1 DEF IInv, CallOK, FileOK, CoverInv, CallInFile
<1>4. /\ Len(lines') = Len(lines) + 1 /\ lines'[Len(lines) + 1] = tail
      /\ SubSeq(lines', 1, Len(lines) + 1) = lines'
      /\ \A i \in 0..Len(lines) : SubSeq(lines', 1, i) = SubSeq(lines, 1, i)
  BY <1>1, <1>3, LinesWithOneMore
<1>5. FileCovers(lines', tail', synced, acked, Doubtful)
  <2>1. ASSUME NEW i \in synced..Len(lines'), SubSeq(lines', 1, i) \in Seq(Record)
        PROVE  Covers(Replay(SubSeq(lines', 1, i)), acked, Doubtful)
    <3>1. CASE i \in synced..Len(lines)
      <4>1. i \in 0..Len(lines)
        BY <1>3, <3>1
      <4>2. SubSeq(lines', 1, i) = SubSeq(lines, 1, i)
        BY <1>4, <4>1
      <4>3. SubSeq(lines, 1, i) \in Seq(Record)
        BY <2>1, <4>2
      <4>4. FileCovers(lines, tail, synced, acked, Doubtful)
        BY DEF CoverInv
      <4>5. Covers(Replay(SubSeq(lines, 1, i)), acked, Doubtful)
        BY <3>1, <4>3, <4>4 DEF FileCovers
      <4> QED
        BY <4>2, <4>5
    <3>2. CASE i = Len(lines) + 1
      <4>1. Append(lines, tail) \in Seq(Record)
        BY <1>1, <1>4, <2>1, <3>2
      <4>2. lines \in Seq(Record)
        BY <1>3, <4>1, AppendedTypes
      <4>3. tail \in Record
        <5>1. Append(lines, tail)[Len(lines) + 1] = tail
          BY <1>1, <1>4
        <5>2. Len(lines) + 1 \in DOMAIN Append(lines, tail)
          BY <1>3
        <5> QED
          BY <4>1, <5>1, <5>2
      <4> QED
        BY <1>1, <1>4, <3>2, <4>2, <4>3 DEF CoverInv, FileCovers
    <3> QED
      BY <1>3, <1>4, <3>1, <3>2
  <2>2. tail' \notin Record
    BY <1>1, DistinctAssumption
  <2> QED
    BY <2>1, <2>2 DEF FileCovers
<1>6. CallInFile'
  BY <1>1, <1>3, <1>4 DEF CallInFile
<1> QED
  BY <1>1, <1>2, <1>5, <1>6 DEF CoverInv

(* The answer: the record's cells are acknowledged, and nothing of them is in *)
(* doubt any more.  The whole file is durable, and the record is its last.    *)
LEMMA CoversAcknowledged ==
    ASSUME NEW a, NEW D, NEW s, NEW r, NEW F,
           Covers(s, a, D \cup F), \A p \in F : \E c \in DOMAIN r : p = <<c, r[c]>>,
           \A c \in DOMAIN r : c \in DOMAIN s /\ s[c] = r[c],
           NEW E, \A p \in D : p[1] \notin DOMAIN r => p \in E
    PROVE  Covers(s, ApplyRecord(a, r), E)
<1> DEFINE b == ApplyRecord(a, r)
<1>1. ASSUME NEW c \in DOMAIN r PROVE c \in DOMAIN s /\ s[c] = b[c]
  BY DEF ApplyRecord
<1>2. ASSUME NEW c \in DOMAIN a, c \notin DOMAIN r
      PROVE  c \in DOMAIN s /\ (s[c] = b[c] \/ <<c, s[c]>> \in E)
  <2>1. b[c] = a[c]
    BY <1>2 DEF ApplyRecord
  <2>2. c \in DOMAIN s /\ (s[c] = a[c] \/ <<c, s[c]>> \in D \cup F)
    BY <1>2 DEF Covers
  <2>3. <<c, s[c]>> \notin F
    <3> SUFFICES ASSUME <<c, s[c]>> \in F PROVE FALSE
      OBVIOUS
    <3>1. PICK d \in DOMAIN r : <<c, s[c]>> = <<d, r[d]>>
      OBVIOUS
    <3> QED
      BY <1>2, <3>1
  <2>4. <<c, s[c]>> \in D => <<c, s[c]>> \in E
    BY <1>2
  <2> QED
    BY <2>1, <2>2, <2>3, <2>4
<1>3. DOMAIN b = DOMAIN a \cup DOMAIN r
  BY DEF ApplyRecord
<1> HIDE DEF b
<1>4. Covers(s, b, E)
  BY <1>1, <1>2, <1>3 DEF Covers
<1> QED
  BY <1>4 DEF b

LEMMA LastLine ==
    ASSUME NEW R, NEW s \in Seq(R), Len(s) > 0
    PROVE  /\ SubSeq(s, 1, Len(s) - 1) \in Seq(R) /\ s[Len(s)] \in R
           /\ s = Append(SubSeq(s, 1, Len(s) - 1), s[Len(s)])
<1> DEFINE n == Len(s)
           f == SubSeq(s, 1, n - 1)
<1>1. n \in Nat /\ n > 0 /\ n - 1 \in 0..n
  OBVIOUS
<1>2. f \in Seq(R) /\ Len(f) = n - 1
  BY <1>1, PrefixType
<1>3. \A i \in 1..n - 1 : f[i] = s[i]
  BY <1>1
<1>4. s = Append(f, s[n])
  BY <1>1, <1>2, <1>3
<1> QED
  BY <1>1, <1>2, <1>4

LEMMA CoverSync ==
    ASSUME IInv, CoverInv, SyncAndApply PROVE CoverInv'
<1> DEFINE b == ApplyRecord(acked, rec)
           E == {p \in doubt : p[1] \notin DOMAIN rec}
<1>1. /\ lines' = lines /\ tail' = tail /\ synced' = Len(lines) /\ stale' = NoFile
      /\ acked' = b /\ mem' = ApplyRecord(mem, rec)
      /\ Up' = Up /\ pc = "sync" /\ pc' = "idle" /\ doubt' = E
  BY DEF SyncAndApply, Acknowledge, Up
<1>2. Doubtful' = E
  BY <1>1 DEF Doubtful, InFlight
<1>3. /\ rec \in Record /\ lines \in Seq(Segment) /\ Len(lines) \in Nat /\ synced \in 0..Len(lines)
      /\ tail = NoTail /\ Len(lines) > 0 /\ lines[Len(lines)] \in {rec, Junk} /\ Up
  BY <1>1 DEF IInv, CallOK, FileOK, CoverInv, CallInFile, Up
<1>4. /\ Doubtful = doubt \cup InFlight
      /\ \A p \in InFlight : \E c \in DOMAIN rec : p = <<c, rec[c]>>
      /\ \A c \in DOMAIN rec : <<c, rec[c]>> \in Doubtful
  BY <1>1 DEF Doubtful, InFlight
<1>e. \A p \in doubt : p[1] \notin DOMAIN rec => p \in E
  OBVIOUS
<1> HIDE DEF E
<1>5. Covers(mem', b, E)
  <2>1. Covers(ApplyRecord(mem, rec), acked, doubt \cup InFlight)
    BY <1>3, <1>4, CoversApply DEF CoverInv
  <2>2. \A c \in DOMAIN rec : c \in DOMAIN ApplyRecord(mem, rec) /\ ApplyRecord(mem, rec)[c] = rec[c]
    BY DEF ApplyRecord
  <2> QED
    BY <1>1, <1>4, <1>e, <2>1, <2>2, CoversAcknowledged
<1>6. ASSUME lines \in Seq(Record) PROVE Covers(Replay(lines), b, E)
  <2> DEFINE before == SubSeq(lines, 1, Len(lines) - 1)
  <2>1. before \in Seq(Record) /\ lines = Append(before, lines[Len(lines)]) /\ lines[Len(lines)] \in Record
    BY <1>3, <1>6, LastLine
  <2>2. lines = Append(before, rec)
    BY <1>3, <2>1, DistinctAssumption
  <2> HIDE DEF before
  <2>3. Replay(lines) = ApplyRecord(Replay(before), rec)
    BY <1>3, <2>1, <2>2, ReplayAppend
  <2>4. \A c \in DOMAIN rec : c \in DOMAIN Replay(lines) /\ Replay(lines)[c] = rec[c]
    BY <2>3 DEF ApplyRecord
  <2>5. Covers(Replay(lines), acked, doubt \cup InFlight)
    <3>1. SubSeq(lines, 1, Len(lines)) = lines /\ Len(lines) \in synced..Len(lines)
      BY <1>3
    <3> QED
      BY <1>4, <1>6, <3>1 DEF CoverInv, FileCovers
  <2> QED
    BY <1>4, <1>e, <2>4, <2>5, CoversAcknowledged
<1>7. FileCovers(lines, tail, Len(lines), b, E)
  <2>1. \A i \in Len(lines)..Len(lines) : SubSeq(lines, 1, i) = lines
    BY <1>3
  <2>2. tail \notin Record
    BY <1>3, DistinctAssumption
  <2> QED
    BY <1>6, <2>1, <2>2 DEF FileCovers
<1>8. CallInFile'
  BY <1>1 DEF CallInFile
<1> HIDE DEF b, E
<1> QED
  BY <1>1, <1>2, <1>5, <1>7, <1>8 DEF CoverInv

(* A call that ends without success leaves its record in doubt. *)
LEMMA DoubtKept ==
    ASSUME InDoubt, pc' = "idle" PROVE Doubtful \subseteq Doubtful'
  BY DEF InDoubt, Doubtful, InFlight

LEMMA CoverFails ==
    ASSUME IInv, CoverInv, WriteFails \/ NewlineFails \/ SyncFails \/ Crash PROVE CoverInv'
<1>1. /\ lines' = lines /\ synced' = synced /\ tail' \in {tail, Junk} /\ stale' = stale
      /\ acked' = acked /\ pc' = "idle" /\ InDoubt
  BY DEF WriteFails, NewlineFails, SyncFails, Crash, Dead, ReturnError, PartOfRecord, file
<1>2. Doubtful \subseteq Doubtful'
  BY <1>1, DoubtKept
<1>3. Up' => Covers(mem', acked, Doubtful)
  BY DEF WriteFails, NewlineFails, SyncFails, Crash, Dead, ReturnError, Up, CoverInv
<1>4. CallInFile'
  BY <1>1 DEF CallInFile
<1> QED
  BY <1>1, <1>2, <1>3, <1>4, CoverKept

LEMMA CoverCompact ==
    ASSUME IInv, CoverInv, WriteCompacted \/ RenameCompacted \/ SyncDirectory \/ CompactFails
    PROVE  CoverInv'
<1> USE DEF file, ghost
<1>1. /\ acked' = acked /\ mem' = mem /\ Up' = Up /\ Doubtful' = Doubtful
      /\ pc' \in {"idle", "rename", "syncdir"}
  BY DEF WriteCompacted, RenameCompacted, SyncDirectory, CompactFails, Up, Doubtful, InFlight
<1>2. CallInFile'
  BY <1>1 DEF CallInFile
<1>3. CASE RenameCompacted
  <2> DEFINE C == CompactionRecords(mem)
  <2>1. /\ C \in Seq(Record) /\ Replay(C) = mem /\ Covers(mem, acked, Doubtful)
    BY <1>3, Compacted DEF RenameCompacted, IInv, CallOK, CoverInv, Up
  <2>2. lines' = [i \in DOMAIN C |-> Encode(C[i])] /\ tail' = NoTail /\ synced' = Len(lines')
    BY <1>3 DEF RenameCompacted, ReplaceFile
  <2>3. \/ stale' = [lines |-> lines, tail |-> tail, synced |-> synced]
        \/ stale # NoFile /\ stale' = stale
    BY <1>3 DEF RenameCompacted, ReplaceFile
  <2> HIDE DEF C
  <2>4. DOMAIN C = 1..Len(C) /\ Len(C) \in Nat /\ \A i \in DOMAIN C : Encode(C[i]) \in Segment
    BY <2>1, EncodeSegment
  <2>5. lines' \in Seq(Segment) /\ DOMAIN lines' = DOMAIN C /\ Len(lines') \in Nat
    <3>1. lines' \in [1..Len(C) -> Segment]
      BY <2>2, <2>4
    <3> QED
      BY <2>4, <3>1
  <2>6. ASSUME lines' \in Seq(Record) PROVE Replay(lines') = mem
    <3>1. ASSUME NEW i \in DOMAIN C PROVE lines'[i] = C[i]
      <4>1. lines'[i] \in Record /\ lines'[i] = Encode(C[i])
        BY <2>2, <2>5, <2>6
      <4> QED
        BY <4>1, DistinctAssumption DEF Encode
    <3>2. lines' = C
      BY <2>1, <2>2, <2>5, <3>1
    <3> QED
      BY <2>1, <3>2
  <2>7. FileCovers(lines', tail', synced', acked, Doubtful)
    <3>1. \A i \in Len(lines')..Len(lines') : SubSeq(lines', 1, i) = lines'
      BY <2>5
    <3>2. tail' \notin Record
      BY <2>2, DistinctAssumption
    <3> QED
      BY <2>1, <2>2, <2>6, <3>1, <3>2 DEF FileCovers
  <2>8. FileCovers(stale'.lines, stale'.tail, stale'.synced, acked, Doubtful)
    BY <2>3 DEF CoverInv
  <2> QED
    BY <1>1, <1>2, <2>7, <2>8 DEF CoverInv
<1>4. CASE WriteCompacted \/ SyncDirectory \/ CompactFails
  <2>1. lines' = lines /\ synced' = synced /\ tail' = tail /\ stale' \in {stale, NoFile}
    BY <1>4 DEF WriteCompacted, SyncDirectory, CompactFails
  <2>2. Up' => Covers(mem', acked, Doubtful)
    BY <1>1 DEF CoverInv
  <2> QED
    BY <1>1, <1>2, <2>1, <2>2, CoverKept
<1> QED
  BY <1>3, <1>4

(* A power loss leaves a prefix of a file whose prefixes all cover. *)
LEMMA PrefixCovers ==
    ASSUME NEW ls \in Seq(Segment), NEW t, NEW n \in 0..Len(ls), NEW a, NEW D,
           FileCovers(ls, t, n, a, D), NEW i \in n..Len(ls),
           NEW u \in SurvivingTails([lines |-> ls, tail |-> t, synced |-> n], i)
    PROVE  FileCovers(SubSeq(ls, 1, i), u, i, a, D)
<1> DEFINE short == SubSeq(ls, 1, i)
<1>1. i \in 0..Len(ls) /\ Len(ls) \in Nat /\ i \in Nat
  OBVIOUS
<1>2. short \in Seq(Segment) /\ Len(short) = i
  BY <1>1, PrefixType
<1>3. \A j \in i..Len(short) : SubSeq(short, 1, j) = short
  BY <1>1, <1>2
<1>4. short \in Seq(Record) => Covers(Replay(short), a, D)
  BY DEF FileCovers
<1>5. ASSUME short \in Seq(Record), u \in Record PROVE Covers(Replay(Append(short, u)), a, D)
  <2>1. u \notin {NoTail, Junk}
    BY <1>5, DistinctAssumption
  <2>2. CASE i = Len(ls)
    <3>1. u = t
      BY <2>1, <2>2 DEF SurvivingTails
    <3>2. short = ls
      BY <2>2
    <3> QED
      BY <1>5, <3>1, <3>2 DEF FileCovers
  <2>3. CASE i # Len(ls)
    <3>1. u = ls[i + 1]
      BY <2>1, <2>3 DEF SurvivingTails
    <3>2. i + 1 \in n..Len(ls) /\ SubSeq(ls, 1, i + 1) = Append(short, u)
      BY <1>1, <2>3, <3>1
    <3>3. Append(short, u) \in Seq(Record)
      BY <1>5
    <3> QED
      BY <3>2, <3>3 DEF FileCovers
  <2> QED
    BY <2>2, <2>3
<1> HIDE DEF short
<1>6. FileCovers(short, u, i, a, D)
  BY <1>2, <1>3, <1>4, <1>5 DEF FileCovers
<1> QED
  BY <1>6 DEF short

(* The files a power loss can cut: the one there is, its last bytes perhaps *)
(* not all written, or the one a rename replaced.                           *)
LEMMA PowerLossFile ==
    ASSUME IInv, PowerLoss
    PROVE  \E ls \in Seq(Segment), t \in Segment \cup {NoTail} : \E n \in 0..Len(ls) :
             /\ \/ ls = lines /\ n = synced /\ (t = tail \/ (pc = "write" /\ t = Junk))
                \/ stale # NoFile /\ ls = stale.lines /\ t = stale.tail /\ n = stale.synced
             /\ \E i \in n..Len(ls) :
                  \E u \in SurvivingTails([lines |-> ls, tail |-> t, synced |-> n], i) :
                     lines' = SubSeq(ls, 1, i) /\ tail' = u /\ synced' = i
<1>1. PICK f \in {[lines |-> lines, tail |-> t, synced |-> synced] :
                     t \in {tail} \cup (IF pc = "write" THEN {Junk} ELSE {})}
                 \cup (IF stale = NoFile THEN {} ELSE {stale}) :
         \E n \in f.synced..Len(f.lines) : \E t \in SurvivingTails(f, n) :
            lines' = SubSeq(f.lines, 1, n) /\ tail' = t /\ synced' = n
  BY DEF PowerLoss
<1>2. /\ f.lines \in Seq(Segment) /\ f.tail \in Segment \cup {NoTail} /\ f.synced \in 0..Len(f.lines)
  BY <1>1 DEF IInv, FileOK, Segment
<1>3. \/ f.lines = lines /\ f.synced = synced /\ (f.tail = tail \/ (pc = "write" /\ f.tail = Junk))
      \/ stale # NoFile /\ f = stale
  BY <1>1
<1>4. \A n : SurvivingTails(f, n) =
              SurvivingTails([lines |-> f.lines, tail |-> f.tail, synced |-> f.synced], n)
  BY DEF SurvivingTails
<1> QED
  BY <1>1, <1>2, <1>3, <1>4

LEMMA CoverPowerLoss ==
    ASSUME IInv, CoverInv, PowerLoss PROVE CoverInv'
<1>1. PICK ls \in Seq(Segment), t \in Segment \cup {NoTail} : \E n \in 0..Len(ls) :
        /\ \/ ls = lines /\ n = synced /\ (t = tail \/ (pc = "write" /\ t = Junk))
           \/ stale # NoFile /\ ls = stale.lines /\ t = stale.tail /\ n = stale.synced
        /\ \E i \in n..Len(ls) :
             \E u \in SurvivingTails([lines |-> ls, tail |-> t, synced |-> n], i) :
                lines' = SubSeq(ls, 1, i) /\ tail' = u /\ synced' = i
  BY PowerLossFile
<1>2. PICK n \in 0..Len(ls) :
        /\ \/ ls = lines /\ n = synced /\ (t = tail \/ (pc = "write" /\ t = Junk))
           \/ stale # NoFile /\ ls = stale.lines /\ t = stale.tail /\ n = stale.synced
        /\ \E i \in n..Len(ls) :
             \E u \in SurvivingTails([lines |-> ls, tail |-> t, synced |-> n], i) :
                lines' = SubSeq(ls, 1, i) /\ tail' = u /\ synced' = i
  BY <1>1
<1>3. FileCovers(ls, t, n, acked, Doubtful)
  BY <1>2, DistinctAssumption DEF CoverInv, FileCovers
<1>4. FileCovers(lines', tail', synced', acked, Doubtful)
  BY <1>2, <1>3, PrefixCovers
<1>5. acked' = acked /\ stale' = NoFile /\ status' = "closed" /\ pc' = "idle" /\ InDoubt
  BY DEF PowerLoss, Dead
<1>6. Doubtful \subseteq Doubtful'
  BY <1>5, DoubtKept
<1>7. FileCovers(lines', tail', synced', acked', Doubtful')
  BY <1>4, <1>5, <1>6, CoversMore
<1>8. CallInFile' /\ ~Up'
  BY <1>5 DEF CallInFile, Up
<1> QED
  BY <1>5, <1>7, <1>8 DEF CoverInv

LEMMA NextCoverInv == IInv /\ CoverInv /\ [Next]_vars => CoverInv'
<1> SUFFICES ASSUME IInv, CoverInv, [Next]_vars PROVE CoverInv'
  OBVIOUS
<1>1. CASE Next
  BY <1>1, CoverOpening, WriteBegins, CoverBegin, CoverWriteRecord, CoverWriteNewline,
     CoverSync, CoverFails, CoverCompact, CoverPowerLoss DEF Next
<1>2. CASE UNCHANGED vars
  BY <1>2 DEF vars, file, call, ghost, CoverInv, CallInFile, Up, Doubtful, InFlight
<1> QED
  BY <1>1, <1>2

(* Every file the disk can be left with covers what was acknowledged. *)
THEOREM CoverInvariant == Spec => []CoverInv
<1> QED
  BY InitCoverInv, NextCoverInv, Invariant, PTL DEF Spec

(* No acknowledged record is lost in silence, by any number of I/O errors,  *)
(* crashes, power losses and compactions: as long as the file opens, every  *)
(* acknowledged cell is there.                                              *)
THEOREM AcknowledgedSurvives == Spec => []NoSilentLoss
<1>1. ASSUME IInv, CoverInv PROVE NoSilentLoss
  <2> DEFINE got == Load(lines, tail)
  <2>1. got.result = "ok" => Covers(got.state, acked, Doubtful)
    BY <1>1, LoadCovers
  <2>2. ASSUME NEW c, NEW v, <<c, v>> \in Doubtful
        PROVE  <<c, v>> \in doubt \/ (c \in DOMAIN rec /\ v = rec[c])
    BY <2>2 DEF Doubtful, InFlight
  <2> HIDE DEF got
  <2>3. got.result = "ok" =>
          \A c \in DOMAIN acked :
             /\ c \in DOMAIN got.state
             /\ \/ got.state[c] = acked[c]
                \/ <<c, got.state[c]>> \in doubt
                \/ c \in DOMAIN rec /\ got.state[c] = rec[c]
    BY <2>1, <2>2 DEF Covers
  <2> QED
    BY <2>3 DEF NoSilentLoss, got
<1> QED
  BY <1>1, CoverInvariant, Invariant, PTL

-----------------------------------------------------------------------------
(* MemoryMatchesLog.  Between two writes the log replays to the state in       *)
(* memory; during one, the lines before it do, and the record in flight is the *)
(* rest of the file.                                                           *)

(* A write never changes a fact's object, a key's fact or, as the first one, *)
(* anything but the header.                                                  *)
Fits(r) ==
    /\ \A f \in FactIds : FactCell(f) \in DOMAIN r /\ FactCell(f) \in DOMAIN mem =>
          r[FactCell(f)].object = mem[FactCell(f)].object
    /\ \A k \in IdemKeys : IdemCell(k) \in DOMAIN r => IdemCell(k) \notin DOMAIN mem
    /\ HeaderCell \notin DOMAIN mem => r = HeaderRecord(Magic)

LinesBefore == SubSeq(lines, 1, Len(lines) - 1)

LogHolds ==
    /\ pc \in {"idle", "write", "rename", "syncdir"} => Loads(lines, tail, mem)
    /\ pc = "newline" => tail = Encode(rec) /\ Loads(lines, NoTail, mem)
    /\ pc = "sync" => /\ tail = NoTail /\ Len(lines) > 0
                      /\ lines[Len(lines)] = Encode(rec)
                      /\ Loads(LinesBefore, NoTail, mem)

LogInv ==
    /\ pc \in {"write", "newline", "sync"} => Fits(rec)
    /\ Up /\ clean /\ Readable(mem) => LogHolds
    /\ pc = "syncdir" /\ Readable(mem) => tail = NoTail /\ Loads(lines, tail, mem)
    /\ pc = "syncdir" /\ stale # NoFile /\ clean /\ Readable(mem)
         => Loads(stale.lines, stale.tail, mem)

LEMMA MemIsWellFormed ==
    ASSUME IInv PROVE WellFormed(mem) /\ (status = "open" => HeaderCell \in DOMAIN mem)
  BY BuiltWellFormed DEF IInv, StateOK

LEMMA RowFits ==
    ASSUME IInv, status = "open", NEW f \in FactIds, NEW row,
           FactCell(f) \in DOMAIN mem => row.object = mem[FactCell(f)].object
    PROVE  /\ Fits(FactRecord(f, row))
           /\ \A k \in IdemKeys : IdemCell(k) \notin DOMAIN mem => Fits(FactIdemRecord(f, row, k))
           /\ \A d \in Dims : Fits(FactEmbeddingRecord(f, row, d))
<1>1. HeaderCell \in DOMAIN mem
  BY MemIsWellFormed
<1>2. Fits(FactRecord(f, row))
  BY <1>1, CellsDiffer DEF Fits, FactRecord, Write
<1>3. ASSUME NEW k \in IdemKeys, IdemCell(k) \notin DOMAIN mem PROVE Fits(FactIdemRecord(f, row, k))
  BY <1>1, <1>3, CellsDiffer DEF Fits, FactIdemRecord, FactRecord, ApplyRecord, Write
<1>4. ASSUME NEW d \in Dims PROVE Fits(FactEmbeddingRecord(f, row, d))
  BY <1>1, CellsDiffer DEF Fits, FactEmbeddingRecord, FactRecord, ApplyRecord, Write
<1> QED
  BY <1>2, <1>3, <1>4

(* Every write begins with a record that fits the state in memory. *)
LEMMA WriteFits ==
    ASSUME IInv,
           \/ InitializeSchema \/ WriteFact \/ ReplaceFactRow \/ WriteFactAndIdempotency
           \/ WriteFactWithEmbedding \/ WriteRegistryEntry
    PROVE  \E r : BeginAppend(r) /\ Fits(r)
<1>1. CASE InitializeSchema
  <2>1. Fits(HeaderRecord(Magic))
    BY CellsDiffer DEF Fits, HeaderRecord, Write
  <2>2. HeaderCell \in DOMAIN mem => Fits(SchemaRecord(SchemaVersion))
    BY CellsDiffer DEF Fits, SchemaRecord, Write
  <2> QED
    BY <1>1, <2>1, <2>2 DEF InitializeSchema
<1>2. CASE WriteFact
  <2>1. PICK f \in FactIds, o \in Objects :
           /\ status = "open" /\ Unused(f)
           /\ BeginAppend(FactRecord(f, [object |-> o, ended |-> FALSE]))
    BY <1>2 DEF WriteFact
  <2> QED
    BY <2>1, RowFits DEF Unused
<1>3. CASE ReplaceFactRow
  <2>1. PICK f \in StoredFacts(mem) :
           /\ status = "open"
           /\ BeginAppend(FactRecord(f, [mem[FactCell(f)] EXCEPT !.ended = TRUE]))
    BY <1>3 DEF ReplaceFactRow
  <2> DEFINE row == [mem[FactCell(f)] EXCEPT !.ended = TRUE]
  <2>2. f \in FactIds /\ mem[FactCell(f)] \in Row
    BY MemIsWellFormed DEF WellFormed, StoredFacts
  <2>3. row.object = mem[FactCell(f)].object
    BY <2>2 DEF Row
  <2>4. BeginAppend(FactRecord(f, row))
    BY <2>1
  <2> HIDE DEF row
  <2>5. Fits(FactRecord(f, row))
    BY <2>1, <2>2, <2>3, RowFits
  <2> QED
    BY <2>4, <2>5
<1>4. CASE WriteFactAndIdempotency
  <2>1. PICK f \in FactIds, k \in IdemKeys, o \in Objects :
           /\ status = "open" /\ Unused(f) /\ IdemCell(k) \notin DOMAIN mem
           /\ BeginAppend(FactIdemRecord(f, [object |-> o, ended |-> FALSE], k))
    BY <1>4 DEF WriteFactAndIdempotency
  <2> QED
    BY <2>1, RowFits DEF Unused
<1>5. CASE WriteFactWithEmbedding
  <2>1. PICK f \in FactIds, d \in Dims, o \in Objects :
           /\ status = "open" /\ Unused(f)
           /\ BeginAppend(FactEmbeddingRecord(f, [object |-> o, ended |-> FALSE], d))
    BY <1>5 DEF WriteFactWithEmbedding
  <2> QED
    BY <2>1, RowFits DEF Unused
<1>6. CASE WriteRegistryEntry
  <2>1. PICK p \in RegistryKeys, e \in RegistryValues :
           status = "open" /\ BeginAppend(RegistryRecord(p, e))
    BY <1>6 DEF WriteRegistryEntry
  <2>2. Fits(RegistryRecord(p, e))
    BY <2>1, MemIsWellFormed, CellsDiffer DEF Fits, RegistryRecord, Write
  <2> QED
    BY <2>1, <2>2
<1> QED
  BY <1>1, <1>2, <1>3, <1>4, <1>5, <1>6

-----------------------------------------------------------------------------
LEMMA InitLogInv == Init => LogInv
  BY DEF Init, LogInv, Up

(* Steps outside a call, and the start of a call. *)
LEMMA LogCalm ==
    ASSUME LogInv, pc = "idle", pc' \in {"idle", "write", "rename"},
           lines' = lines, tail' = tail, clean' = clean,
           Up' => Up /\ mem' = mem, pc' = "write" => Fits(rec)'
    PROVE  LogInv'
<1>1. Up' /\ clean' /\ Readable(mem)' => LogHolds'
  BY DEF LogInv, LogHolds, Readable
<1> QED
  BY <1>1 DEF LogInv

LEMMA FitsLater == ASSUME NEW r, Fits(r), mem' = mem, rec' = r PROVE Fits(rec)'
  BY DEF Fits

LEMMA LogOpening ==
    ASSUME IInv, LogInv, Open \/ OpenRefused \/ FinishOpen \/ AnswerExisting \/ Close
    PROVE  LogInv'
<1> USE DEF file, call, ghost
<1>1. pc = "idle" /\ pc' = "idle" /\ lines' = lines /\ tail' = tail
  BY DEF IInv, CallOK, Open, OpenRefused, FinishOpen, AnswerExisting, Close, Down
<1>2. CASE Open
  <2>1. Load(lines, tail) = [result |-> "ok", state |-> mem']
    <3>1. Load(lines, tail).result = "ok" /\ mem' = Load(lines, tail).state
      BY <1>2 DEF Open
    <3> QED
      BY <3>1, LoadIsRecord
  <2>2. LogHolds'
    BY <1>1, <2>1 DEF LogHolds, Loads
  <2> QED
    BY <1>1, <2>2 DEF LogInv
<1>3. CASE OpenRefused \/ Close
  <2>1. ~Up'
    BY <1>3 DEF OpenRefused, Close, Up
  <2> QED
    BY <1>1, <2>1 DEF LogInv
<1>4. CASE FinishOpen \/ AnswerExisting
  <2>1. clean' = clean /\ (Up' => Up /\ mem' = mem)
    BY <1>4 DEF FinishOpen, AnswerExisting, Up
  <2> QED
    BY <1>1, <2>1, LogCalm
<1> QED
  BY <1>2, <1>3, <1>4

LEMMA LogBegin == ASSUME LogInv, NEW r, BeginAppend(r), Fits(r) PROVE LogInv'
<1>1. /\ pc = "idle" /\ pc' = "write" /\ lines' = lines /\ tail' = tail /\ clean' = clean
      /\ mem' = mem /\ rec' = r /\ Up' = Up
  BY DEF BeginAppend, file, ghost, Up
<1>2. Fits(rec)'
  BY <1>1, FitsLater
<1> QED
  BY <1>1, <1>2, LogCalm

(* The bytes of the record behind a newline, then the newline. *)
LEMMA LogWriteRecord == ASSUME IInv, LogInv, WriteRecord PROVE LogInv'
<1>1. /\ pc = "write" /\ pc' = "newline" /\ lines' = lines /\ mem' = mem /\ rec' = rec /\ Up' = Up
      /\ clean' = (clean /\ tail = NoTail) /\ tail' = Glue(tail, rec)
  BY DEF WriteRecord, Up
<1>2. Fits(rec)'
  BY <1>1, FitsLater DEF LogInv
<1>3. ASSUME Up, clean', Readable(mem) PROVE tail' = Encode(rec) /\ Loads(lines, NoTail, mem)
  <2>1. clean /\ tail = NoTail
    BY <1>1, <1>3
  <2> QED
    BY <1>1, <1>3, <2>1 DEF LogInv, LogHolds, Glue
<1> QED
  BY <1>1, <1>2, <1>3 DEF LogInv, LogHolds

LEMMA LinesBeforeNew ==
    ASSUME NEW R, NEW s \in Seq(R), NEW r \in R
    PROVE  /\ Len(Append(s, r)) > 0 /\ Append(s, r)[Len(Append(s, r))] = r
           /\ SubSeq(Append(s, r), 1, Len(Append(s, r)) - 1) = s
  OBVIOUS

LEMMA LogWriteNewline == ASSUME IInv, LogInv, WriteNewline PROVE LogInv'
<1>1. /\ pc = "newline" /\ pc' = "sync" /\ mem' = mem /\ rec' = rec /\ Up' = Up /\ clean' = clean
      /\ lines' = Append(lines, tail) /\ tail' = NoTail
  BY DEF WriteNewline, ghost, Up
<1>2. Fits(rec)'
  BY <1>1, FitsLater DEF LogInv
<1>3. lines \in Seq(Segment) /\ tail \in Segment
  BY <1>1 DEF IInv, FileOK, CallOK
<1>4. Len(lines') > 0 /\ lines'[Len(lines')] = tail /\ LinesBefore' = lines
  BY <1>1, <1>3, LinesBeforeNew DEF LinesBefore
<1>5. ASSUME Up, clean, Readable(mem) PROVE tail = Encode(rec) /\ Loads(lines, NoTail, mem)
  BY <1>1, <1>5 DEF LogInv, LogHolds
<1>6. Up /\ clean /\ Readable(mem) =>
         /\ lines'[Len(lines')] = Encode(rec') /\ Loads(LinesBefore', NoTail, mem')
  BY <1>1, <1>4, <1>5
<1> QED
  BY <1>1, <1>2, <1>4, <1>6 DEF LogInv, LogHolds

(* A fact that can be read before a write and is not overwritten by it, or by *)
(* a row with the same object, could be read all along.                       *)
LEMMA FitsReadable ==
    ASSUME NEW r, Fits(r), Readable(ApplyRecord(mem, r)) PROVE Readable(mem) /\ Readable(r)
  BY DEF Fits, Readable, ApplyRecord

LEMMA LogSync == ASSUME IInv, LogInv, SyncAndApply PROVE LogInv'
<1>1. /\ pc = "sync" /\ pc' = "idle" /\ mem' = ApplyRecord(mem, rec) /\ Up' = Up /\ clean' = clean
      /\ lines' = lines /\ tail' = tail
  BY DEF SyncAndApply, Acknowledge, Up
<1>2. Fits(rec) /\ rec \in Record /\ lines \in Seq(Segment)
  BY <1>1 DEF LogInv, IInv, CallOK, FileOK
<1>3. ASSUME Up, clean, Readable(mem') PROVE Loads(lines, tail, mem')
  <2>1. Readable(mem) /\ Encode(rec) = rec
    BY <1>1, <1>2, <1>3, FitsReadable DEF Encode
  <2>2. /\ tail = NoTail /\ Len(lines) > 0 /\ lines[Len(lines)] = rec
        /\ Loads(LinesBefore, NoTail, mem)
    BY <1>1, <1>3, <2>1 DEF LogInv, LogHolds
  <2>3. LinesBefore \in Seq(Segment) /\ lines = Append(LinesBefore, rec)
    BY <1>2, <2>2, LastLine DEF LinesBefore
  <2>4. HeaderCell \notin DOMAIN mem => rec = HeaderRecord(Magic)
    BY <1>2 DEF Fits
  <2> QED
    BY <1>1, <1>2, <2>2, <2>3, <2>4, LoadsGrow, DistinctAssumption
<1> QED
  BY <1>1, <1>3 DEF LogInv, LogHolds

(* Behind the header, an interrupted append is left out of what loads. *)
LEMMA GarbledTail ==
    ASSUME NEW ls \in Seq(Segment), NEW t \in {NoTail, Junk}, NEW s, Loads(ls, t, s),
           HeaderCell \in DOMAIN s
    PROVE  Loads(ls, NoTail, s) /\ Loads(ls, Junk, s)
<1>1. Loads(ls, NoTail, s)
  BY LoadsTorn, DistinctAssumption
<1>2. ls # <<>>
  BY <1>1, LoadsNothing, DistinctAssumption
<1> QED
  BY <1>1, <1>2, LoadsTorn, DistinctAssumption

LEMMA LogFails ==
    ASSUME IInv, LogInv, WriteFails \/ NewlineFails \/ SyncFails PROVE LogInv'
<1>1. pc' = "idle" /\ lines' = lines /\ ReturnError
  BY DEF WriteFails, NewlineFails, SyncFails, ReturnError, file
<1>2. ASSUME Up', clean', Readable(mem') PROVE Loads(lines', tail', mem')
  <2>1. WriteFails /\ clean /\ (tail \in Record => tail' = tail) /\ tail' \in {tail, Junk}
    BY <1>2 DEF WriteFails, NewlineFails, SyncFails, PartOfRecord
  <2>2. pc = "write" /\ Up /\ mem' = mem /\ status = "open"
    BY <1>2, <2>1 DEF WriteFails, ReturnError, Up, IInv, CallOK
  <2>3. Loads(lines, tail, mem)
    BY <1>2, <2>1, <2>2 DEF LogInv, LogHolds
  <2>4. lines \in Seq(Segment) /\ tail \in Segment \cup {NoTail} /\ HeaderCell \in DOMAIN mem
    BY <2>2, MemIsWellFormed DEF IInv, FileOK
  <2>5. CASE tail' = tail
    BY <1>1, <2>2, <2>3, <2>5
  <2>6. CASE tail' # tail
    <3>1. tail' = Junk /\ tail \in {NoTail, Junk}
      BY <2>1, <2>4, <2>6 DEF Segment
    <3> QED
      BY <1>1, <2>2, <2>3, <2>4, <3>1, GarbledTail
  <2> QED
    BY <2>5, <2>6
<1> QED
  BY <1>1, <1>2 DEF LogInv, LogHolds

LEMMA LogCompact ==
    ASSUME IInv, LogInv, WriteCompacted \/ RenameCompacted \/ SyncDirectory \/ CompactFails
    PROVE  LogInv'
<1> USE DEF file, ghost
<1>1. CASE WriteCompacted
  BY <1>1, LogCalm DEF WriteCompacted, Up
<1>2. CASE RenameCompacted
  <2>1. /\ pc = "rename" /\ pc' = "syncdir" /\ mem' = mem /\ Up' = Up /\ Up /\ tail' = NoTail
        /\ clean' <=> clean /\ stale = NoFile
        /\ stale = NoFile => stale' = [lines |-> lines, tail |-> tail, synced |-> synced]
    BY <1>2 DEF RenameCompacted, ReplaceFile, Up, IInv, CallOK
  <2>2. Readable(mem) => Loads(lines', tail', mem)
    BY <1>2, <2>1, CompactedFileLoads DEF RenameCompacted
  <2>3. clean /\ Readable(mem) => Loads(lines, tail, mem)
    BY <2>1 DEF LogInv, LogHolds
  <2>4. stale = NoFile => stale'.lines = lines /\ stale'.tail = tail
    BY <2>1
  <2> QED
    BY <2>1, <2>2, <2>3, <2>4 DEF LogInv, LogHolds
<1>3. CASE SyncDirectory
  <2>1. /\ pc = "syncdir" /\ pc' = "idle" /\ mem' = mem /\ lines' = lines /\ tail' = tail
    BY <1>3 DEF SyncDirectory
  <2> QED
    BY <2>1 DEF LogInv, LogHolds
<1>4. CASE CompactFails
  <2>1. /\ pc \in {"rename", "syncdir"} /\ pc' = "idle" /\ mem' = mem /\ lines' = lines
        /\ tail' = tail /\ Up' = Up /\ clean' = clean
    BY <1>4 DEF CompactFails, Up
  <2> QED
    BY <2>1 DEF LogInv, LogHolds
<1> QED
  BY <1>1, <1>2, <1>3, <1>4

LEMMA NextLogInv == IInv /\ LogInv /\ [Next]_vars => LogInv'
<1> SUFFICES ASSUME IInv, LogInv, [Next]_vars PROVE LogInv'
  OBVIOUS
<1>1. CASE Crash \/ PowerLoss
  <2>1. ~Up' /\ pc' = "idle"
    BY <1>1 DEF Crash, PowerLoss, Dead, Up
  <2> QED
    BY <2>1 DEF LogInv
<1>2. CASE Next /\ ~(Crash \/ PowerLoss)
  BY <1>2, LogOpening, WriteFits, LogBegin, LogWriteRecord, LogWriteNewline, LogSync,
     LogFails, LogCompact DEF Next
<1>3. CASE UNCHANGED vars
  BY <1>3 DEF vars, file, call, ghost, LogInv, LogHolds, LinesBefore, Up, Fits, Readable
<1> QED
  BY <1>1, <1>2, <1>3

(* The log and the state in memory agree in every step of every call. *)
THEOREM LogInvariant == Spec => []LogInv
<1> QED
  BY InitLogInv, NextLogInv, Invariant, PTL DEF Spec

(* The log is the source of truth: as long as nothing went wrong that the file *)
(* remembers, a replay of it gives what the process answers reads from.        *)
THEOREM LogIsTheTruth == Spec => []MemoryMatchesLog
<1>1. LogInv => MemoryMatchesLog
  BY DEF LogInv, LogHolds, MemoryMatchesLog, Up
<1> QED
  BY <1>1, LogInvariant, PTL

-----------------------------------------------------------------------------
(* CrashAtomic: what the file loads as after the end of the process, by the *)
(* step of the call the end interrupts.                                     *)

Before(ls, t) == Loads(ls, t, mem)
After(ls, t)  == Loads(ls, t, ApplyRecord(mem, rec))

(* The states of the disk that the end of the process may leave. *)
LEMMA InterruptedFile ==
    ASSUME IInv, LogInv, Up, HeaderCell \in DOMAIN mem, clean, Readable(mem), Readable(rec),
           tail \in Record => pc = "newline"
    PROVE  /\ pc \in {"idle", "write", "rename", "syncdir"} =>
                 tail \in {NoTail, Junk} /\ Before(lines, NoTail) /\ Before(lines, Junk)
           /\ pc = "newline" =>
                 tail = rec /\ Before(lines, NoTail) /\ Before(lines, Junk) /\ After(lines, rec)
           /\ pc = "sync" =>
                 /\ tail = NoTail /\ After(lines, NoTail)
                 /\ LinesBefore \in Seq(Segment) /\ Len(lines) > 0 /\ lines[Len(lines)] = rec
                 /\ Before(LinesBefore, NoTail) /\ Before(LinesBefore, Junk)
                 /\ After(LinesBefore, rec)
<1>1. LogHolds /\ lines \in Seq(Segment) /\ tail \in Segment \cup {NoTail}
  BY DEF LogInv, IInv, FileOK
<1>2. CASE pc \in {"idle", "write", "rename", "syncdir"}
  <2>1. tail \in {NoTail, Junk} /\ Loads(lines, tail, mem)
    BY <1>1, <1>2 DEF LogHolds, Segment
  <2> QED
    BY <1>1, <1>2, <2>1, GarbledTail DEF Before
<1>3. ASSUME pc \in {"newline", "sync"}
      PROVE  rec \in Record /\ Encode(rec) = rec /\ (HeaderCell \notin DOMAIN mem => rec = HeaderRecord(Magic))
  BY <1>3 DEF IInv, CallOK, Encode
<1>4. CASE pc = "newline"
  <2>1. tail = rec /\ Loads(lines, NoTail, mem)
    BY <1>1, <1>3, <1>4 DEF LogHolds
  <2>2. After(lines, rec)
    BY <1>1, <1>3, <1>4, <2>1, LoadsGrow, DistinctAssumption DEF After
  <2> QED
    BY <1>1, <1>4, <2>1, <2>2, GarbledTail DEF Before
<1>5. CASE pc = "sync"
  <2>1. tail = NoTail /\ Len(lines) > 0 /\ lines[Len(lines)] = rec /\ Loads(LinesBefore, NoTail, mem)
    BY <1>1, <1>3, <1>5 DEF LogHolds
  <2>2. LinesBefore \in Seq(Segment) /\ lines = Append(LinesBefore, rec)
    BY <1>1, <2>1, LastLine DEF LinesBefore
  <2>3. After(lines, NoTail) /\ After(LinesBefore, rec)
    BY <1>3, <1>5, <2>1, <2>2, LoadsGrow, DistinctAssumption DEF After
  <2> QED
    BY <1>5, <2>1, <2>2, <2>3, GarbledTail DEF Before
<1> QED
  BY <1>2, <1>4, <1>5 DEF IInv, CallOK

(* An orderly close, an error returned from the open, a crash: the lines of *)
(* the file stay, its tail may be garbled while it is written.              *)
LEMMA CrashLeaves ==
    ASSUME Close \/ WriteFails \/ NewlineFails \/ SyncFails \/ Crash
    PROVE  lines' = lines /\ (tail' = tail \/ (pc = "write" /\ tail' = Junk))
           /\ (Close => pc = "idle")
  BY DEF Close, WriteFails, NewlineFails, SyncFails, Crash, PartOfRecord, file

LEMMA AtomicStop ==
    ASSUME IInv, LogInv, Up, HeaderCell \in DOMAIN mem, clean, Readable(mem), Readable(rec),
           DurableBase, Close \/ WriteFails \/ NewlineFails \/ SyncFails \/ Crash
    PROVE  Before(lines', tail') \/ After(lines', tail')
<1>1. lines' = lines /\ (tail' = tail \/ (pc = "write" /\ tail' = Junk))
  BY CrashLeaves
<1>2. tail \in Record => pc = "newline"
  BY DEF DurableBase
<1>3. pc \in {"idle", "write", "newline", "sync", "rename", "syncdir"}
  BY DEF IInv, CallOK
<1> QED
  BY <1>1, <1>2, <1>3, InterruptedFile

LEMMA AtomicPowerLoss ==
    ASSUME IInv, LogInv, Up, HeaderCell \in DOMAIN mem, clean, Readable(mem), Readable(rec),
           DurableBase, PowerLoss
    PROVE  Before(lines', tail') \/ After(lines', tail')
<1>1. PICK ls \in Seq(Segment), t \in Segment \cup {NoTail} : \E n \in 0..Len(ls) :
        /\ \/ ls = lines /\ n = synced /\ (t = tail \/ (pc = "write" /\ t = Junk))
           \/ stale # NoFile /\ ls = stale.lines /\ t = stale.tail /\ n = stale.synced
        /\ \E i \in n..Len(ls) :
             \E u \in SurvivingTails([lines |-> ls, tail |-> t, synced |-> n], i) :
                lines' = SubSeq(ls, 1, i) /\ tail' = u /\ synced' = i
  BY PowerLossFile
<1>2. PICK n \in 0..Len(ls) :
        /\ \/ ls = lines /\ n = synced /\ (t = tail \/ (pc = "write" /\ t = Junk))
           \/ stale # NoFile /\ ls = stale.lines /\ t = stale.tail /\ n = stale.synced
        /\ \E i \in n..Len(ls) :
             \E u \in SurvivingTails([lines |-> ls, tail |-> t, synced |-> n], i) :
                lines' = SubSeq(ls, 1, i) /\ tail' = u /\ synced' = i
  BY <1>1
<1>3. PICK i \in n..Len(ls) :
        \E u \in SurvivingTails([lines |-> ls, tail |-> t, synced |-> n], i) :
           lines' = SubSeq(ls, 1, i) /\ tail' = u
  BY <1>2
<1>4. /\ i = Len(ls) => lines' = ls /\ tail' \in {t, NoTail, Junk}
      /\ i = Len(ls) /\ t = NoTail => tail' = NoTail
      /\ i # Len(ls) => tail' \in {NoTail, Junk, ls[i + 1]}
  BY <1>3 DEF SurvivingTails
<1>5. Len(ls) \in Nat /\ n \in 0..Len(ls) /\ i \in n..Len(ls)
  OBVIOUS
<1>6. CASE stale # NoFile /\ ls = stale.lines /\ t = stale.tail /\ n = stale.synced
  <2>1. pc = "syncdir" /\ n = Len(ls) /\ t \in {NoTail, Junk}
    BY <1>6 DEF DurableBase, Segment
  <2>2. Loads(ls, t, mem)
    BY <1>6, <2>1 DEF LogInv
  <2>3. Before(ls, NoTail) /\ Before(ls, Junk)
    BY <2>1, <2>2, GarbledTail DEF Before
  <2>4. i = Len(ls)
    BY <1>5, <2>1
  <2> QED
    BY <1>4, <2>1, <2>3, <2>4
<1>7. CASE ls = lines /\ n = synced /\ (t = tail \/ (pc = "write" /\ t = Junk))
  <2> USE InterruptedFile DEF DurableBase
  <2>1. CASE pc # "sync"
    <3>1. i = Len(ls)
      BY <1>5, <1>7, <2>1
    <3>2. pc \in {"idle", "write", "newline", "rename", "syncdir"}
      BY <2>1 DEF IInv, CallOK
    <3> QED
      BY <1>4, <1>7, <3>1, <3>2
  <2>2. CASE pc = "sync"
    <3>1. n = Len(ls) - 1 /\ t = NoTail
      BY <1>7, <2>2
    <3>2. i = Len(ls) \/ i = Len(ls) - 1
      BY <1>5, <3>1
    <3>3. CASE i = Len(ls)
      BY <1>4, <1>7, <2>2, <3>1, <3>3
    <3>4. CASE i = Len(ls) - 1
      <4>1. lines' = LinesBefore /\ tail' \in {NoTail, Junk, lines[Len(lines)]}
        BY <1>3, <1>4, <1>5, <1>7, <3>4 DEF LinesBefore
      <4> QED
        BY <2>2, <4>1
    <3> QED
      BY <3>2, <3>3, <3>4
  <2> QED
    BY <2>1, <2>2
<1> QED
  BY <1>2, <1>6, <1>7

(* Only these steps end the process. *)
LEMMA StopSteps ==
    ASSUME Next, Up, status' = "closed"
    PROVE  Close \/ WriteFails \/ NewlineFails \/ SyncFails \/ Crash \/ PowerLoss
  BY DEF Next, Up, Open, OpenRefused, Down, InitializeSchema, FinishOpen, WriteFact,
         ReplaceFactRow, WriteFactAndIdempotency, AnswerExisting, WriteFactWithEmbedding,
         WriteRegistryEntry, BeginAppend, WriteRecord, WriteNewline, SyncAndApply,
         Acknowledge, WriteCompacted, RenameCompacted, SyncDirectory, CompactFails

(* A crash, a power loss or an error during the open is atomic: the next open *)
(* finds the state before the call in flight or the state after it.           *)
THEOREM CrashesAreAtomic == Spec => CrashAtomic
<1>1. ASSUME IInv, LogInv, [Next]_vars
      PROVE  [ /\ status \in {"init", "open"} /\ status' = "closed"
               /\ HeaderCell \in DOMAIN mem
               /\ clean /\ Readable(mem) /\ Readable(rec) /\ DurableBase
               => \/ Loads(lines', tail', mem)
                  \/ Loads(lines', tail', ApplyRecord(mem, rec)) ]_vars
  <2> SUFFICES ASSUME Next, Up, status' = "closed", HeaderCell \in DOMAIN mem,
                      clean, Readable(mem), Readable(rec), DurableBase
               PROVE  Before(lines', tail') \/ After(lines', tail')
    BY <1>1 DEF Up, Before, After
  <2> QED
    BY <1>1, StopSteps, AtomicStop, AtomicPowerLoss
<1> QED
  BY <1>1, Invariant, LogInvariant, PTL DEF Spec, CrashAtomic

-----------------------------------------------------------------------------
(* A call begins with a key only if memory does not have it, and memory has  *)
(* every acknowledged one (CoverInv).                                        *)
KeyInv ==
    pc \in {"write", "newline", "sync"} =>
        \A k \in IdemKeys : IdemCell(k) \in DOMAIN rec => IdemCell(k) \notin DOMAIN acked

LEMMA KeysOfFits ==
    ASSUME IInv, LogInv, CoverInv PROVE KeyInv
<1>1. ASSUME pc \in {"write", "newline", "sync"} PROVE Up /\ Fits(rec)
  BY <1>1 DEF LogInv, IInv, CallOK, Up
<1> QED
  BY <1>1 DEF KeyInv, Fits, CoverInv, Covers

(* Two acknowledged writes never share an idempotency key. *)
THEOREM KeysKeepFacts == Spec => KeyKeepsItsFact
<1>1. ASSUME KeyInv, [Next]_vars
      PROVE  [ \A k \in StoredKeys(acked) : acked'[IdemCell(k)] = acked[IdemCell(k)] ]_vars
  <2>1. CASE SyncAndApply
    BY <1>1, <2>1 DEF KeyInv, SyncAndApply, Acknowledge, ApplyRecord, StoredKeys
  <2>2. CASE ~SyncAndApply
    <3>1. acked' = acked
      BY <1>1, <2>2 DEF Next, vars, file, call, ghost, Open, OpenRefused, InitializeSchema,
         FinishOpen, WriteFact, ReplaceFactRow, WriteFactAndIdempotency, AnswerExisting,
         WriteFactWithEmbedding, WriteRegistryEntry, BeginAppend, WriteRecord, WriteNewline,
         WriteFails, NewlineFails, SyncFails, WriteCompacted, RenameCompacted, SyncDirectory,
         CompactFails, Close, Crash, PowerLoss, Dead
    <3> QED
      BY <3>1
  <2> QED
    BY <2>1, <2>2
<1>2. Spec => []KeyInv
  BY KeysOfFits, Invariant, LogInvariant, CoverInvariant, PTL
<1> QED
  BY <1>1, <1>2, PTL DEF Spec, KeyKeepsItsFact

-----------------------------------------------------------------------------
(* EmbeddingsRebuild.  Without I/O errors every embedding on the disk is also *)
(* in memory, or in the record in flight, so the check of its length against  *)
(* the embeddings in memory is a check against all that a later open may see. *)

Holds(r, d) == r \in Record /\ d \in StoredDims(r)
LinesHold(ls, d) == \E i \in DOMAIN ls : Holds(ls[i], d)
FileHolds(ls, t, d) == LinesHold(ls, d) \/ Holds(t, d)
DiskHolds(d) ==
    \/ FileHolds(lines, tail, d)
    \/ stale # NoFile /\ FileHolds(stale.lines, stale.tail, d)
ProcessHolds(d) ==
    \/ d \in StoredDims(mem)
    \/ pc \in {"write", "newline", "sync"} /\ d \in StoredDims(rec)

(* A file that loads has the embeddings of the file it may be replaced by. *)
DimsInv ==
    /\ \A d, e : DiskHolds(d) /\ DiskHolds(e) => d = e
    /\ Up => /\ \A d : DiskHolds(d) => ProcessHolds(d)
             /\ \A d, e : ProcessHolds(d) /\ ProcessHolds(e) => d = e
    /\ stale # NoFile /\ lines \in Seq(Record) =>
          \A d : FileHolds(stale.lines, stale.tail, d) => LinesHold(lines, d)

LEMMA StoredDimsOf ==
    ASSUME NEW s, NEW d
    PROVE  d \in StoredDims(s) <=> \E f \in FactIds : EmbeddingCell(f) \in DOMAIN s /\ d = s[EmbeddingCell(f)]
  BY DEF StoredDims

(* A replay has the embedding lengths of its records, if there is but one. *)
LEMMA ReplayDims ==
    ASSUME NEW recs \in Seq(Record), \A d, e : LinesHold(recs, d) /\ LinesHold(recs, e) => d = e
    PROVE  \A d : d \in StoredDims(Replay(recs)) <=> LinesHold(recs, d)
<1> DEFINE s == Replay(recs)
<1>1. /\ \A c : c \in DOMAIN s <=> \E i \in DOMAIN recs : c \in DOMAIN recs[i]
      /\ \A c \in DOMAIN s : \E i \in DOMAIN recs : c \in DOMAIN recs[i] /\ s[c] = recs[i][c]
      /\ \A i \in DOMAIN recs : recs[i] \in Record
  BY ReplayCells
<1> HIDE DEF s
<1>2. ASSUME NEW f \in FactIds, EmbeddingCell(f) \in DOMAIN s
      PROVE  LinesHold(recs, s[EmbeddingCell(f)])
  <2>1. PICK i \in DOMAIN recs :
          EmbeddingCell(f) \in DOMAIN recs[i] /\ s[EmbeddingCell(f)] = recs[i][EmbeddingCell(f)]
    BY <1>1, <1>2
  <2> QED
    BY <1>1, <2>1, StoredDimsOf DEF LinesHold, Holds
<1>3. ASSUME NEW d, LinesHold(recs, d) PROVE d \in StoredDims(s)
  <2>1. PICK i \in DOMAIN recs : d \in StoredDims(recs[i])
    BY <1>3 DEF LinesHold, Holds
  <2>2. PICK f \in FactIds : EmbeddingCell(f) \in DOMAIN recs[i]
    BY <2>1, StoredDimsOf
  <2>3. EmbeddingCell(f) \in DOMAIN s
    BY <1>1, <2>2
  <2>4. s[EmbeddingCell(f)] = d
    BY <1>2, <1>3, <2>3
  <2> QED
    BY <2>3, <2>4, StoredDimsOf
<1>4. \A d : d \in StoredDims(s) <=> LinesHold(recs, d)
  BY <1>2, <1>3, StoredDimsOf
<1> QED
  BY <1>4 DEF s

LEMMA AppendedHolds ==
    ASSUME NEW R, NEW ls \in Seq(R), NEW r
    PROVE  \A d : LinesHold(Append(ls, r), d) <=> LinesHold(ls, d) \/ Holds(r, d)
<1>1. /\ DOMAIN Append(ls, r) = 1..(Len(ls) + 1) /\ DOMAIN ls = 1..Len(ls) /\ Len(ls) \in Nat
      /\ Append(ls, r)[Len(ls) + 1] = r /\ \A i \in 1..Len(ls) : Append(ls, r)[i] = ls[i]
  OBVIOUS
<1> DEFINE longer == Append(ls, r)
<1> HIDE DEF longer
<1>2. ASSUME NEW d, LinesHold(longer, d) PROVE LinesHold(ls, d) \/ Holds(r, d)
  BY <1>1, <1>2 DEF LinesHold, longer
<1>3. ASSUME NEW d, LinesHold(ls, d) \/ Holds(r, d) PROVE LinesHold(longer, d)
  <2>1. CASE LinesHold(ls, d)
    BY <1>1, <2>1 DEF LinesHold, longer
  <2>2. CASE Holds(r, d)
    <3>1. Len(ls) + 1 \in DOMAIN longer /\ longer[Len(ls) + 1] = r
      BY <1>1 DEF longer
    <3> QED
      BY <2>2, <3>1 DEF LinesHold
  <2> QED
    BY <1>3, <2>1, <2>2
<1> QED
  BY <1>2, <1>3 DEF longer

(* What an open reads back: the embeddings of the file, or of none. *)
LEMMA LoadDims ==
    ASSUME IInv, DimsInv, Load(lines, tail).result = "ok"
    PROVE  \A d : d \in StoredDims(Load(lines, tail).state) <=> FileHolds(lines, tail, d)
<1>1. lines \in Seq(Segment) /\ tail \in Segment \cup {NoTail}
  BY DEF IInv, FileOK
<1>2. \A d, e : FileHolds(lines, tail, d) /\ FileHolds(lines, tail, e) => d = e
  BY DEF DimsInv, DiskHolds
<1>3. ASSUME NEW recs \in Seq(Record), Load(lines, tail).state = Replay(recs),
             \A d : LinesHold(recs, d) <=> FileHolds(lines, tail, d)
      PROVE  \A d : d \in StoredDims(Load(lines, tail).state) <=> FileHolds(lines, tail, d)
  BY <1>2, <1>3, ReplayDims
<1>4. CASE Sound(lines) /\ tail = Junk /\ Load(lines, tail).state = Replay(lines)
  <2>1. \A d : LinesHold(lines, d) <=> FileHolds(lines, tail, d)
    BY <1>4, DistinctAssumption DEF FileHolds, Holds
  <2> QED
    BY <1>3, <1>4, <2>1 DEF Sound
<1>5. CASE Sound(Segments(lines, tail)) /\ Load(lines, tail).state = Replay(Segments(lines, tail))
  <2>1. CASE tail = NoTail
    <3>1. \A d : LinesHold(lines, d) <=> FileHolds(lines, tail, d)
      BY <2>1, DistinctAssumption DEF FileHolds, Holds
    <3> QED
      BY <1>3, <1>5, <2>1, <3>1 DEF Sound, Segments
  <2>2. CASE tail # NoTail
    <3>1. Segments(lines, tail) = Append(lines, tail)
      BY <2>2 DEF Segments
    <3>2. \A d : LinesHold(Append(lines, tail), d) <=> FileHolds(lines, tail, d)
      BY <1>1, AppendedHolds DEF FileHolds
    <3> QED
      BY <1>3, <1>5, <3>1, <3>2 DEF Sound
  <2> QED
    BY <2>1, <2>2
<1> QED
  BY <1>1, <1>4, <1>5, LoadOk, DistinctAssumption

LEMMA AtMostOneDim ==
    ASSUME NEW S, \A d, e \in S : d = e PROVE Cardinality(S) <= 1
<1>1. CASE S = {}
  BY <1>1, FS_EmptySet
<1>2. CASE S # {}
  <2>1. PICK x : S = {x}
    BY <1>2
  <2> QED
    BY <2>1, FS_Singleton
<1> QED
  BY <1>1, <1>2

LEMMA LoadRefused ==
    ASSUME IInv, Load(lines, tail).result # "ok" PROVE Load(lines, tail).state = EmptyState
<1>1. lines \in Seq(Segment) /\ tail \in Segment \cup {NoTail}
  BY DEF IInv, FileOK
<1>2. BadSegments(lines, tail) \in SUBSET Nat
  BY <1>1 DEF BadSegments, Segments
<1>3. BadSegments(lines, tail) # {}
  BY LoadFine, LoadResult
<1>4. PICK i \in BadSegments(lines, tail) :
        Load(lines, tail) =
          IF Verdict(Segments(lines, tail), tail # NoTail, i) = "torn tail"
            THEN [result |-> "ok", state |-> Replay(lines)]
            ELSE [result |-> Verdict(Segments(lines, tail), tail # NoTail, i),
                  state |-> EmptyState]
  BY <1>2, <1>3, LoadProblem
<1>5. Load(lines, tail) = [result |-> Verdict(Segments(lines, tail), tail # NoTail, i),
                           state |-> EmptyState]
  <2>1. Load(lines, tail) = [result |-> "ok", state |-> Replay(lines)]
          => Load(lines, tail).result = "ok"
    BY LoadResult, Zenon
  <2> QED
    BY <1>4, <2>1, Zenon
<1> QED
  BY <1>5, LoadResult, Zenon

-----------------------------------------------------------------------------
LEMMA InitDimsInv == Init => DimsInv
<1> SUFFICES ASSUME Init PROVE DimsInv
  OBVIOUS
<1>1. ~\E d : DiskHolds(d)
  BY DistinctAssumption DEF Init, DiskHolds, FileHolds, LinesHold, Holds
<1> QED
  BY <1>1 DEF Init, DimsInv, Up

(* What the process holds bounds what the disk does, so while one runs the  *)
(* lengths on the disk need no argument of their own.                       *)
LEMMA DimsWhileUp ==
    ASSUME \A d : DiskHolds(d) => ProcessHolds(d),
           \A d, e : ProcessHolds(d) /\ ProcessHolds(e) => d = e,
           stale # NoFile /\ lines \in Seq(Record) =>
               \A d : FileHolds(stale.lines, stale.tail, d) => LinesHold(lines, d)
    PROVE  DimsInv
  BY DEF DimsInv

(* Steps that add nothing to the disk. *)
LEMMA DimsDown ==
    ASSUME DimsInv, ~Up', \A d : DiskHolds(d)' => DiskHolds(d),
           stale' = NoFile \/ (lines' = lines /\ stale' = stale)
    PROVE  DimsInv'
<1>1. \A d, e : DiskHolds(d)' /\ DiskHolds(e)' => d = e
  BY DEF DimsInv
<1>2. stale' # NoFile /\ lines' \in Seq(Record) =>
        \A d : FileHolds(stale'.lines, stale'.tail, d) => LinesHold(lines', d)
  BY DEF DimsInv
<1> QED
  BY <1>1, <1>2 DEF DimsInv

LEMMA DimsOpening ==
    ASSUME IInv, DimsInv, Open \/ OpenRefused \/ FinishOpen \/ AnswerExisting \/ Close
    PROVE  DimsInv'
<1> USE DEF file, call, ghost
<1>1. /\ lines' = lines /\ tail' = tail /\ stale' = stale /\ pc' = pc /\ rec' = rec /\ pc = "idle"
  BY DEF IInv, CallOK, Open, OpenRefused, FinishOpen, AnswerExisting, Close, Down
<1>2. \A d : DiskHolds(d)' <=> DiskHolds(d)
  BY <1>1 DEF DiskHolds
<1>3. stale' # NoFile /\ lines' \in Seq(Record) =>
        \A d : FileHolds(stale'.lines, stale'.tail, d) => LinesHold(lines', d)
  BY <1>1 DEF DimsInv
<1>4. CASE Open
  <2>1. Load(lines, tail).result = "ok" /\ mem' = Load(lines, tail).state
    BY <1>4 DEF Open
  <2>2. \A d : d \in StoredDims(mem') <=> FileHolds(lines, tail, d)
    BY <2>1, LoadDims
  <2>3. lines \in Seq(Record)
    <3>1. Sound(lines) \/ (Sound(Segments(lines, tail)) /\ lines \in Seq(Segment))
      BY <2>1, LoadOk, DistinctAssumption DEF IInv, FileOK
    <3> QED
      BY <3>1, AppendedTypes DEF Sound, Segments
  <2>4. \A d : DiskHolds(d) => FileHolds(lines, tail, d)
    BY <2>3 DEF DimsInv, DiskHolds, FileHolds
  <2>5. \A d : ProcessHolds(d)' <=> FileHolds(lines, tail, d)
    BY <1>1, <2>2 DEF ProcessHolds
  <2>6. \A d, e : FileHolds(lines, tail, d) /\ FileHolds(lines, tail, e) => d = e
    BY DEF DimsInv, DiskHolds
  <2> QED
    BY <1>1, <1>2, <1>3, <2>4, <2>5, <2>6 DEF DimsInv
<1>5. CASE OpenRefused \/ Close
  BY <1>1, <1>2, <1>5, DimsDown DEF OpenRefused, Close, Up
<1>6. CASE FinishOpen \/ AnswerExisting
  <2>1. Up' => Up /\ mem' = mem
    BY <1>6 DEF FinishOpen, AnswerExisting, Up
  <2>2. Up' => \A d : ProcessHolds(d)' <=> ProcessHolds(d)
    BY <1>1, <2>1 DEF ProcessHolds
  <2> QED
    BY <1>2, <1>3, <2>1, <2>2 DEF DimsInv
<1> QED
  BY <1>4, <1>5, <1>6

(* The length of a new embedding is the one all embeddings in memory have. *)
LEMMA RowDims ==
    ASSUME NEW f \in FactIds, NEW row
    PROVE  /\ \A x : x \notin StoredDims(FactRecord(f, row))
           /\ \A k \in IdemKeys : \A x : x \notin StoredDims(FactIdemRecord(f, row, k))
           /\ \A d \in Dims : \A x : x \in StoredDims(FactEmbeddingRecord(f, row, d)) => x = d
<1>1. \A g, k : EmbeddingCell(g) \notin {FactCell(f), IdemCell(k)}
  BY CellsDiffer
<1>2. \A g : EmbeddingCell(g) \notin DOMAIN FactRecord(f, row)
  BY <1>1 DEF FactRecord, Write
<1>3. \A g, k : EmbeddingCell(g) \notin DOMAIN FactIdemRecord(f, row, k)
  BY <1>1 DEF FactIdemRecord, FactRecord, ApplyRecord, Write
<1>4. \A g, d : EmbeddingCell(g) \in DOMAIN FactEmbeddingRecord(f, row, d) =>
                  FactEmbeddingRecord(f, row, d)[EmbeddingCell(g)] = d
  BY <1>1, CellsDiffer DEF FactEmbeddingRecord, FactRecord, ApplyRecord, Write
<1> QED
  BY <1>2, <1>3, <1>4, StoredDimsOf

LEMMA WriteDims ==
    ASSUME IInv,
           \/ InitializeSchema \/ WriteFact \/ ReplaceFactRow \/ WriteFactAndIdempotency
           \/ WriteFactWithEmbedding \/ WriteRegistryEntry
    PROVE  \E r : /\ BeginAppend(r) /\ (status = "open" \/ status = "init")
                  /\ \A d \in StoredDims(r), e \in StoredDims(r) \cup StoredDims(mem) : d = e
<1>1. CASE InitializeSchema
  <2>1. \A d : d \notin StoredDims(HeaderRecord(Magic)) /\ d \notin StoredDims(SchemaRecord(SchemaVersion))
    BY CellsDiffer, StoredDimsOf DEF HeaderRecord, SchemaRecord, Write
  <2> QED
    BY <1>1, <2>1 DEF InitializeSchema
<1>2. CASE WriteFact
  BY <1>2, RowDims DEF WriteFact
<1>3. CASE ReplaceFactRow
  <2>1. PICK f \in StoredFacts(mem) :
           /\ status = "open"
           /\ BeginAppend(FactRecord(f, [mem[FactCell(f)] EXCEPT !.ended = TRUE]))
    BY <1>3 DEF ReplaceFactRow
  <2>2. f \in FactIds
    BY DEF StoredFacts
  <2> DEFINE row == [mem[FactCell(f)] EXCEPT !.ended = TRUE]
  <2>3. status = "open" /\ BeginAppend(FactRecord(f, row))
    BY <2>1
  <2> HIDE DEF row
  <2> QED
    BY <2>2, <2>3, RowDims
<1>4. CASE WriteFactAndIdempotency
  BY <1>4, RowDims DEF WriteFactAndIdempotency
<1>5. CASE WriteFactWithEmbedding
  <2>1. PICK f \in FactIds, d \in Dims, o \in Objects :
           /\ status = "open" /\ StoredDims(mem) \subseteq {d}
           /\ BeginAppend(FactEmbeddingRecord(f, [object |-> o, ended |-> FALSE], d))
    BY <1>5 DEF WriteFactWithEmbedding
  <2> QED
    BY <2>1, RowDims
<1>6. CASE WriteRegistryEntry
  <2>1. PICK p \in RegistryKeys, e \in RegistryValues :
           status = "open" /\ BeginAppend(RegistryRecord(p, e))
    BY <1>6 DEF WriteRegistryEntry
  <2>2. \A d : d \notin StoredDims(RegistryRecord(p, e))
    <3>1. \A g : EmbeddingCell(g) # RegistryCell(p)
      BY CellsDiffer
    <3>2. DOMAIN RegistryRecord(p, e) = {RegistryCell(p)}
      BY DEF RegistryRecord, Write
    <3> QED
      BY <3>1, <3>2, StoredDimsOf
  <2> QED
    BY <2>1, <2>2
<1> QED
  BY <1>1, <1>2, <1>3, <1>4, <1>5, <1>6

LEMMA DimsBegin ==
    ASSUME IInv, DimsInv, NEW r, BeginAppend(r), status = "open" \/ status = "init",
           \A d \in StoredDims(r), e \in StoredDims(r) \cup StoredDims(mem) : d = e
    PROVE  DimsInv'
<1>1. /\ pc = "idle" /\ rec' = r /\ mem' = mem /\ lines' = lines /\ tail' = tail /\ stale' = stale
      /\ Up
  BY DEF BeginAppend, file, ghost, Up
<1>2. \A d : DiskHolds(d)' => d \in StoredDims(mem)
  BY <1>1 DEF DimsInv, DiskHolds, ProcessHolds
<1>3. \A d : ProcessHolds(d)' => d \in StoredDims(mem) \/ d \in StoredDims(r)
  BY <1>1 DEF ProcessHolds
<1>4. \A d, e : d \in StoredDims(mem) /\ e \in StoredDims(mem) => d = e
  BY <1>1 DEF DimsInv, ProcessHolds
<1>5. \A d : DiskHolds(d)' => ProcessHolds(d)'
  BY <1>1, <1>2 DEF ProcessHolds
<1>6. \A d, e : ProcessHolds(d)' /\ ProcessHolds(e)' => d = e
  BY <1>3, <1>4
<1>7. stale' # NoFile /\ lines' \in Seq(Record) =>
        \A d : FileHolds(stale'.lines, stale'.tail, d) => LinesHold(lines', d)
  BY <1>1 DEF DimsInv
<1> QED
  BY <1>5, <1>6, <1>7 DEF DimsInv

LEMMA DimsAppend ==
    ASSUME IInv, DimsInv, WriteRecord \/ WriteNewline PROVE DimsInv'
<1>1. /\ Up /\ mem' = mem /\ rec' = rec /\ stale' = stale
      /\ pc \in {"write", "newline"} /\ pc' \in {"newline", "sync"}
  BY DEF IInv, CallOK, WriteRecord, WriteNewline, ghost, Up
<1>2. \A d : ProcessHolds(d)' <=> ProcessHolds(d)
  BY <1>1 DEF ProcessHolds
<1>3. lines \in Seq(Segment) /\ tail \in Segment \cup {NoTail}
  BY DEF IInv, FileOK
<1>4. /\ \A d : FileHolds(lines', tail', d) => ProcessHolds(d)
      /\ lines' \in Seq(Record) => lines \in Seq(Record)
      /\ \A d : LinesHold(lines, d) => LinesHold(lines', d)
  <2>1. CASE WriteRecord
    <3>1. lines' = lines /\ tail' \in {rec, Junk}
      BY <2>1 DEF WriteRecord, Glue, Encode
    <3>2. \A d : Holds(tail', d) => ProcessHolds(d)
      BY <1>1, <3>1, DistinctAssumption DEF Holds, ProcessHolds
    <3>3. \A d : LinesHold(lines, d) => ProcessHolds(d)
      BY <1>1 DEF DimsInv, DiskHolds, FileHolds
    <3> QED
      BY <3>1, <3>2, <3>3 DEF FileHolds
  <2>2. CASE WriteNewline
    <3>1. lines' = Append(lines, tail) /\ tail' = NoTail
      BY <2>2 DEF WriteNewline
    <3>2. \A d : LinesHold(lines', d) <=> LinesHold(lines, d) \/ Holds(tail, d)
      BY <1>3, <3>1, AppendedHolds
    <3>3. \A d : ~Holds(tail', d)
      BY <3>1, DistinctAssumption DEF Holds
    <3>4. \A d : FileHolds(lines, tail, d) => ProcessHolds(d)
      BY <1>1 DEF DimsInv, DiskHolds
    <3>5. lines' \in Seq(Record) => lines \in Seq(Record)
      BY <1>3, <3>1, AppendedTypes
    <3> QED
      BY <3>2, <3>3, <3>4, <3>5 DEF FileHolds
  <2> QED
    BY <2>1, <2>2
<1>5. \A d : DiskHolds(d)' => ProcessHolds(d)'
  BY <1>1, <1>2, <1>4 DEF DimsInv, DiskHolds
<1>6. \A d, e : ProcessHolds(d)' /\ ProcessHolds(e)' => d = e
  BY <1>1, <1>2 DEF DimsInv
<1>7. stale' # NoFile /\ lines' \in Seq(Record) =>
        \A d : FileHolds(stale'.lines, stale'.tail, d) => LinesHold(lines', d)
  BY <1>1, <1>4 DEF DimsInv
<1> QED
  BY <1>5, <1>6, <1>7 DEF DimsInv

LEMMA DimsSync == ASSUME IInv, DimsInv, SyncAndApply PROVE DimsInv'
<1>1. /\ pc = "sync" /\ pc' = "idle" /\ mem' = ApplyRecord(mem, rec) /\ Up
      /\ lines' = lines /\ tail' = tail /\ stale' = NoFile
  BY DEF SyncAndApply, Acknowledge, Up, IInv, CallOK
<1>2. \A d, e : ProcessHolds(d) /\ ProcessHolds(e) => d = e
  BY <1>1 DEF DimsInv
<1>3. ASSUME NEW f \in FactIds, EmbeddingCell(f) \in DOMAIN mem'
      PROVE  ProcessHolds(mem'[EmbeddingCell(f)])
  <2>1. \/ EmbeddingCell(f) \in DOMAIN rec /\ mem'[EmbeddingCell(f)] = rec[EmbeddingCell(f)]
        \/ EmbeddingCell(f) \in DOMAIN mem /\ mem'[EmbeddingCell(f)] = mem[EmbeddingCell(f)]
    BY <1>1, <1>3 DEF ApplyRecord
  <2> QED
    BY <1>1, <2>1, StoredDimsOf DEF ProcessHolds
<1>4. ASSUME NEW d, ProcessHolds(d) PROVE d \in StoredDims(mem')
  <2>1. PICK f \in FactIds : EmbeddingCell(f) \in DOMAIN mem \cup DOMAIN rec
    BY <1>4, StoredDimsOf DEF ProcessHolds
  <2>2. EmbeddingCell(f) \in DOMAIN mem'
    BY <1>1, <2>1 DEF ApplyRecord
  <2>3. mem'[EmbeddingCell(f)] = d
    BY <1>2, <1>3, <1>4, <2>2
  <2> QED
    BY <2>2, <2>3, StoredDimsOf
<1>5. \A d : ProcessHolds(d)' <=> ProcessHolds(d)
  <2>1. \A d : ProcessHolds(d)' <=> d \in StoredDims(mem')
    BY <1>1 DEF ProcessHolds
  <2> QED
    BY <1>3, <1>4, <2>1, StoredDimsOf
<1>6. \A d : DiskHolds(d)' => ProcessHolds(d)
  BY <1>1 DEF DimsInv, DiskHolds
<1> QED
  BY <1>1, <1>2, <1>5, <1>6 DEF DimsInv

LEMMA DimsCompact ==
    ASSUME IInv, DimsInv, WriteCompacted \/ RenameCompacted \/ SyncDirectory \/ CompactFails
    PROVE  DimsInv'
<1> USE DEF file, ghost
<1>1. /\ mem' = mem /\ rec' = rec /\ Up
      /\ pc \in {"idle", "rename", "syncdir"} /\ pc' \in {"idle", "rename", "syncdir"}
  BY DEF WriteCompacted, RenameCompacted, SyncDirectory, CompactFails, Up, IInv, CallOK
<1>2. /\ \A d : ProcessHolds(d) <=> d \in StoredDims(mem)
      /\ \A d : ProcessHolds(d)' <=> d \in StoredDims(mem)
  BY <1>1 DEF ProcessHolds
<1>3. /\ \A d : DiskHolds(d) => d \in StoredDims(mem)
      /\ \A d, e : d \in StoredDims(mem) /\ e \in StoredDims(mem) => d = e
  BY <1>1, <1>2 DEF DimsInv
<1>4. CASE RenameCompacted
  <2> DEFINE C == CompactionRecords(mem)
  <2>1. /\ C \in Seq(Record) /\ Replay(C) = mem
    BY <1>4, Compacted DEF RenameCompacted
  <2>2. /\ lines' = [i \in DOMAIN C |-> Encode(C[i])] /\ tail' = NoTail
        /\ \/ stale' = [lines |-> lines, tail |-> tail, synced |-> synced]
           \/ stale # NoFile /\ stale' = stale
    BY <1>4 DEF RenameCompacted, ReplaceFile
  <2> DEFINE m == mem
  <2>3. /\ \A c : c \in DOMAIN m <=> \E i \in DOMAIN C : c \in DOMAIN C[i]
        /\ \A i \in DOMAIN C : C[i] \in Record
    BY <2>1, ReplayCells
  <2>4. \A i \in DOMAIN C : PartOf(C[i], mem)
    <3>1. Elements(C) = {HeaderRecord(Magic), SchemaRecord(SchemaVersion)}
                        \cup RegistryRecords(mem) \cup FactRecords(mem) \cup KeyRecords(mem)
      BY <1>4, Compacted, CompactionElements DEF RenameCompacted
    <3>2. \A r \in Elements(C) : PartOf(r, mem)
      BY <1>4, <3>1, Compacted, CompactedRecordsArePart DEF RenameCompacted
    <3> HIDE DEF C
    <3> QED
      BY <3>2 DEF Elements
  <2> HIDE DEF C
  <2>5. ASSUME NEW d, FileHolds(lines', tail', d) PROVE d \in StoredDims(mem)
    <3>1. ~Holds(tail', d)
      BY <2>2, DistinctAssumption DEF Holds
    <3>2. PICK i \in DOMAIN C : Holds(Encode(C[i]), d)
      BY <2>2, <2>5, <3>1 DEF FileHolds, LinesHold
    <3>3. Encode(C[i]) = C[i] /\ d \in StoredDims(C[i])
      BY <3>2, DistinctAssumption DEF Holds, Encode
    <3> QED
      BY <2>4, <3>3, StoredDimsOf DEF PartOf
  <2>6. ASSUME lines' \in Seq(Record), NEW d, d \in StoredDims(mem) PROVE LinesHold(lines', d)
    <3>1. PICK f \in FactIds : EmbeddingCell(f) \in DOMAIN mem /\ d = mem[EmbeddingCell(f)]
      BY <2>6, StoredDimsOf
    <3>2. PICK i \in DOMAIN C : EmbeddingCell(f) \in DOMAIN C[i]
      BY <2>3, <3>1
    <3>3. i \in DOMAIN lines' /\ lines'[i] = Encode(C[i])
      BY <2>2
    <3>4. lines'[i] = C[i] /\ C[i] \in Record
      BY <2>3, <2>6, <3>3, DistinctAssumption DEF Encode
    <3>5. d \in StoredDims(C[i])
      BY <2>4, <3>1, <3>2, StoredDimsOf DEF PartOf
    <3> QED
      BY <3>3, <3>4, <3>5 DEF LinesHold, Holds
  <2>7. \A d : FileHolds(stale'.lines, stale'.tail, d) => DiskHolds(d)
    BY <2>2 DEF DiskHolds
  <2>8. \A d : FileHolds(stale'.lines, stale'.tail, d) => d \in StoredDims(mem)
    BY <1>3, <2>7
  <2>9. \A d : DiskHolds(d)' => d \in StoredDims(mem)
    BY <2>5, <2>8 DEF DiskHolds
  <2>10. lines' \in Seq(Record) => \A d : FileHolds(stale'.lines, stale'.tail, d) => LinesHold(lines', d)
    BY <2>6, <2>8
  <2> QED
    BY <1>2, <1>3, <2>9, <2>10 DEF DimsInv
<1>5. CASE WriteCompacted \/ SyncDirectory \/ CompactFails
  <2>1. lines' = lines /\ tail' = tail /\ stale' \in {stale, NoFile}
    BY <1>5 DEF WriteCompacted, SyncDirectory, CompactFails
  <2>2. \A d : DiskHolds(d)' => DiskHolds(d)
    BY <2>1 DEF DiskHolds
  <2> QED
    BY <1>2, <1>3, <2>1, <2>2 DEF DimsInv
<1> QED
  BY <1>4, <1>5

LEMMA NextIndex == ASSUME NEW n \in Nat, NEW i \in 0..n, i # n PROVE i + 1 \in 1..n
  OBVIOUS

LEMMA PrefixHolds ==
    ASSUME NEW ls \in Seq(Segment), NEW t, NEW i \in 0..Len(ls),
           NEW n, NEW u \in SurvivingTails([lines |-> ls, tail |-> t, synced |-> n], i)
    PROVE  \A d : FileHolds(SubSeq(ls, 1, i), u, d) => FileHolds(ls, t, d)
<1>1. /\ DOMAIN SubSeq(ls, 1, i) = 1..i /\ DOMAIN ls = 1..Len(ls) /\ Len(ls) \in Nat
      /\ \A j \in 1..i : SubSeq(ls, 1, i)[j] = ls[j] /\ j \in 1..Len(ls)
  OBVIOUS
<1>2. \A d : LinesHold(SubSeq(ls, 1, i), d) => LinesHold(ls, d)
  BY <1>1 DEF LinesHold
<1>3. ASSUME NEW d, Holds(u, d) PROVE FileHolds(ls, t, d)
  <2>1. u \notin {NoTail, Junk}
    BY <1>3, DistinctAssumption DEF Holds
  <2>2. u = t \/ (i # Len(ls) /\ u = ls[i + 1])
    BY <2>1 DEF SurvivingTails
  <2>3. i # Len(ls) => i + 1 \in DOMAIN ls
    BY <1>1, NextIndex
  <2> QED
    BY <1>3, <2>2, <2>3 DEF FileHolds, LinesHold
<1> QED
  BY <1>2, <1>3 DEF FileHolds

LEMMA DimsEnd ==
    ASSUME IInv, DimsInv, Crash \/ PowerLoss PROVE DimsInv'
<1>1. ~Up'
  BY DEF Crash, PowerLoss, Dead, Up
<1>2. CASE Crash
  <2>1. lines' = lines /\ stale' = stale /\ tail' \in {tail, Junk}
    BY <1>2 DEF Crash, PartOfRecord
  <2>2. \A d : Holds(tail', d) => Holds(tail, d)
    BY <2>1, DistinctAssumption DEF Holds
  <2>3. \A d : DiskHolds(d)' => DiskHolds(d)
    BY <2>1, <2>2 DEF DiskHolds, FileHolds
  <2> QED
    BY <1>1, <2>1, <2>3, DimsDown
<1>3. CASE PowerLoss
  <2>1. PICK ls \in Seq(Segment), t \in Segment \cup {NoTail} : \E n \in 0..Len(ls) :
          /\ \/ ls = lines /\ n = synced /\ (t = tail \/ (pc = "write" /\ t = Junk))
             \/ stale # NoFile /\ ls = stale.lines /\ t = stale.tail /\ n = stale.synced
          /\ \E i \in n..Len(ls) :
               \E u \in SurvivingTails([lines |-> ls, tail |-> t, synced |-> n], i) :
                  lines' = SubSeq(ls, 1, i) /\ tail' = u /\ synced' = i
    BY <1>3, PowerLossFile
  <2>2. \A d : FileHolds(ls, t, d) => DiskHolds(d)
    BY <2>1, DistinctAssumption DEF DiskHolds, FileHolds, Holds
  <2>3. \A d : FileHolds(lines', tail', d) => FileHolds(ls, t, d)
    <3>1. PICK n \in 0..Len(ls) :
            \E i \in n..Len(ls) :
              \E u \in SurvivingTails([lines |-> ls, tail |-> t, synced |-> n], i) :
                 lines' = SubSeq(ls, 1, i) /\ tail' = u
      BY <2>1
    <3>2. PICK i \in n..Len(ls) :
            \E u \in SurvivingTails([lines |-> ls, tail |-> t, synced |-> n], i) :
               lines' = SubSeq(ls, 1, i) /\ tail' = u
      BY <3>1
    <3>3. i \in 0..Len(ls)
      OBVIOUS
    <3> QED
      BY <3>2, <3>3, PrefixHolds
  <2>4. stale' = NoFile
    BY <1>3 DEF PowerLoss
  <2>5. \A d : DiskHolds(d)' => DiskHolds(d)
    BY <2>2, <2>3, <2>4 DEF DiskHolds
  <2> QED
    BY <1>1, <2>4, <2>5, DimsDown
<1> QED
  BY <1>2, <1>3

LEMMA NextDimsInv ==
    ASSUME "io" \notin Faults PROVE IInv /\ DimsInv /\ [Next]_vars => DimsInv'
<1> SUFFICES ASSUME IInv, DimsInv, [Next]_vars PROVE DimsInv'
  OBVIOUS
<1>1. ~(WriteFails \/ NewlineFails \/ SyncFails)
  BY DEF WriteFails, NewlineFails, SyncFails, ReturnError
<1>2. CASE Next
  BY <1>1, <1>2, DimsOpening, WriteDims, DimsBegin, DimsAppend, DimsSync, DimsCompact,
     DimsEnd DEF Next
<1>3. CASE UNCHANGED vars
  BY <1>3 DEF vars, file, call, ghost, DimsInv, DiskHolds, ProcessHolds, Up
<1> QED
  BY <1>2, <1>3

(* Without I/O errors the vector index can be rebuilt from whatever file the *)
(* disk is left with: crashes and power losses never mix embedding lengths.  *)
THEOREM IndexCanBeRebuilt ==
    ASSUME "io" \notin Faults PROVE Spec => []EmbeddingsRebuild
<1>1. ASSUME IInv, DimsInv PROVE EmbeddingsRebuild
  <2> DEFINE S == StoredDims(Load(lines, tail).state)
  <2>1. \A d, e \in S : d = e
    <3>1. CASE Load(lines, tail).result = "ok"
      BY <1>1, <3>1, LoadDims DEF DimsInv, DiskHolds
    <3>2. CASE Load(lines, tail).result # "ok"
      BY <1>1, <3>2, LoadRefused, ReplayNone, StoredDimsOf
    <3> QED
      BY <3>1, <3>2
  <2> HIDE DEF S
  <2>2. Cardinality(S) <= 1
    BY <2>1, AtMostOneDim
  <2> QED
    BY <2>2 DEF EmbeddingsRebuild, S
<1> QED
  BY <1>1, InitDimsInv, NextDimsInv, Invariant, PTL DEF Spec

-----------------------------------------------------------------------------
(* The log implements the abstract store.  No step of the file shows in it:   *)
(* a write is in force when its sync succeeds, and an open gives back what    *)
(* covers the acknowledged cells, however the file got to be what it is.      *)

(* The operators on records are the same in both. *)
LEMMA SameCells ==
    /\ Store!HeaderCell = HeaderCell /\ Store!SchemaCell = SchemaCell
    /\ \A x : /\ Store!FactCell(x) = FactCell(x) /\ Store!IdemCell(x) = IdemCell(x)
              /\ Store!EmbeddingCell(x) = EmbeddingCell(x) /\ Store!RegistryCell(x) = RegistryCell(x)
    /\ Store!Magic = Magic /\ Store!SchemaVersion = SchemaVersion /\ Store!Row = Row
    /\ \A x, y : Store!Write(x, y) = Write(x, y) /\ Store!ApplyRecord(x, y) = ApplyRecord(x, y)
    /\ Store!EmptyState = EmptyState /\ Store!UnknownRecord = UnknownRecord
  BY DEF Store!HeaderCell, HeaderCell, Store!SchemaCell, SchemaCell, Store!FactCell, FactCell,
         Store!IdemCell, IdemCell, Store!EmbeddingCell, EmbeddingCell, Store!RegistryCell,
         RegistryCell, Store!Magic, Magic, Store!SchemaVersion, SchemaVersion, Store!Row, Row,
         Store!Write, Write, Store!ApplyRecord, ApplyRecord, Store!EmptyState, EmptyState,
         Store!UnknownRecord, UnknownRecord

LEMMA SameRecords ==
    /\ Store!HeaderRecord(Magic) = HeaderRecord(Magic)
    /\ Store!SchemaRecord(SchemaVersion) = SchemaRecord(SchemaVersion)
    /\ \A f, row : Store!FactRecord(f, row) = FactRecord(f, row)
    /\ Store!Record = Record
<1>1. \A x, y : Store!RegistryRecord(x, y) = RegistryRecord(x, y)
  BY SameCells DEF Store!RegistryRecord, RegistryRecord
<1>2. \A x : Store!HeaderRecord(x) = HeaderRecord(x) /\ Store!SchemaRecord(x) = SchemaRecord(x)
  BY SameCells DEF Store!HeaderRecord, HeaderRecord, Store!SchemaRecord, SchemaRecord
<1>3. \A f, row : Store!FactRecord(f, row) = FactRecord(f, row)
  BY SameCells DEF Store!FactRecord, FactRecord
<1>4. \A f, row, x : /\ Store!FactIdemRecord(f, row, x) = FactIdemRecord(f, row, x)
                     /\ Store!FactEmbeddingRecord(f, row, x) = FactEmbeddingRecord(f, row, x)
  BY <1>3, SameCells DEF Store!FactIdemRecord, FactIdemRecord, Store!FactEmbeddingRecord, FactEmbeddingRecord
<1>5. Store!Record = Record
  BY <1>1, <1>2, <1>3, <1>4, SameCells DEF Store!Record, Record
<1> QED
  BY <1>2, <1>3, <1>5

LEMMA SameReads ==
    \A s : /\ Store!StoredFacts(s) = StoredFacts(s) /\ Store!StoredKeys(s) = StoredKeys(s)
           /\ Store!StoredDims(s) = StoredDims(s) /\ Store!Compactable(s) = Compactable(s)
<1>1. \A s : Store!StoredFacts(s) = StoredFacts(s) /\ Store!StoredKeys(s) = StoredKeys(s)
  BY SameCells DEF Store!StoredFacts, StoredFacts, Store!StoredKeys, StoredKeys
<1>2. \A s : Store!StoredDims(s) = StoredDims(s)
  BY SameCells DEF Store!StoredDims, StoredDims
<1>3. \A s : Store!Compactable(s) = Compactable(s)
  BY <1>1, SameCells DEF Store!Compactable, Compactable
<1> QED
  BY <1>1, <1>2, <1>3

LEMMA SameCardinality == \A S : Store!Cardinality(S) = Cardinality(S)
  BY DEF Store!Cardinality, Cardinality

(* A call that begins, begins with a record of this version that the store *)
(* takes: while the file is being opened only the header and the schema.   *)
StoreTakes(r) ==
    /\ r \in Record /\ Store!Fits(r)
    /\ status = "open" \/ (status = "init" /\ r \in {HeaderRecord(Magic), SchemaRecord(SchemaVersion)})

LEMMA FitsNewCells ==
    ASSUME NEW r,
           \A f \in FactIds : FactCell(f) \in DOMAIN r => FactCell(f) \notin DOMAIN mem,
           \A k \in IdemKeys : IdemCell(k) \in DOMAIN r => IdemCell(k) \notin DOMAIN mem,
           StoredDims(r) # {} => StoredDims(mem) \subseteq StoredDims(r)
    PROVE  Store!Fits(r)
<1>1. StoredFacts(r) \cap StoredFacts(mem) = {} /\ StoredKeys(r) \cap StoredKeys(mem) = {}
  BY DEF StoredFacts, StoredKeys
<1> QED
  BY <1>1, SameReads DEF Store!Fits

LEMMA WriteTaken ==
    ASSUME IInv,
           \/ InitializeSchema \/ WriteFact \/ ReplaceFactRow \/ WriteFactAndIdempotency
           \/ WriteFactWithEmbedding \/ WriteRegistryEntry
    PROVE  \E r : BeginAppend(r) /\ StoreTakes(r)
<1>1. CASE InitializeSchema
  <2>1. HeaderRecord(Magic) \in Record /\ SchemaRecord(SchemaVersion) \in Record
    BY DEF Record
  <2>2. Store!Fits(HeaderRecord(Magic)) /\ Store!Fits(SchemaRecord(SchemaVersion))
    <3>1. \A x : x \notin StoredDims(HeaderRecord(Magic)) /\ x \notin StoredDims(SchemaRecord(SchemaVersion))
      BY CellsDiffer, StoredDimsOf DEF HeaderRecord, SchemaRecord, Write
    <3>2. \A f : /\ FactCell(f) \notin DOMAIN HeaderRecord(Magic) /\ IdemCell(f) \notin DOMAIN HeaderRecord(Magic)
                 /\ FactCell(f) \notin DOMAIN SchemaRecord(SchemaVersion)
                 /\ IdemCell(f) \notin DOMAIN SchemaRecord(SchemaVersion)
      BY CellsDiffer DEF HeaderRecord, SchemaRecord, Write
    <3> QED
      BY <3>1, <3>2, FitsNewCells
  <2> QED
    BY <1>1, <2>1, <2>2 DEF InitializeSchema, StoreTakes
<1>2. CASE WriteFact
  <2>1. PICK f \in FactIds, o \in Objects :
           /\ status = "open" /\ Unused(f)
           /\ BeginAppend(FactRecord(f, [object |-> o, ended |-> FALSE]))
    BY <1>2 DEF WriteFact
  <2> DEFINE r == FactRecord(f, [object |-> o, ended |-> FALSE])
  <2>2. r \in Record /\ DOMAIN r = {FactCell(f)} /\ \A x : x \notin StoredDims(r)
    BY NewRow, RecordsOfRow, RowDims DEF FactRecord, Write
  <2>3. BeginAppend(r) /\ FactCell(f) \notin DOMAIN mem
    BY <2>1 DEF Unused
  <2> HIDE DEF r
  <2>4. Store!Fits(r)
    BY <2>2, <2>3, CellsDiffer, FitsNewCells
  <2> QED
    BY <2>1, <2>2, <2>3, <2>4 DEF StoreTakes
<1>3. CASE ReplaceFactRow
  <2>1. PICK f \in StoredFacts(mem) :
           /\ status = "open"
           /\ BeginAppend(FactRecord(f, [mem[FactCell(f)] EXCEPT !.ended = TRUE]))
    BY <1>3 DEF ReplaceFactRow
  <2> DEFINE row == [mem[FactCell(f)] EXCEPT !.ended = TRUE]
             r == FactRecord(f, row)
  <2>2. f \in FactIds /\ r \in Record
    BY EndedRow DEF StoredFacts
  <2>3. BeginAppend(r) /\ r = FactRecord(f, [mem[FactCell(f)] EXCEPT !.ended = TRUE])
    BY <2>1
  <2>4. DOMAIN r = {FactCell(f)} /\ \A x : x \notin StoredDims(r)
    <3> HIDE DEF row
    <3> QED
      BY <2>2, RowDims DEF FactRecord, Write
  <2> HIDE DEF row, r
  <2>5. \A g \in StoredFacts(r) : g = f
    BY <2>4, CellsDiffer DEF StoredFacts
  <2>6. StoredKeys(r) = {} /\ StoredDims(r) = {}
    BY <2>4, CellsDiffer DEF StoredKeys
  <2>7. \A g \in StoredFacts(r) \cap StoredFacts(mem) :
           r = FactRecord(g, [mem[FactCell(g)] EXCEPT !.ended = TRUE])
    BY <2>3, <2>5
  <2>8. Store!Fits(r)
    BY <2>6, <2>7, SameReads, SameRecords, SameCells DEF Store!Fits
  <2> QED
    BY <2>1, <2>2, <2>3, <2>8 DEF StoreTakes
<1>4. CASE WriteFactAndIdempotency
  <2>1. PICK f \in FactIds, k \in IdemKeys, o \in Objects :
           /\ status = "open" /\ Unused(f) /\ IdemCell(k) \notin DOMAIN mem
           /\ BeginAppend(FactIdemRecord(f, [object |-> o, ended |-> FALSE], k))
    BY <1>4 DEF WriteFactAndIdempotency
  <2> DEFINE row == [object |-> o, ended |-> FALSE]
             r == FactIdemRecord(f, row, k)
  <2>2. r \in Record /\ DOMAIN r = {FactCell(f), IdemCell(k)} /\ \A x : x \notin StoredDims(r)
    <3>1. row \in Row
      BY NewRow
    <3> HIDE DEF row
    <3>2. r \in Record
      BY <3>1, RecordsOfRow
    <3>3. DOMAIN r = {FactCell(f), IdemCell(k)}
      BY DEF FactIdemRecord, FactRecord, ApplyRecord, Write
    <3>4. \A x : x \notin StoredDims(r)
      BY RowDims
    <3> QED
      BY <3>2, <3>3, <3>4
  <2>3. BeginAppend(r) /\ FactCell(f) \notin DOMAIN mem
    BY <2>1 DEF Unused
  <2> HIDE DEF r
  <2>4. Store!Fits(r)
    BY <2>1, <2>2, <2>3, CellsDiffer, FitsNewCells
  <2> QED
    BY <2>1, <2>2, <2>3, <2>4 DEF StoreTakes
<1>5. CASE WriteFactWithEmbedding
  <2>1. PICK f \in FactIds, d \in Dims, o \in Objects :
           /\ status = "open" /\ Unused(f) /\ StoredDims(mem) \subseteq {d}
           /\ BeginAppend(FactEmbeddingRecord(f, [object |-> o, ended |-> FALSE], d))
    BY <1>5 DEF WriteFactWithEmbedding
  <2> DEFINE row == [object |-> o, ended |-> FALSE]
             r == FactEmbeddingRecord(f, row, d)
  <2>2. r \in Record /\ DOMAIN r = {FactCell(f), EmbeddingCell(f)} /\ \A x : x \in StoredDims(r) => x = d
    <3>1. row \in Row
      BY NewRow
    <3> HIDE DEF row
    <3>2. r \in Record
      BY <3>1, RecordsOfRow
    <3>3. DOMAIN r = {FactCell(f), EmbeddingCell(f)}
      BY DEF FactEmbeddingRecord, FactRecord, ApplyRecord, Write
    <3>4. \A x : x \in StoredDims(r) => x = d
      BY RowDims
    <3> QED
      BY <3>2, <3>3, <3>4
  <2>3. BeginAppend(r) /\ FactCell(f) \notin DOMAIN mem
    BY <2>1 DEF Unused
  <2> HIDE DEF r
  <2>4. StoredDims(r) # {} => StoredDims(mem) \subseteq StoredDims(r)
    BY <2>1, <2>2
  <2>5. Store!Fits(r)
    BY <2>2, <2>3, <2>4, CellsDiffer, FitsNewCells
  <2> QED
    BY <2>1, <2>2, <2>3, <2>5 DEF StoreTakes
<1>6. CASE WriteRegistryEntry
  <2>1. PICK p \in RegistryKeys, e \in RegistryValues :
           status = "open" /\ BeginAppend(RegistryRecord(p, e))
    BY <1>6 DEF WriteRegistryEntry
  <2> DEFINE r == RegistryRecord(p, e)
  <2>2. r \in Record /\ DOMAIN r = {RegistryCell(p)}
    BY DEF RegistryRecord, Write, Record
  <2>3. BeginAppend(r)
    BY <2>1
  <2> HIDE DEF r
  <2>4. \A x : x \notin StoredDims(r)
    BY <2>2, CellsDiffer, StoredDimsOf
  <2>5. Store!Fits(r)
    BY <2>2, <2>4, CellsDiffer, FitsNewCells
  <2> QED
    BY <2>1, <2>2, <2>3, <2>5 DEF StoreTakes
<1> QED
  BY <1>1, <1>2, <1>3, <1>4, <1>5, <1>6

(* A record is in hand only from the start of its append to its end, a state *)
(* only while the process lives.                                             *)
NoCallInv ==
    /\ pc \notin {"write", "newline", "sync"} => rec = UnknownRecord
    /\ Down => mem = EmptyState

LEMMA NextNoCallInv == IInv /\ NoCallInv /\ [Next]_vars => NoCallInv'
<1> SUFFICES ASSUME IInv, NoCallInv, [Next]_vars PROVE NoCallInv'
  OBVIOUS
<1> USE DEF NoCallInv, Down
<1>1. CASE \/ InitializeSchema \/ WriteFact \/ ReplaceFactRow \/ WriteFactAndIdempotency
           \/ WriteFactWithEmbedding \/ WriteRegistryEntry
  BY <1>1, WriteBegins DEF BeginAppend, ghost
<1>2. CASE \/ Open \/ OpenRefused \/ FinishOpen \/ AnswerExisting \/ Close
  BY <1>2 DEF Open, OpenRefused, FinishOpen, AnswerExisting, Close, call
<1>3. CASE WriteRecord \/ WriteNewline \/ SyncAndApply
  <2>1. ~Down
    BY <1>3 DEF WriteRecord, WriteNewline, SyncAndApply, IInv, CallOK
  <2> QED
    BY <1>3, <2>1 DEF WriteRecord, WriteNewline, SyncAndApply, Acknowledge
<1>4. CASE WriteFails \/ NewlineFails \/ SyncFails \/ Crash \/ PowerLoss
  BY <1>4 DEF WriteFails, NewlineFails, SyncFails, ReturnError, Crash, PowerLoss, Dead
<1>5. CASE WriteCompacted \/ RenameCompacted \/ SyncDirectory \/ CompactFails
  BY <1>5 DEF WriteCompacted, RenameCompacted, SyncDirectory, CompactFails
<1>6. CASE UNCHANGED vars
  BY <1>6 DEF vars, call
<1> QED
  BY <1>1, <1>2, <1>3, <1>4, <1>5, <1>6 DEF Next

StoreInv == IInv /\ CoverInv /\ NoCallInv

LEMMA StoreOpens ==
    ASSUME StoreInv, Open PROVE Store!Open
<1>1. /\ status \in {"closed", "refused"} /\ status' = "init" /\ mem' = Load(lines, tail).state
      /\ UNCHANGED <<call, acked, doubt>>
  BY DEF Open, Down
<1>2. Covers(mem', acked, doubt) /\ Compactable(mem')
  <2>1. Doubtful = doubt
    BY <1>1 DEF StoreInv, IInv, CallOK, Doubtful, InFlight
  <2> QED
    BY <1>1, <2>1, LoadCovers, BuiltLoad, BuiltWellFormed DEF StoreInv, IInv, Open
<1>3. Store!Recovers(mem', acked, doubt) /\ Store!Compactable(mem')
  BY <1>2, SameReads DEF Covers, Store!Recovers
<1> QED
  BY <1>1, <1>3 DEF Store!Open, call

LEMMA StoreServes ==
    ASSUME StoreInv, FinishOpen PROVE Store!Serve \/ Store!Stop
<1>1. /\ status = "init" /\ rec = UnknownRecord /\ {HeaderCell, SchemaCell} \subseteq DOMAIN mem
      /\ UNCHANGED <<call, acked, doubt>>
  BY DEF FinishOpen, ghost, StoreInv, NoCallInv
<1>2. CASE Cardinality(StoredDims(mem)) <= 1
  <2>1. status' = "open" /\ mem' = mem
    BY <1>2 DEF FinishOpen
  <2> QED
    BY <1>1, <1>2, <2>1, SameReads, SameCells, SameCardinality DEF Store!Serve, Store!NoCall, call
<1>3. CASE ~(Cardinality(StoredDims(mem)) <= 1)
  <2>1. status' = "refused" /\ mem' = EmptyState
    BY <1>3 DEF FinishOpen
  <2> QED
    BY <1>1, <2>1, SameCells DEF Store!Stop, Store!InDoubt, Store!NoCall, call
<1> QED
  BY <1>2, <1>3

LEMMA StoreBegins ==
    ASSUME StoreInv, NEW r, BeginAppend(r), StoreTakes(r) PROVE Store!Begin
<1>1. /\ rec = UnknownRecord /\ rec' = r /\ status' = status
      /\ UNCHANGED <<mem, acked, doubt>>
  BY DEF BeginAppend, ghost, StoreInv, NoCallInv
<1> QED
  BY <1>1, SameRecords, SameCells DEF Store!Begin, Store!NoCall, StoreTakes

(* A record is never empty, so a call in hand shows. *)
LEMMA RecordNotEmpty ==
    ASSUME NEW r \in Record PROVE r # UnknownRecord
<1> USE DEF Write
<1>1. \E c : c \in DOMAIN r
  <2>1. ASSUME NEW c, NEW v PROVE c \in DOMAIN Write(c, v)
    OBVIOUS
  <2>2. ASSUME NEW c, NEW v, NEW q PROVE c \in DOMAIN ApplyRecord(Write(c, v), q)
    BY <2>1 DEF ApplyRecord
  <2> HIDE DEF Write
  <2>3. CASE r \in {HeaderRecord(Magic), SchemaRecord(SchemaVersion)}
    BY <2>1, <2>3 DEF HeaderRecord, SchemaRecord
  <2>4. CASE \E p, e : r = RegistryRecord(p, e)
    BY <2>1, <2>4 DEF RegistryRecord
  <2>5. CASE \E f, row : r = FactRecord(f, row)
    BY <2>1, <2>5 DEF FactRecord
  <2>6. CASE \E f, row, x : r = FactIdemRecord(f, row, x) \/ r = FactEmbeddingRecord(f, row, x)
    BY <2>2, <2>6 DEF FactIdemRecord, FactEmbeddingRecord, FactRecord
  <2> QED
    BY <2>3, <2>4, <2>5, <2>6 DEF Record
<1>2. DOMAIN UnknownRecord = {}
  BY DEF UnknownRecord
<1> QED
  BY <1>1, <1>2

LEMMA StoreSucceeds ==
    ASSUME StoreInv, SyncAndApply PROVE Store!Succeed
<1>1. /\ rec # UnknownRecord /\ rec' = UnknownRecord /\ status' = status
      /\ mem' = ApplyRecord(mem, rec) /\ acked' = ApplyRecord(acked, rec)
      /\ doubt' = {p \in doubt : p[1] \notin DOMAIN rec}
  BY RecordNotEmpty DEF SyncAndApply, Acknowledge, StoreInv, IInv, CallOK
<1> QED
  BY <1>1, SameCells DEF Store!Succeed, Store!NoCall

LEMMA DoubtGrows ==
    ASSUME InDoubt PROVE Store!InDoubt
  BY DEF InDoubt, Store!InDoubt

LEMMA StoreFails ==
    ASSUME StoreInv, WriteFails \/ NewlineFails \/ SyncFails PROVE Store!Fail \/ Store!Stop
<1>1. /\ pc \in {"write", "newline", "sync"} /\ ReturnError /\ InDoubt /\ acked' = acked
  BY DEF WriteFails, NewlineFails, SyncFails
<1>2. rec # UnknownRecord /\ status \in {"init", "open"} /\ rec' = UnknownRecord
  BY <1>1, RecordNotEmpty DEF ReturnError, StoreInv, IInv, CallOK
<1>3. CASE status = "init"
  <2>1. status' = "closed" /\ mem' = EmptyState
    BY <1>1, <1>3 DEF ReturnError
  <2> QED
    BY <1>1, <1>2, <1>3, <2>1, SameCells, DoubtGrows DEF Store!Stop, Store!NoCall
<1>4. CASE status = "open"
  <2>1. status' = status /\ mem' = mem
    BY <1>1, <1>4 DEF ReturnError
  <2> QED
    BY <1>1, <1>2, <1>4, <2>1, SameCells, DoubtGrows DEF Store!Fail, Store!NoCall
<1> QED
  BY <1>2, <1>3, <1>4

LEMMA StoreStops ==
    ASSUME StoreInv, Close \/ Crash \/ PowerLoss PROVE Store!Stop \/ UNCHANGED Store!vars
<1>1. status' = "closed" /\ mem' = EmptyState /\ rec' = UnknownRecord /\ acked' = acked
  BY DEF Close, Crash, PowerLoss, Dead, call, ghost, StoreInv, NoCallInv
<1>2. Store!InDoubt
  BY DoubtGrows DEF Close, Crash, PowerLoss, Dead, ghost, Store!InDoubt
<1>3. CASE status \in {"init", "open"}
  BY <1>1, <1>2, <1>3, SameCells DEF Store!Stop, Store!NoCall
<1>4. CASE status \notin {"init", "open"}
  <2>1. /\ status \in {"closed", "refused"} /\ pc = "idle" /\ mem = EmptyState
        /\ rec = UnknownRecord
    BY <1>4 DEF StoreInv, IInv, CallOK, NoCallInv, Down
  <2>2. doubt' = doubt
    BY <2>1 DEF Close, Crash, PowerLoss, Dead, InDoubt, UnknownRecord, ghost
  <2> QED
    BY <1>1, <2>1, <2>2 DEF Store!vars
<1> QED
  BY <1>3, <1>4

(* Every step of the log is a step of the store or changes nothing of it. *)
LEMMA NextStore == StoreInv /\ [Next]_vars => [Store!Next]_Store!vars
<1> SUFFICES ASSUME StoreInv, [Next]_vars PROVE Store!Next \/ UNCHANGED Store!vars
  OBVIOUS
<1>1. CASE \/ InitializeSchema \/ WriteFact \/ ReplaceFactRow \/ WriteFactAndIdempotency
           \/ WriteFactWithEmbedding \/ WriteRegistryEntry
  <2>1. \E r : BeginAppend(r) /\ StoreTakes(r)
    BY <1>1, WriteTaken DEF StoreInv
  <2> QED
    BY <2>1, StoreBegins DEF Store!Next
<1>2. CASE Open
  BY <1>2, StoreOpens DEF Store!Next
<1>3. CASE FinishOpen
  BY <1>3, StoreServes DEF Store!Next
<1>4. CASE SyncAndApply
  BY <1>4, StoreSucceeds DEF Store!Next
<1>5. CASE WriteFails \/ NewlineFails \/ SyncFails
  BY <1>5, StoreFails DEF Store!Next
<1>6. CASE Close \/ Crash \/ PowerLoss
  BY <1>6, StoreStops DEF Store!Next
<1>7. CASE OpenRefused
  <2>1. status \in {"closed", "refused"} /\ status' = "refused"
    BY <1>7 DEF OpenRefused, Down
  <2> QED
    BY <1>7, <2>1 DEF OpenRefused, Store!vars, call, ghost
<1>8. CASE \/ AnswerExisting \/ WriteRecord \/ WriteNewline \/ WriteCompacted
           \/ RenameCompacted \/ SyncDirectory \/ CompactFails
  BY <1>8 DEF AnswerExisting, WriteRecord, WriteNewline, WriteCompacted, RenameCompacted,
              SyncDirectory, CompactFails, Store!vars, call, ghost
<1>9. CASE UNCHANGED vars
  BY <1>9 DEF vars, Store!vars, call, ghost
<1> QED
  BY <1>1, <1>2, <1>3, <1>4, <1>5, <1>6, <1>7, <1>8, <1>9 DEF Next

(* For every set of faults, torn tails, partial writes, power losses and       *)
(* compactions never show: what the code above the log sees is one map of      *)
(* cells, in which a record is in force when its write succeeded, may or may   *)
(* not be there when it failed, and nothing else ever is.                      *)
THEOREM LogImplementsStore == Spec => ImplementsStore
<1>1. Init => NoCallInv
  BY DEF Init, NoCallInv
<1>2. Spec => []NoCallInv
  BY <1>1, NextNoCallInv, Invariant, PTL DEF Spec
<1>3. Init => Store!Init
  BY SameCells DEF Init, Store!Init, Store!NoCall
<1>4. IInv /\ CoverInv /\ NoCallInv /\ [Next]_vars => [Store!Next]_Store!vars
  BY NextStore DEF StoreInv
<1>5. Spec => Store!Init /\ [][Store!Next]_Store!vars
  BY <1>2, <1>3, <1>4, Invariant, CoverInvariant, PTL DEF Spec
<1> QED
  BY <1>5 DEF ImplementsStore, Store!Spec
====
