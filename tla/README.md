# A verification model of Kronroe

Kronroe is an embedded bi-temporal fact store written in Rust. This directory holds TLA+
modules of its core, the TLC instances that check them and proofs, checked by TLAPS, of the
properties that matter most. The reference is the source; paths below are relative to
`src/crates/core/src/` unless they say otherwise.

    tlc -workers 2 -config AppendLog.cfg MCAppendLog     # model-check one instance
    tlc -workers 2 -config McpServer.cfg MCMcpServer     # this one also evaluates KernelChecks
    tlapm AppendLog_proofs.tla                           # check the proofs of a module

## 1. The system

| component | state | operations | talks to |
|---|---|---|---|
| Append log (`storage_append_log.rs`) | the log file; `AppendLogState` behind one mutex | open, `initialize_schema`, `write_*`, `replace_fact_row`, `compact`, the reads | file system |
| Write lock (same file) | set of open paths of the process; lock file and its flock | acquire, drop | kernel |
| Derived indexes (same file) | maps by fact id and by (subject, predicate), version chains | `apply_fact_upsert`, replay, `facts_at`, `current_facts` | part of the state above |
| Storage facade (`storage.rs`) | none | forwards; counts rows for an observer | append log |
| FactId (`fact_id.rs`) | process-wide generator behind a mutex | `try_new`, text encoding | clock, entropy |
| TemporalGraph (`temporal_graph.rs`) | caches: vector index, contradiction detector, uncertainty engine, a mutex each | `assert_fact*`, `invalidate_fact`, `correct_fact`, `register_*`, queries, searches | storage, caches |
| Contradiction (`contradiction.rs`) | predicate registry | `register`, `check_against`, pairwise detection | TemporalGraph |
| Vector index (`vector.rs`) | entries, dimension | `insert`, `search` | TemporalGraph |
| Uncertainty, lexical, hybrid (`uncertainty.rs`, `lexical.rs`, `hybrid.rs`) | two registries; none; none | pure scoring | TemporalGraph |
| JSON (`json_read.rs`, `json_write.rs`), time, errors | none | pure | everything |
| AgentMemory (`src/crates/agent-memory`) | a graph | `open`, `assert*`, `remember`, `recall*`, `what_changed`, `memory_health`, `recall_for_task` | TemporalGraph |
| MCP server (`src/crates/mcp-server`) | an AgentMemory, the read position in its input | single-threaded request loop, 11 tools | AgentMemory, a client over two pipes |
| C and JNI bindings (ios, android) with their Swift and Kotlin classes | handle, closed flag, error cell per thread | open, close, the methods | TemporalGraph |
| Python, WebAssembly | a handle | argument conversions | AgentMemory |
| docs-api, site, scripts, benchmarks | none of the database's | | |

A `TemporalGraph` is used from many threads through shared references. Each storage operation
takes the state mutex for its whole duration (append, sync and update of memory included); a
graph operation is one or several of them, followed by the update of a cache under another
mutex. The file has one writer, by the write lock.

What is hard here, and what each component must guarantee:

* **Append log.** A write is bytes, newline, sync, memory update; an I/O error, the death of the
  process or a power loss can come between any two. Acknowledged records must survive; a failed or
  interrupted write must be all or nothing; recovery, compaction and index rebuild must produce the
  state that was there; a fact and its idempotency key must never part.
* **Write lock.** Two processes and two threads race for open and drop; a process dies holding the
  lock. At most one writer; nobody locked out by leftovers.
* **Derived indexes.** Facts arrive in any order of valid time, are replaced with rows read
  earlier, are rewritten by compaction. The indexes must be those of the facts, `facts_at` exact,
  history kept.
* **FactId.** Threads, a clock that stands still or goes back, a sequence that fills up. Ids new,
  ordered by time of issue, and every call returns.
* **TemporalGraph.** Multi-step calls of concurrent clients, errors and restarts in the middle.
  Idempotency per key, no contradictions under `Reject`, caches that follow the store.
* **Recall.** A call is a loop over growing batches, a hybrid one takes several locks; other
  threads write in between. No fact returned that was never current during the call, none that
  passes the filter skipped or returned twice, and an end.
* **AgentMemory.** Opens cut short between two registrations, clocks read before the write they
  stamp, reports put together from several reads. Policies of callers kept, polls that miss
  nothing, corrections paired, contradictions reported.
* **MCP server.** Frames that cannot be delimited, hangups in mid-frame, calls of two writes of
  which one fails, kills and retries. Success means stored; a retry completes what was
  left undone and does not repeat what succeeded; order.
* **Bindings.** The error of a call is fetched by another call; a graph may be closed by the
  program, the finalizer and under a running method.
* **Pure algorithms.** Calendar, ids, JSON text, edit distance, ranking, overlap, argument
  checks: boundaries that examples do not reach.

`PROJECT.json` lists these hazards line by line, with the properties that watch them.

## 2. The modules

| module | models | used by |
|---|---|---|
| `LogRecords` | record kinds, replay, recovery (`Load`), `CompactionRecords` | `AppendLog` |
| `DurableStore` | what the log promises: abstract specification | `AppendLog` |
| `AppendLog` | one process, its file, faults, compaction | `MCAppendLog` |
| `WriteLock` | `AppendLogWriteGuard`, its two guards and their drop | `MCWriteLock` |
| `FactIndex` | indexes, version chains, `facts_at`, replay | `MCFactIndex` |
| `TemporalGraph` | the write API, clients step by step | `MCTemporalGraph` |
| `FactIdGen` | `FactId::try_new` | `MCFactIdGen` |
| `Ranking` | fusion, the two-stage reranker, validity, effective confidence (operators) | `Recall`, `KernelChecks` |
| `Recall` | the recall family, `search_hybrid`, `search_by_vector` against writers | `MCRecall` |
| `Contradictions` | overlap, severity, resolution, detection (operators) | `AgentMemory`, `KernelChecks` |
| `AgentBriefs` | the ranked actions the MCP server makes of a report (operators) | `AgentMemory`, `KernelChecks` |
| `AgentMemory` | opening, write calls, reports | `MCAgentMemory` |
| `McpTools` | arguments the eleven tools accept, and their schemas (operators) | `McpServer`, `KernelChecks` |
| `RequestService` | what the server promises: abstract specification | `McpServer` |
| `McpServer` | framing, dispatch, the writes of a call, process deaths | `MCMcpServer` |
| `Bindings` | handles, strings, error cells, closing | `MCBindings` |
| `BindingArguments` | arguments of Python, WebAssembly and C (operators) | `KernelChecks` |
| `TimeAndErrors`, `FactIdText`, `JsonText`, `Lexical`, `FactData` | pure code of the core (operators) | `KernelChecks` |
| `KernelChecks` | what the operators above must compute, as assumptions | `MCMcpServer` |
| `*_proofs` | the proofs of section 4 | |

`MC...` modules instantiate for TLC; the `.cfg` files choose constants and properties. Operators
marked *Mutant* in the modules are faulty variants of the definition that follows them. Each
property of a passing run is violated when its mutant takes the definition's place, which is how
we know that the property can fail.

### LogRecords and AppendLog

A logical state (`AppendLogState` without its indexes) is a function from *cells* to values: one
cell per map entry (`FactCell(f)`, `IdemCell(k)`, ...). A record is the function of the cells it
overwrites, so `apply_record` is one operator and "latest record wins" is `Replay`. The three
registries are one set of keys. `Load` is `load_state_from_path`: its verdict on each segment, in
the order of the code's checks, and the three outcomes (state, mismatch, corruption).

The file is `lines` (newline-terminated, each a record or `Junk`) and `tail` (bytes behind the last
newline). `synced` lines are durable; `stale` is the old file the directory may still name between
a compaction's rename and the directory sync. If that sync fails and a second compaction renames on
top of the first, the name may lead to either older file, so `ReplaceFile` keeps any one of the two,
and `clean` falls. A call takes the state mutex by setting `pc`; then
`WriteRecord`, `WriteNewline`, `SyncAndApply` follow `write_record_line` and
`append_record_to_path`. `WriteFails`, `NewlineFails`, `SyncFails` and `CompactFails` are their
error returns, with any part of the bytes written; `Crash` and `PowerLoss` can strike at every
step. `Glue` is what appending behind an unterminated tail does. The ghosts `acked`, `doubt`,
`answered` and `clean` record what callers were told and never guard a step of the program, except
that `Unused` reads `acked` and `doubt` for what `FactId::new` guarantees.

The file system is a journaling one: a successful `sync_all` makes the file's entry durable too; a
power loss keeps at least the synced lines and any prefix of the rest. `Open` reads the file while
nothing else writes it, which `WriteLock` is about.

`DurableStore` is what the code above the log may rely on, with no file in it: one map of cells and
the writes whose outcome is unknown. `Begin`, `Succeed` and `Fail` are a write, its success and its
error; a stop, clean or not, leaves the record in flight in doubt; an open gives back a map in which
every acknowledged cell has its value or that of a doubted record, and which holds nothing besides.
`Store` in AppendLog is its refinement mapping: the abstract memory is `mem`, the record of the call
under way is the write in flight, `acked` and `doubt` are themselves, and the steps on bytes, syncs
and compactions are stutters. `ImplementsStore` is checked on the `append_log` run and proved.

### WriteLock

Every step of `AppendLogWriteGuard::acquire` and of the field-by-field drop is an action of an
opener; openers are grouped in processes, each with its set of open paths. The lock file's name
points to an inode and flock belongs to the inode: that is where the removal at drop matters.
`raced` remembers that a removal took away a file another opener had open.

### FactIndex

`InsertFactIndex`, `RemoveFactIndex` and `ApplyFactUpsert` translate the functions of the same
names, `FactsAt` the binary search and filter of `facts_at`. Clients assert facts with any
`valid_from` and invalidate them with a row read before (`ReadRow`, `ReplaceRow`); `Compact`
rewrites the log in key order with the idempotency records behind; `Reopen` replays it.

### TemporalGraph

Each client is at a step of a call (`pc`, `call`); each storage operation is one step, which
AppendLog justifies. What the code reads outside the state mutex is a step of its own: the first
look at an idempotency key, the row of `invalidate_fact`, the policy of `assert_fact_checked`, the
update of the detector or vector index after the write. Two different objects conflict, and current
facts have no end, so that two current facts of a slot always overlap.

What the process holds (`facts`, `keys`, `registry`, `embeddings`) and what the file may hold are
two things, with the promise of `DurableStore` between them: `settled` is what the writes that
succeeded built, `doubt` the records of those that failed and have not been overwritten since. A
record is a function of the entries it writes. `Succeeds` applies it to memory and to `settled`;
`Fails` leaves memory alone and puts it in doubt or not, as `sync_all` or the bytes may have failed.
`FailFact`, `FailEnd`, `FailRegistration` and `FailEmbedding` are the calls that return such an
error, the second one also in the middle of `correct_fact`. `Restart` is the death of the process
and `init`: each table is anything that `Loads` allows, so a failed assertion, end, registration or
embedding may be there afterwards, or have been there once and be gone at the next open. A process
that dies in a write is a failed write and then a restart. An open that is refused (two
embedding lengths, a file that cannot be replayed) is no step: there is no graph to speak of.

### FactIdGen

A thread takes the generator, reads the clock, draws or waits, releases, then reads entropy.
`Tick` and `SetBack` move the clock at any time. The random half of the id is left out on purpose:
the properties must hold without it.

### Recall

One call, from its options to its answer. `textRank` and `similar` stand for the query: the facts it
matches, best first. BM25 depends on the whole corpus, so an assertion may reorder `textRank` at
will; a cosine depends on its entry alone, and an entry is inserted at any place. A text search is
one step (one snapshot); a hybrid one is a step per lock: text channel, allow-set, hits, fusion, one
look-up per fact, reranking. `Batch` is the body of the loops of `recall_scored_with_options` and
`recall_for_task`: what is fresh, what passes, the ways to stop (`LastBatch`) and the next fetch
limit (`NextBatch`). Facts are asserted and ended between any two steps.

### AgentMemory

Three kinds of behaviour share the module, chosen by `watch`: registrations at open, cut short at
any point, with callers that register their own; a poller of `what_changed` with two writing
threads; reports put together lock by lock. A write call stamps its row, then stores it:
`calls[t].step` is what lies in between. An end overwrites both end fields of a row and nothing
else, so `invalidate_fact` is one step here; `TemporalGraph` has both of its.

### McpServer and RequestService

The input is a sequence of tokens: header line, blank line, payload. `ReadLine` follows
`read_message` line by line; a payload read as a line takes the next header with it, because
payloads hold no line break. A tool call is `Writes(req)`, each a storage operation that can fail;
the process can be killed at every step and started again on the same database. The record of a
write that failed or was cut by the kill is in `doubt` (a fact) or `doubtful` (an end). `Restart`
finds what is `Kept`, the rest of the store, and any part of what is in doubt, each time anew;
`index` is the fact each key is then answered with, of which a restart chooses one among the
records in doubt unless a write of the key has succeeded. So a failed sync can leave a second
fact under the key of its retry, and a call can be answered from a fact that the next process does
not find. A database that cannot be replayed (`torn_tail`) starts no process: nothing is answered
from it, and this model ends there. `RequestService`
is the promise to the client: requests answered one at a time, in the order of their numbers, which
is the order they were sent in, each at most once; anything else it answers names no request
(`Complain`). `Service` in McpServer is its refinement mapping: `pending` is what is unread and
intact, and the call being served; `answered` the ids of the answers written; "deaf" is a connection
on which a frame of no usable length was sent. `ServesSerially` is `Service!Spec` with its fairness,
which the run checks; `AnswersInOrder` is the part without it, which is proved.

### Bindings

A method of the Swift or Kotlin class is several steps: the check of the handle or flag, the native
call, the question for the thread's last error, the release of the string. `stored[c]` counts the
writes of call `c` that the graph took: `correct_fact` has two, and the error of the graph may come
after the first. What an open of the file later shows of a write that failed is AppendLog's matter;
this module speaks of the graph while it is open. `Overlap` says whether
callers may close an object under a running method; the passing run takes callers who do not.

### The operator modules

`KernelChecks` states, over bounded inputs, what callers rely on: the date of a day number gives it
back and dates follow each other; printed timestamps, ids and records are read back; no prefix of a
record parses and no record holds a line break (recovery rests on both); edit distance one is one
edit; fusion does not depend on the order of a hash map; a query for the current state is filled
with current facts; detection is symmetric and agrees with the check at write time; briefs put the
worst finding first; what a tool accepts its schema declares, with the exceptions listed; the three
recall surfaces agree, with the exceptions listed. Where the code departs from what one would
expect, the assumption states the exact border (`TextRoundTrip`, `ColonsCollide`,
`AgreementOfObjects`, `AcceptedIsDeclared`, `SurfacesAgree`). TLC evaluates the assumptions when it
starts `McpServer.cfg`; with a faulty variant of an operator in its place, the assumption about it
fails.

Numbers are integers: a score is scaled, exponential decay is a halving per half-life, the
logarithm of BM25 is a decreasing integer function. The order of scores is kept where the code's
thresholds are, not their digits.

## 3. What the runs check

Runs that hold:

| run | instance | states | shows |
|---|---|---|---|
| `append_log` | 2 facts, 1 key, 4 lines, all faults | 1.4 M | acknowledged records are never lost in silence (`NoSilentLoss`); memory equals replay while nothing went wrong (`MemoryMatchesLog`); crashes and power losses are atomic (`CrashAtomic`); compaction keeps the state (`CompactionKeepsState`); keys name stored facts and keep them (`KeysNameStoredFacts`, `KeyKeepsItsFact`); all of it refines `DurableStore` (`ImplementsStore`) |
| `append_log_embeddings` | 2 facts, 2 embedding lengths, 1 registry entry, crashes and power losses | 3.1 M | the vector index can always be rebuilt (`EmbeddingsRebuild`) |
| `write_lock` | 2 processes of 2 threads, 5 inodes | 19 k | `OneWriterPerProcess`, `SingleWriterUnlessRaced`, `RefusedOnlyWhenBusy` |
| `fact_index` | 3 facts, 2 slots, 2 dates, 2 clients, log of 4 | 1.7 M | `IndexesMatchFacts`, `FactsAtExact`, `ReplayRebuilds`, `HistoryKept` |
| `graph` | 2 clients, 2 facts, 1 slot, 1 key, 2 lengths, policies `warn` and `reject`, one record in doubt at a time | 2.6 M | `KeysAnswerOneFact`, `StrictFactsAgree`, `CacheFollowsStore`, `VectorsFollowStore` |
| `fact_ids` | 2 threads, 2 sequence numbers, 3 milliseconds, one step back | 0.2 M | `DrawsAreNew`, `YoungerThanReturned`, and `CallsReturn` under fairness |
| `recall` | 3 facts, or 2 and a write in the call; every kind of call | 0.3 M | `ReturnedWereCurrent`, `RecallComplete`, `VectorSearchComplete`, and `CallReturns` under fairness |
| `agent_memory` | 2 threads, 3 write calls, 4 instants, 2 registrations | 2.1 M | `NothingMissed`, `CorrectionsPaired`, `ContradictionsSurface`, `DefaultsKept` |
| `mcp` | 7 requests, 3 frames, 1 failing write, 3 processes | 2.6 M | `SuccessIsStored`, `RetryStoresOnce`, refinement of `RequestService` (`ServesSerially`); the assumptions of `KernelChecks` |
| `bindings` | 2 threads, 2 objects, 4 calls, both languages | 0.6 M | `OutcomesAreTrue`, `HandlesOutliveCalls` |

The runs of `FactIndex`, `Recall` and `FactIdGen` also check the type or bound invariant of the
module; those of the other modules are parts of the proofs of section 4. Runs where the code departs
from what its documentation says; TLC must find the violation:

| run | property | what happens |
|---|---|---|
| `torn_tail` | `SourceOfTruth` | a write after a recovered partial record joins it in one line; the file cannot be replayed |
| `recall_short` | `ShortOnlyAtTheEnd` | ended facts leave a batch after it was cut to its limit; the loop takes the short batch for the last |

Further counterexamples, each with a configuration of its own (`tlc -config X.cfg M` prints the
trace):

| configuration | module | property | what happens |
|---|---|---|---|
| `AppendLogNonFinite.cfg` | `MCAppendLog` | `SourceOfTruth` | a NaN or infinite object is written as text that cannot be read back |
| `WriteLockTwoWriters.cfg` | `MCWriteLock` | `SingleWriter` | removing the lock file at drop lets two processes lock two inodes |
| `TemporalGraphCorrections.cfg` | `MCTemporalGraph` | `SingletonHolds` | `correct_fact` asserts without the check |
| `TemporalGraphRegistry.cfg` | `MCTemporalGraph` | `CacheInSync` | overlapping registrations leave store and detector apart (so does one that fails in its sync, once reopened) |
| `McpServerCollision.cfg` | `MCMcpServer` | `SuccessIsStored` | a client's key is the one the server derives from another; success is reported and the relation is not stored |
| `BindingsOverlap.cfg` | `MCBindings` | `HandlesOutliveCalls` | a close between Kotlin's check and the native call frees the graph the call uses |

`AppendLogTornTail.cfg` with `AnsweredKeysSurvive` in place of its invariant has one more trace: a
retry is answered from a record without its newline, which the next write destroys.

The findings in `PROJECT.json` quote the sentences these contradict, and list
departures seen in the models and in `KernelChecks` without a run of their own.

The conditions in the passing properties are the exact borders of those departures.
`MemoryMatchesLog` and `CrashAtomic` ask for `clean` (no I/O error since the open, and no append
behind an unterminated tail) and for finite numbers; `SingleWriterUnlessRaced` for no removal under
an open; `EmbeddingsRebuild` for no I/O error. `CacheFollowsStore` excepts a predicate whose
registrations overlapped, one whose registration is under way, and one of which a registration
failed and none has succeeded since: the file may then hold either policy. `StrictFactsAgree`
excepts facts whose end is in doubt, and speaks of checked assertions that succeeded: one that
failed in its sync is not seen by the next check, and after a restart both are there.
`KeysAnswerOneFact` holds within a process whatever fails; across restarts it holds from the first
write of the key that succeeds, since what was answered out of a record in doubt may be gone.
`SuccessIsStored` and `RetryStoresOnce` speak of the facts whose write succeeded, for the same
reason. The counterexamples behind these four are the findings at `storage_append_log.rs` 704, 715
and 1107 and `temporal_graph.rs` 861. `NoSilentLoss`, `KeysNameStoredFacts`, `KeyKeepsItsFact`,
`CompactionKeepsState` and `ImplementsStore` need none of these and hold under every fault.
`RecallComplete` asks that no match has ended (with ended ones `recall_short` breaks it);
`NothingMissed` excepts writes stamped before a poll and stored after it, which a poller misses for
ever; `CorrectionsPaired` asks that the replaced fact be the only end of its predicate at that
instant, since reports infer pairs from instants; `HandlesOutliveCalls` holds for callers that do
not close under a running method.

Smaller things the models showed: the budget `max_scored_rows` of a hybrid recall has no effect
beyond the candidate window and the first stage of the reranker; `suggest_resolution` names the
weaker fact where its doc speaks of the older one, and severities below `High` do not arise between
facts without an end; `correct_fact` gives the replacement full confidence and no source; equal
similarities come out of the vector index in the order of insertion, which a restart changes.

### Bounds

* *Append log, 4 lines.* Header and schema take two, which leaves two writes: enough for a fact
  and its replacement, a key and its retry, a torn record with one write behind and one after it, a
  compaction before or after a write. A power loss can cut at every byte class (before, in and
  after each record). Two facts let a compaction write more than one record and a key move.
* *Fact index.* Three facts with two dates give every arrangement of a chain with ties; four
  upserts give a replacement of any one; two clients give a stale write-back.
* *Graph.* Two clients are enough for any pair of interleaved calls; two facts for a conflict; a
  third fact only in `TemporalGraphCorrections.cfg`. Call arguments are bounded, not the number of
  calls. `allow` takes the arm of an unregistered predicate in every call, so the run registers
  `warn` and `reject`. The constraint `OneInDoubt` does not continue a state with two facts or
  registrations in doubt (records that fail one after the other without a success of the same entry
  between them); the proofs have no such bound. Facts, clients, objects and lengths are symmetric.
* *Ids.* `MaxSeq = 1` makes the sequence fill up at the second draw of a millisecond; three clock
  readings and one step back reach each arm of `next_parts` from each side.
* *Recall.* A budget of three rows and limits of one and two give loops of one, two and three
  batches; a write can fall between any two steps. Facts differ in what each filter looks at. Two
  writes in one call, or a fourth fact, make the run several times longer and add no new arm.
* *AgentMemory.* Three calls are a correction with two competing ends; two threads stamp in one
  order and store in the other; four instants put two polls between a stamp and its store.
* *MCP.* Three frames are a call, its retry and something between them; one failing write and three
  processes put the fault at each write, the restart before the retry, and a second restart behind
  the retry's answer: a record in doubt can be found by one process, answered from, and be gone in
  the next.
* *Bindings.* Two threads fail in every order; two objects let a database be opened while its first
  handle lives and after it was freed.
* *KernelChecks.* Each assumption names its inputs: whole eras around the boundaries of the
  calendar, all words of up to four letters over two, all rankings of three ids, and so on.
* *Write lock.* An inode for every opener and one more, so a creation never lacks one.

`AppendLog` has no symmetry (compaction picks an order with CHOOSE); the others use symmetry of
values the specification never orders. No liveness property is checked under symmetry.
`CHECK_DEADLOCK` is off where the system may stop: a client that sends nothing more (`McpServer`),
a host program that calls nothing more (`Bindings`).

### Fairness

`Recall` takes weak fairness of the calling thread's own steps and none of the writers: the writes
of an instance are bounded, and what they do to the ranking is not. For the text loop it is
`WF_vars(FetchText)`. For the calls over the index it is written with `Working` (the call has begun
and not returned) where `WF_vars` has ENABLED, which TLC is slow to evaluate for the reranker: each of
their steps changes the state, and the run checks for deadlock, so one that could not go on would be
found once the writes are used up. `McpServer` takes weak fairness
of the server's thread and none of the client, of crashes or of restarts. `RequestService` asks that
a pending request is eventually answered or lost with the process.

In `FactIdGen` weak fairness of each thread's steps is the scheduling of
runnable threads; weak fairness of `Tick` is that the clock runs. Nothing is assumed of the order
in which `std::sync::Mutex` admits waiters, so `CallsReturn` speaks of a call that has the mutex.
The clock of an instance ends at `MaxClock`, where a full sequence has nowhere to go; the property
excludes that state.

## 4. What is proved

For every value of the constants (any sets of facts, keys, threads, processes, any bound, any
faults), under the assumptions declared in the modules: the sets of facts and keys are finite, the
sentinels (`Junk`, `NoTail`, `NoThread`, ...) are not values, the bounds are naturals, the policies
registered and the faults are the code's, the clock of `AgentMemory` stays below the largest time
(`TimesAssumption`), its scenarios and the entries its `open` registers are well formed
(`EntriesAssumption`, `ScenariosAssumption`), so are the stores and calls of `Recall` (its
`ScenariosAssumption`: any facts, any options the API takes), and only the calls of the MCP server
that accept a key have one (its `KeysAssumption`). Three theorems ask for more, named with them
below.

* `AppendLog_proofs`. From the lemmas on records (`ReplayAppend`: replaying one more record is
  applying it; `LoadReplays`: whatever a file loads as is the replay of records) follows
  `CompactionReplays`: the records of a compaction replay to the state they were made from. It needs
  that the state is one that records build: then every idempotency cell is backed by a fact cell,
  every embedding too, and each record of a compaction agrees with the state on every cell it writes.
  The properties of the runs rest on these invariants:
  - `IInv` (`LogTyped`, `KeysAreGood`, `CompactionIsFaithful`). `TypeOK` alone is not inductive: a
    compaction could meet a memory whose keys name no fact, or whose embedding has no row. `StateOK`
    says that memory and the acknowledged state are each the replay of some sequence of records;
    every write appends one record to such a sequence, an open yields one, a crash resets to the
    empty one.
  - `CoverInv` (`AcknowledgedSurvives`, which is `NoSilentLoss`). What may be found on the disk is not
    one file: a power loss keeps any prefix behind the synced lines, or the old file of a compaction.
    So the invariant speaks of all of them: every such prefix that can be read covers every
    acknowledged cell, with the acknowledged value or one its writer was told to doubt, and holds
    no cell that is neither.
  - `LogInv` (`LogIsTheTruth`, `CrashesAreAtomic`). While `clean`, the lines before the record in
    flight replay to memory, and the rest of the file is that record. `Fits` says that the record
    never changes a fact's object, so that a memory that can be written as JSON was so before it.
  - `KeyInv` (`KeysKeepFacts`): a call begins with a key only if memory lacks it, and by `CoverInv`
    memory has every acknowledged one.
  - `DimsInv` (`IndexCanBeRebuilt`), under `"io" \notin Faults`: every embedding on the disk, in either
    file of a compaction, is in memory or in the record in flight, so the length check against memory
    is a check against all that a later open may see. With I/O errors it is false (a finding).
  - `LogImplementsStore`: every step of the log maps to a step of `DurableStore` or to a stutter, in
    every state of `IInv`, `CoverInv` and `NoCallInv` (no record is in flight between calls). The open
    is the step that needs `CoverInv`, in both its directions: whatever prefix was found, what it
    replays to is a map the abstract store may recover. The writes need that what they store `Fits`
    the memory (`WriteTaken`).
* `ProcessWide_proofs`, on what the threads of a process share:
  - the write lock: `LockTyped`, `ProcessesWriteOnce`, `OnlyTheRaceAdmitsTwo`,
    `RefusalsHaveAReason`. `PathsInv` says that openers between entering and leaving are alone in
    their process; `InodesInv` that a holder has the flock of the inode it has open, and that without
    a race all open inodes are the one the name points to; `BusyInv` that a path is in its process's
    set only while a thread is entered, and an inode locked only by who has it open;
  - the id generator: `GeneratorTyped`, `IdsAreOrdered`, `IdsAreNew`. `OrderInv` says that the
    generator's pair is never older than an id it drew, returned, or promised to exceed.
* `FactIndex_proofs`: `IndexTyped`, `IndexesFollow`, `QueriesAreExact`, `ReopeningFindsTheSame`,
  `HistoryIsKept`. `IndexesMatchFacts` is not inductive: the next upsert may be of a row read before
  others were written, and a compaction makes the log anew. `StateOK` has every index and chain match
  the facts, chains sorted; the lemmas below it say that insertion at the partition point and removal
  of a member keep a chain sorted and without repetition. `LogSays` has each fact be the last of its
  rows in the log, so that the log determines the facts: any replay of it, whatever its length, ends
  in a state with the same facts. `RowsKnown` has a row that a client is about to write back agree
  with the stored one on all but its end. `Rebuild` and `Keep` are recursive functions; that they
  exist and satisfy their equations is proved, not assumed.
* `TemporalGraph_proofs`: `KeysAnswerOne`, `StrictChecksHold`, `DetectorFollows`, `VectorsFollow`
  (and `TypeCorrect`), for any number of clients, of records in doubt and of restarts. `FileHeld` is
  what they rest on besides types: every entry of memory is as the writes that succeeded left it or
  is in doubt, and none of theirs is missing. Then each has its invariant over the calls in flight:
  - `RowsKnown`: a row is written back only for a fact that is stored.
  - `KeysInv`: a stored key names a stored fact, and a key whose write succeeded is never in doubt,
    because a known key is not written again; so every open gives it back (`KeysRestart`).
  - `StrictInv`, which speaks of `settled` and not of memory, so that a restart cannot disturb it: two
    strict facts that the writes that succeeded left current, with no end in doubt, have one object.
    They become so only in the step of the check, and that check sees the other as it is.
  - `CacheInv`: who is about to cache a registration has the stored one. An error changes neither
    store nor detector, so it stays; `CacheImplies` then compares with what an open may load.
  - `VectorsInv`: stored embeddings have one length, and the inserts under way are of different
    stored embeddings.
* `Recall_proofs`, for any facts, rankings, limits and number of writes: `RecallTyped`,
  `AnswersWereCurrent`, `LoopIsOneScan`, `NothingBetweenTheLocks`, of one invariant, `RecallInv`:
  - `WereCurrent`. A fact becomes current only in the step that asserts it, so the facts current now
    are among those that were so at some moment of the call, and so is every copy that was current
    when a step took it: the filter of a vector search, the facts looked up one by one, what earlier
    batches found. What was found passes the call's filter, and stays so while others write, since the
    fields a filter looks at never change after the assertion.
  - `ScanInv`. As long as nobody writes, the ids seen are a prefix of the ranking, shorter than the
    next batch, and those found are what passes in it. `KeepRest` (filtering the unseen rest of a longer
    prefix continues the filter of the shorter) is its step; each way to stop then has either `limit`
    hits, of which `KeepMore` says that a longer scan begins with them, or a batch that ends where the
    whole budget does.
  - `IndexInv`. The index only grows, and a fact that is current when it is searched and not in the
    filter is new since the filter was made.
  - The reranker: `SortHitsPermutes` (the sort, defined by how many hits are ahead of each, is a
    rearrangement because the order is strict and total), `FuseHitsOnce`, `RerankOnce`, and lemmas that
    its signals are numbers. `Keep` is a recursive function; its equations are proved (`KeepSteps`).
* `AgentMemory_proofs`, for any facts, predicates, threads and entries:
  - `PollsMissNothing`, `CorrectionsAreReported`: `WritesInv` (no stamp is ahead of the clock, facts
    are added and ended, never removed) and `CorrectionsInv` (a replacement has the predicate of what
    it replaces, is not stamped before it and begins at the instant of the correction). The pair is
    then the only candidate the report's search can take, whatever else the period holds.
  - `ReportsTellContradictions`: `ReportInv`. Nothing is revived, so if the current facts of the
    snapshot are those at the end, they were so at every step between, and each audit saw the
    conflicts of the snapshot. Detection is then shown to find a conflict exactly if two current
    facts of a predicate differ, and `RecommendedIsBest` (the action a brief recommends is one of its
    list and none scores higher) that resolving it outranks everything else a brief may propose.
  - `DefaultsAreKept`: `OpeningInv`. An entry without a registration is among those the running, or
    the next, open has yet to look at.
* `McpServer_proofs`: `KeyedWritesStoreOnce`, `SuccessSpeaksForStoredFacts` and
  `ServerImplementsService`. `FrameInv` says that
  what `read_exact` is about to read is a payload and never the next header; `StoreInv` that a keyed
  fact, stored or in doubt, has the key and the kind of some write, and that a key is answered with
  one fact, with the one whose write succeeded if there is one; `CallInv` and `ProgressInv`
  that each write of a call that has not failed is done or still to do; `DoubtInv` that a record in
  doubt is of a request already read and, if of the one under way, that this has failed, so that no
  success is reported for a record in doubt of the call's own; `ReplyInv` types the replies.
  `SuccessIsStored` has a hypothesis, `KeysNameOneKind`: no client key names writes of two kinds, and
  none equals a key the server derives. `McpServerCollision.cfg` shows that it cannot be dropped.
  The step simulation of `RequestService` rests on `OrderInv`. Its parts: `LengthInv` (a content
  length is remembered only in front of a blank line or a payload); `PipeInv` (frames are intact up to
  the first one of no usable length, and numbered in the order sent); `LostInv` (a reader that has
  lost the frames has nothing left that was to be understood, and as long as it has not, such a frame
  stands before everything that is not intact, so that what `read_exact` takes for a request is one);
  `TurnInv` (what was answered, what is served and what waits have rising numbers).
* `Bindings_proofs`: `MethodsTellTheirFate` (`Fate`: an error cell is the thread's own, so a failed
  call still finds its reason there, and `Cut` says how far its writes came; `Numbered`: what is stored
  under a call's number is stored by that call alone) and,
  for callers with `Overlap = FALSE`, `GraphsOutliveCalls` (`HandleInv`: a freed object stays shut,
  by Kotlin's flag from the start of the close, by Swift's handle field from its end, and in
  between the closing thread keeps others out).

Only model-checked: `CallsReturn`, `CallReturns` and the fairness of `ServesSerially`, since the
prover has no rule for liveness; and the assumptions of `KernelChecks`, which are about recursive
definitions over data (what the reranker computes, beyond losing and repeating nothing, among them).

## 5. What is not modelled, and why

* Digits of floating-point scores: BM25's logarithm, cosine similarity, exponential decay. The
  models keep their order, thresholds and ties.
* Layouts: the dictionaries and JSON documents the surfaces answer with, the texts of watchouts and
  checks, `Display` of errors.
* The pipes of the MCP server are unbounded: a client that sends without reading can block on a
  full pipe, and the server with it. A read error of the pipe that persists makes `run` loop for
  ever; the model's input has none.
* Years from about 5 879 600 on, where `days_from_civil` overflows its 32 bits.
* The storage observer, which only counts rows for tests.
* Threads of a Python program as such: the binding releases the interpreter's lock around each call
  and keeps no state, so they are the clients of `TemporalGraph`, `Recall` and `AgentMemory`.
* `wasm32`, where there is no file and one thread.
* Non-unix builds: `flock` is the only lock the source has.
* The docs service, the site, scripts and benchmarks are not part of the database.

## 6. Plan

Done: the core (`LogRecords`, `AppendLog`, `WriteLock`, `FactIdGen`, `FactIndex`, `TemporalGraph`)
with the theorems of section 4; the search and recall path (`Ranking`, `Recall`); `AgentMemory`; the
MCP server; the bindings; the pure algorithms; two refinements, of `DurableStore` by `AppendLog` and
of `RequestService` by `McpServer`. What would come next:

1. The file of `TemporalGraph` (`settled`, `doubt`, `Loads`) as an instance of `DurableStore`, with a
   proof that its steps implement it, in place of the same promise written for four tables.
2. `Recall` over the store of `TemporalGraph`, so that registrations and embeddings of one model
   are those the other ranks.
3. `RequestService` with a bounded pipe, where a client that does not read can block the server.
