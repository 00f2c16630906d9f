---- MODULE FactIdGen ----
(***************************************************************************)
(* FactId::try_new (fact_id.rs): threads draw a timestamp and a sequence   *)
(* number from one generator behind a mutex.  The wall clock it reads can  *)
(* step back; a full sequence makes the thread wait, with the mutex held,  *)
(* for the clock to pass the last timestamp.  The 64 random bits behind    *)
(* the two numbers are left out: order and uniqueness within a process     *)
(* must not depend on them.                                                *)
(***************************************************************************)
EXTENDS Integers, FiniteSets

CONSTANTS
    Threads,
    NoThread,  \* the mutex is free
    MaxSeq,    \* u16::MAX
    MaxClock,  \* bound on the clock, in milliseconds
    MaxBack    \* bound on how often the clock is set back

ASSUME NoThreadAssumption == NoThread \notin Threads
ASSUME MaxSeqAssumption   == MaxSeq \in Nat
ASSUME MaxClockAssumption == MaxClock \in Nat
ASSUME MaxBackAssumption  == MaxBack \in Nat

VARIABLES
    clock,     \* SystemTime::now(), in milliseconds
    back,      \* how often it was set back
    last_ms, sequence,  \* GeneratorState
    holder,    \* thread that holds GENERATOR
    stage,     \* step of each thread's call
    now,       \* its now_ms
    parts,     \* its <<timestamp, sequence>>
    floor,     \* newest id returned by any call before this one started
    newest,    \* newest id returned so far
    issued     \* ids drawn so far

generator == <<last_ms, sequence, holder>>
generatorVars == <<clock, back, generator, stage, now, parts, floor, newest, issued>>

Id == (0..MaxClock) \X (0..MaxSeq)

(* from_parts puts the timestamp in the high bytes, the sequence below it. *)
Older(a, b) == a[1] < b[1] \/ (a[1] = b[1] /\ a[2] < b[2])

GeneratorOK ==
    /\ clock \in 0..MaxClock /\ back \in 0..MaxBack
    /\ last_ms \in 0..MaxClock /\ sequence \in 0..MaxSeq
    /\ holder \in Threads \cup {NoThread}
    /\ stage \in [Threads -> {"idle", "lock", "match", "wait", "entropy"}]
    /\ now \in [Threads -> 0..MaxClock]
    /\ parts \in [Threads -> Id]
    /\ floor \in [Threads -> Id] /\ newest \in Id
    /\ issued \subseteq Id

GeneratorInit ==
    /\ clock \in 0..MaxClock /\ back = 0
    /\ last_ms = 0 /\ sequence = 0 /\ holder = NoThread
    /\ stage = [t \in Threads |-> "idle"]
    /\ now = [t \in Threads |-> 0]
    /\ parts = [t \in Threads |-> <<0, 0>>]
    /\ floor = [t \in Threads |-> <<0, 0>>] /\ newest = <<0, 0>>
    /\ issued = {}

-----------------------------------------------------------------------------
Start(t) ==
    /\ stage[t] = "idle"
    /\ stage' = [stage EXCEPT ![t] = "lock"]
    /\ floor' = [floor EXCEPT ![t] = newest]
    /\ UNCHANGED <<clock, back, generator, now, parts, newest, issued>>

(* Take the mutex, read the clock. *)
Lock(t) ==
    /\ stage[t] = "lock" /\ holder = NoThread
    /\ holder' = t
    /\ now' = [now EXCEPT ![t] = clock]
    /\ stage' = [stage EXCEPT ![t] = "match"]
    /\ UNCHANGED <<clock, back, last_ms, sequence, parts, floor, newest, issued>>

Draw(t, id) ==
    /\ last_ms' = id[1] /\ sequence' = id[2]
    /\ parts' = [parts EXCEPT ![t] = id]
    /\ issued' = issued \cup {id}
    /\ holder' = NoThread
    /\ stage' = [stage EXCEPT ![t] = "entropy"]
    /\ UNCHANGED <<clock, back, now, floor, newest>>

(* Mutant: the sequence starts again within the same millisecond. *)
SameOrNewMillisecond(t) ==
    /\ stage[t] = "match" /\ now[t] >= last_ms
    /\ Draw(t, <<now[t], 0>>)

NewMillisecond(t) ==
    /\ stage[t] = "match" /\ now[t] > last_ms
    /\ Draw(t, <<now[t], 0>>)

(* Mutant: a clock that was set back is taken at its word. *)
FollowClock(t) ==
    /\ stage[t] = "match" /\ now[t] <= last_ms /\ sequence < MaxSeq
    /\ Draw(t, <<now[t], sequence + 1>>)

(* Mutant: the sequence runs on past its maximum. *)
SequenceUnchecked(t) ==
    /\ stage[t] = "match" /\ now[t] <= last_ms
    /\ Draw(t, <<last_ms, sequence + 1>>)

(* The same millisecond, or the clock was set back. *)
SameMillisecond(t) ==
    /\ stage[t] = "match" /\ now[t] <= last_ms /\ sequence < MaxSeq
    /\ Draw(t, <<last_ms, sequence + 1>>)

SequenceFull(t) ==
    /\ stage[t] = "match" /\ now[t] <= last_ms /\ sequence = MaxSeq
    /\ stage' = [stage EXCEPT ![t] = "wait"]
    /\ UNCHANGED <<clock, back, generator, now, parts, floor, newest, issued>>

Passed == clock > last_ms

(* Mutant: the wait is for a clock that reads the next millisecond exactly. *)
NextExactly == clock = last_ms + 1

(* wait_until_next_millisecond: sleep and look again until the clock passed. *)
WaitOver == Passed

Wait(t) ==
    /\ stage[t] = "wait"
    /\ IF WaitOver
         THEN /\ now' = [now EXCEPT ![t] = clock]
              /\ stage' = [stage EXCEPT ![t] = "match"]
         ELSE UNCHANGED <<now, stage>>
    /\ UNCHANGED <<clock, back, generator, parts, floor, newest, issued>>

(* The random bits are read, the id is returned. *)
Return(t) ==
    /\ stage[t] = "entropy"
    /\ newest' = IF Older(newest, parts[t]) THEN parts[t] ELSE newest
    /\ stage' = [stage EXCEPT ![t] = "idle"]
    /\ UNCHANGED <<clock, back, generator, now, parts, floor, issued>>

(* No entropy: an error is returned, the drawn numbers are not used. *)
EntropyFails(t) ==
    /\ stage[t] = "entropy"
    /\ stage' = [stage EXCEPT ![t] = "idle"]
    /\ UNCHANGED <<clock, back, generator, now, parts, floor, newest, issued>>

Tick ==
    /\ clock < MaxClock /\ clock' = clock + 1
    /\ UNCHANGED <<back, generator, stage, now, parts, floor, newest, issued>>

SetBack ==
    /\ back < MaxBack /\ back' = back + 1
    /\ clock' \in 0..clock
    /\ UNCHANGED <<generator, stage, now, parts, floor, newest, issued>>

CallStep(t) == \/ Lock(t) \/ NewMillisecond(t) \/ SameMillisecond(t) \/ SequenceFull(t)
               \/ Wait(t) \/ Return(t) \/ EntropyFails(t)

GeneratorNext == Tick \/ SetBack \/ \E t \in Threads : Start(t) \/ CallStep(t)

GeneratorSpec == GeneratorInit /\ [][GeneratorNext]_generatorVars

(* A thread that has taken the mutex runs on, and the clock runs.  Nothing *)
(* is assumed of the order in which waiting threads get the mutex.         *)
Fairness == WF_generatorVars(Tick) /\ \A t \in Threads : WF_generatorVars(CallStep(t))
FairSpec == GeneratorSpec /\ Fairness

-----------------------------------------------------------------------------
(* A drawn id is new: no two calls of a process get the same timestamp and *)
(* sequence, whatever the clock does.                                      *)
DrawsAreNew ==
    [][ \A t \in Threads : stage[t] = "match" /\ stage'[t] = "entropy" => parts'[t] \notin issued ]_generatorVars

(* Ids are ordered by time of issue: a call that starts after another has  *)
(* returned gets the younger id, also when the clock was set back between. *)
YoungerThanReturned ==
    \A t \in Threads : stage[t] = "entropy" => Older(floor[t], parts[t])

(* A call that has the mutex waits no longer than the clock: it draws its  *)
(* id as soon as there is a timestamp left for it, so the other threads    *)
(* are never locked out for good (the clock of the instance ends at        *)
(* MaxClock).                                                              *)
CallsReturn ==
    \A t \in Threads : stage[t] \in {"match", "wait", "entropy"} ~>
                          (stage[t] = "idle" \/ (last_ms = MaxClock /\ sequence = MaxSeq))
====
