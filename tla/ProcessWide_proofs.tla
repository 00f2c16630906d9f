---- MODULE ProcessWide_proofs ----
(***************************************************************************)
(* What the threads of a process share outside any database: the paths it  *)
(* has open, with their write locks, and the generator of fact ids.        *)
(*                                                                         *)
(* The write lock, for any number of processes and threads: a process      *)
(* never writes twice to a path, and two processes do only after a drop    *)
(* removed a lock file that another open had already opened.               *)
(*                                                                         *)
(* Fact ids are new and ordered, for any number of threads, any sequence   *)
(* limit and any movement of the clock.                                    *)
(***************************************************************************)
EXTENDS WriteLock, FactIdGen, TLAPS

Entered == {"open", "flock", "held"}             \* the path is in the process's set for it
HasFile == {"flock", "held", "unlock", "remove", "close"}
Linked  == HasFile \ {"close"}                   \* its lock file has not been removed by it
Locks   == {"held", "unlock"}

(* Threads of one process exclude each other through the set of paths. *)
PathsInv ==
    /\ \A o \in Openers : pc[o] \in Entered => Process[o] \in openPaths
    /\ \A a, b \in Openers :
          pc[a] \in Entered /\ pc[b] \in Entered /\ Process[a] = Process[b] => a = b

(* flock is held on the inode that is open, and unless a lock file was     *)
(* removed under an open, all inodes that are open are the one the         *)
(* directory entry names.                                                  *)
InodesInv ==
    /\ \A o \in Openers : pc[o] \in HasFile => fd[o] \in Inodes
    /\ \A o \in Openers : pc[o] \in Locks => flocked[fd[o]] = o
    /\ ~raced => \A o \in Openers : pc[o] \in Linked => fd[o] = entry

IInv == TypeOK /\ PathsInv /\ InodesInv

LEMMA InitIInv == Init => IInv
  BY DEF Init, IInv, TypeOK, PathsInv, InodesInv, Entered, HasFile, Linked, Locks

LEMMA TypeOKStep == TypeOK /\ InodesInv /\ [Next]_vars => TypeOK'
<1> SUFFICES ASSUME TypeOK, InodesInv, [Next]_vars PROVE TypeOK'
  OBVIOUS
<1> USE ProcessAssumption DEF TypeOK, Goto
<1>1. ASSUME NEW o \in Openers, EnterProcess(o) PROVE TypeOK'
  BY <1>1 DEF EnterProcess
<1>2. ASSUME NEW o \in Openers, ProcessRefuses(o) PROVE TypeOK'
  BY <1>2 DEF ProcessRefuses, vars
<1>3. ASSUME NEW o \in Openers, OpenLockFile(o) PROVE TypeOK'
  BY <1>3 DEF OpenLockFile
<1>4. ASSUME NEW o \in Openers, OpenLockFileFails(o) PROVE TypeOK'
  BY <1>4 DEF OpenLockFileFails
<1>5. ASSUME NEW o \in Openers, Flock(o) PROVE TypeOK'
  BY <1>5 DEF Flock
<1>6. ASSUME NEW o \in Openers, FlockRefused(o) PROVE TypeOK'
  BY <1>6 DEF FlockRefused
<1>7. ASSUME NEW o \in Openers, LeaveProcess(o) PROVE TypeOK'
  BY <1>7 DEF LeaveProcess
<1>8. ASSUME NEW o \in Openers, Unlock(o) PROVE TypeOK'
  BY <1>8 DEF Unlock
<1>9. ASSUME NEW o \in Openers, RemoveLockFile(o) PROVE TypeOK'
  <2>1. raced' \in BOOLEAN
    BY <1>9, Zenon DEF RemoveLockFile
  <2> QED
    BY <1>9, <2>1 DEF RemoveLockFile
<1>10. ASSUME NEW o \in Openers, CloseLockFile(o) PROVE TypeOK'
  BY <1>10 DEF CloseLockFile
<1>11. ASSUME NEW p \in Processes, Crash(p) PROVE TypeOK'
  BY <1>11 DEF Crash
<1>12. CASE UNCHANGED vars
  BY <1>12 DEF vars
<1> QED
  BY <1>1, <1>2, <1>3, <1>4, <1>5, <1>6, <1>7, <1>8, <1>9, <1>10, <1>11, <1>12 DEF Next, Step

LEMMA PathsStep == TypeOK /\ PathsInv /\ [Next]_vars => PathsInv'
<1> SUFFICES ASSUME TypeOK, PathsInv, [Next]_vars PROVE PathsInv'
  OBVIOUS
<1> USE ProcessAssumption DEF TypeOK, PathsInv, Entered, Goto
<1>1. ASSUME NEW o \in Openers, EnterProcess(o) PROVE PathsInv'
  BY <1>1 DEF EnterProcess
<1>2. ASSUME NEW o \in Openers, ProcessRefuses(o) PROVE PathsInv'
  BY <1>2 DEF ProcessRefuses, vars
<1>3. ASSUME NEW o \in Openers, OpenLockFile(o) PROVE PathsInv'
  BY <1>3 DEF OpenLockFile
<1>4. ASSUME NEW o \in Openers, OpenLockFileFails(o) PROVE PathsInv'
  BY <1>4 DEF OpenLockFileFails
<1>5. ASSUME NEW o \in Openers, Flock(o) PROVE PathsInv'
  BY <1>5 DEF Flock
<1>6. ASSUME NEW o \in Openers, FlockRefused(o) PROVE PathsInv'
  BY <1>6 DEF FlockRefused
<1>7. ASSUME NEW o \in Openers, LeaveProcess(o) PROVE PathsInv'
  BY <1>7 DEF LeaveProcess
<1>8. ASSUME NEW o \in Openers, Unlock(o) PROVE PathsInv'
  BY <1>8 DEF Unlock
<1>9. ASSUME NEW o \in Openers, RemoveLockFile(o) PROVE PathsInv'
  BY <1>9 DEF RemoveLockFile
<1>10. ASSUME NEW o \in Openers, CloseLockFile(o) PROVE PathsInv'
  BY <1>10 DEF CloseLockFile
<1>11. ASSUME NEW p \in Processes, Crash(p) PROVE PathsInv'
  BY <1>11 DEF Crash
<1>12. CASE UNCHANGED vars
  BY <1>12 DEF vars
<1> QED
  BY <1>1, <1>2, <1>3, <1>4, <1>5, <1>6, <1>7, <1>8, <1>9, <1>10, <1>11, <1>12 DEF Next, Step

LEMMA InodesStep == TypeOK /\ InodesInv /\ [Next]_vars => InodesInv'
<1> SUFFICES ASSUME TypeOK, InodesInv, [Next]_vars PROVE InodesInv'
  OBVIOUS
<1> USE ProcessAssumption, NoInodeAssumption, NoOpenerAssumption
    DEF TypeOK, InodesInv, HasFile, Linked, Locks, Goto
<1>1. ASSUME NEW o \in Openers, EnterProcess(o) PROVE InodesInv'
  BY <1>1 DEF EnterProcess
<1>2. ASSUME NEW o \in Openers, ProcessRefuses(o) PROVE InodesInv'
  BY <1>2 DEF ProcessRefuses, vars
<1>3. ASSUME NEW o \in Openers, OpenLockFile(o) PROVE InodesInv'
  BY <1>3 DEF OpenLockFile
<1>4. ASSUME NEW o \in Openers, OpenLockFileFails(o) PROVE InodesInv'
  BY <1>4 DEF OpenLockFileFails
<1>5. ASSUME NEW o \in Openers, Flock(o) PROVE InodesInv'
  BY <1>5 DEF Flock
<1>6. ASSUME NEW o \in Openers, FlockRefused(o) PROVE InodesInv'
  BY <1>6 DEF FlockRefused
<1>7. ASSUME NEW o \in Openers, LeaveProcess(o) PROVE InodesInv'
  BY <1>7 DEF LeaveProcess
<1>8. ASSUME NEW o \in Openers, Unlock(o) PROVE InodesInv'
  BY <1>8 DEF Unlock
<1>9. ASSUME NEW o \in Openers, RemoveLockFile(o) PROVE InodesInv'
  <2>1. ASSUME ~raced' PROVE \A q \in Openers : pc'[q] \in Linked => fd'[q] = entry'
    \* The entry names the lock file of o, which nobody else has open.
    <3>1. ~raced /\ entry = fd[o] /\ entry # NoInode
      BY <1>9, <2>1 DEF RemoveLockFile
    <3>2. \A q \in Openers \ {o} : fd[q] # entry
      BY <1>9, <2>1, <3>1 DEF RemoveLockFile
    <3> QED
      BY <1>9, <3>1, <3>2 DEF RemoveLockFile
  <2> QED
    BY <1>9, <2>1 DEF RemoveLockFile
<1>10. ASSUME NEW o \in Openers, CloseLockFile(o) PROVE InodesInv'
  BY <1>10 DEF CloseLockFile
<1>11. ASSUME NEW p \in Processes, Crash(p) PROVE InodesInv'
  BY <1>11 DEF Crash
<1>12. CASE UNCHANGED vars
  BY <1>12 DEF vars
<1> QED
  BY <1>1, <1>2, <1>3, <1>4, <1>5, <1>6, <1>7, <1>8, <1>9, <1>10, <1>11, <1>12 DEF Next, Step

LEMMA SpecIInv == Spec => []IInv
<1>1. IInv /\ [Next]_vars => IInv'
  BY TypeOKStep, PathsStep, InodesStep DEF IInv
<1> QED
  BY InitIInv, <1>1, PTL DEF Spec

(* The type invariant of the lock's state. *)
THEOREM LockTyped == Spec => []TypeOK
<1>1. IInv => TypeOK
  BY DEF IInv
<1> QED
  BY SpecIInv, <1>1, PTL

(* ProcessOpenGuard alone keeps the threads of a process apart, even while *)
(* a drop has given up the path and still holds, or has just removed, the  *)
(* lock file.                                                              *)
THEOREM ProcessesWriteOnce == Spec => []OneWriterPerProcess
<1>1. IInv => OneWriterPerProcess
  BY DEF IInv, PathsInv, Entered, OneWriterPerProcess, AtMostOne, Writers
<1> QED
  BY SpecIInv, <1>1, PTL

(* The lock file keeps processes apart as long as no drop removes a lock   *)
(* file another opener has open: that race is the only way to two writers. *)
THEOREM OnlyTheRaceAdmitsTwo == Spec => []SingleWriterUnlessRaced
<1>1. IInv => SingleWriterUnlessRaced
  <2> SUFFICES ASSUME IInv, ~raced, NEW a \in Writers, NEW b \in Writers PROVE a = b
    BY DEF SingleWriterUnlessRaced, AtMostOne
  <2>1. a \in Openers /\ pc[a] = "held" /\ b \in Openers /\ pc[b] = "held"
    BY DEF Writers
  <2>2. fd[a] = entry /\ fd[b] = entry /\ flocked[fd[a]] = a /\ flocked[fd[b]] = b
    BY <2>1 DEF IInv, InodesInv, HasFile, Linked, Locks
  <2> QED
    BY <2>2
<1> QED
  BY SpecIInv, <1>1, PTL

(* The path is in the set of a process only while one of its threads is    *)
(* entered, and an inode is locked only by who has it open to write or is  *)
(* about to unlock it: nothing is left behind by drops and crashes.        *)
BusyInv ==
    /\ \A p \in openPaths : \E q \in Openers : Process[q] = p /\ pc[q] \in Entered
    /\ \A i \in Inodes : flocked[i] # NoOpener =>
          pc[flocked[i]] \in Locks /\ fd[flocked[i]] = i

LEMMA BusyStep == TypeOK /\ InodesInv /\ BusyInv /\ [Next]_vars => BusyInv'
<1> SUFFICES ASSUME TypeOK, InodesInv, BusyInv, [Next]_vars PROVE BusyInv'
  OBVIOUS
<1> USE ProcessAssumption, NoOpenerAssumption
    DEF TypeOK, InodesInv, BusyInv, Entered, HasFile, Locks, Goto
<1>1. ASSUME NEW o \in Openers, EnterProcess(o) PROVE BusyInv'
  BY <1>1 DEF EnterProcess
<1>2. ASSUME NEW o \in Openers, ProcessRefuses(o) PROVE BusyInv'
  BY <1>2 DEF ProcessRefuses, vars
<1>3. ASSUME NEW o \in Openers, OpenLockFile(o) PROVE BusyInv'
  BY <1>3 DEF OpenLockFile
<1>4. ASSUME NEW o \in Openers, OpenLockFileFails(o) PROVE BusyInv'
  BY <1>4 DEF OpenLockFileFails
<1>5. ASSUME NEW o \in Openers, Flock(o) PROVE BusyInv'
  BY <1>5 DEF Flock
<1>6. ASSUME NEW o \in Openers, FlockRefused(o) PROVE BusyInv'
  BY <1>6 DEF FlockRefused
<1>7. ASSUME NEW o \in Openers, LeaveProcess(o) PROVE BusyInv'
  BY <1>7 DEF LeaveProcess
<1>8. ASSUME NEW o \in Openers, Unlock(o) PROVE BusyInv'
  BY <1>8 DEF Unlock
<1>9. ASSUME NEW o \in Openers, RemoveLockFile(o) PROVE BusyInv'
  BY <1>9 DEF RemoveLockFile
<1>10. ASSUME NEW o \in Openers, CloseLockFile(o) PROVE BusyInv'
  BY <1>10 DEF CloseLockFile
<1>11. ASSUME NEW p \in Processes, Crash(p) PROVE BusyInv'
  BY <1>11 DEF Crash
<1>12. CASE UNCHANGED vars
  BY <1>12 DEF vars
<1> QED
  BY <1>1, <1>2, <1>3, <1>4, <1>5, <1>6, <1>7, <1>8, <1>9, <1>10, <1>11, <1>12 DEF Next, Step

(* Nobody is locked out by what others leave behind: a refusal always has  *)
(* another opener that is under way or holds the path.                     *)
THEOREM RefusalsHaveAReason == Spec => []RefusedOnlyWhenBusy
<1>1. Init => BusyInv
  BY DEF Init, BusyInv
<1>2. IInv /\ BusyInv /\ [Next]_vars => BusyInv'
  BY BusyStep DEF IInv
<1>3. IInv /\ BusyInv => RefusedOnlyWhenBusy
  <2> SUFFICES ASSUME IInv, BusyInv, NEW o \in Openers,
                      \/ pc[o] = "idle" /\ Process[o] \in openPaths
                      \/ pc[o] = "flock" /\ flocked[fd[o]] # NoOpener
               PROVE  \E q \in Openers \ {o} : pc[q] # "idle"
    BY DEF RefusedOnlyWhenBusy
  <2>1. CASE pc[o] = "idle" /\ Process[o] \in openPaths
    BY <2>1 DEF BusyInv, Entered
  <2>2. CASE pc[o] = "flock" /\ flocked[fd[o]] # NoOpener
    <3>1. fd[o] \in Inodes /\ flocked[fd[o]] \in Openers
      BY <2>2 DEF IInv, TypeOK, InodesInv, HasFile
    <3> QED
      BY <2>2, <3>1 DEF BusyInv, Locks
  <2> QED
    BY <2>1, <2>2
<1> QED
  BY SpecIInv, <1>1, <1>2, <1>3, PTL DEF Spec

-----------------------------------------------------------------------------
(* The generator of fact ids. *)
NotAfter(a, b) == a[1] < b[1] \/ (a[1] = b[1] /\ a[2] <= b[2])
Last == <<last_ms, sequence>>

InCall == {"lock", "match", "wait"}

(* The generator is never behind an id it gave out: the numbers only move  *)
(* forward, whatever the clock says.                                       *)
OrderInv ==
    /\ \A id \in issued : NotAfter(id, Last)
    /\ NotAfter(newest, Last)
    /\ \A t \in Threads : stage[t] \in InCall => NotAfter(floor[t], Last)
    /\ \A t \in Threads : stage[t] = "entropy" =>
          NotAfter(parts[t], Last) /\ Older(floor[t], parts[t])

IdsInv == GeneratorOK /\ OrderInv

LEMMA IdsInvStarts == GeneratorInit => IdsInv
  BY MaxSeqAssumption, MaxClockAssumption, MaxBackAssumption
     DEF GeneratorInit, IdsInv, GeneratorOK, OrderInv, Id, InCall, NotAfter, Last

(* What Draw does to the invariant, given an id newer than the last one. *)
LEMMA DrawStep ==
    ASSUME IdsInv, NEW t \in Threads, NEW id \in Id, Draw(t, id),
           stage[t] = "match", Older(Last, id)
    PROVE  IdsInv' /\ id \notin issued
<1> USE MaxSeqAssumption, MaxClockAssumption, MaxBackAssumption DEF Id, Last
<1>0. /\ GeneratorOK /\ OrderInv
      /\ id[1] \in Nat /\ id[2] \in Nat /\ last_ms \in Nat /\ sequence \in Nat
      /\ Last' = id
      /\ parts' = [parts EXCEPT ![t] = id] /\ issued' = issued \cup {id}
      /\ stage' = [stage EXCEPT ![t] = "entropy"] /\ floor' = floor /\ newest' = newest
  BY DEF IdsInv, GeneratorOK, Draw
<1>1. GeneratorOK'
  BY <1>0 DEF GeneratorOK, Draw
<1>2. ASSUME NEW a \in Id, NotAfter(a, Last)
      PROVE  NotAfter(a, id) /\ Older(a, id)
  BY <1>0, <1>2 DEF NotAfter, Older
<1>3. \A a \in issued' : NotAfter(a, Last')
  BY <1>0, <1>2 DEF OrderInv, NotAfter, GeneratorOK
<1>4. NotAfter(newest', Last')
  BY <1>0, <1>2 DEF OrderInv, GeneratorOK
<1>5. ASSUME NEW u \in Threads, stage'[u] \in InCall
      PROVE  NotAfter(floor'[u], Last')
  BY <1>0, <1>2, <1>5 DEF OrderInv, GeneratorOK, InCall
<1>6. ASSUME NEW u \in Threads, stage'[u] = "entropy"
      PROVE  NotAfter(parts'[u], Last') /\ Older(floor'[u], parts'[u])
  <2>1. CASE u = t
    BY <1>0, <1>2, <2>1 DEF OrderInv, GeneratorOK, InCall, NotAfter
  <2>2. CASE u # t
    BY <1>0, <1>2, <1>6, <2>2 DEF OrderInv, GeneratorOK
  <2> QED
    BY <2>1, <2>2
<1>7. id \notin issued
  <2>1. ~NotAfter(id, Last)
    BY <1>0 DEF NotAfter, Older
  <2> QED
    BY <1>0, <2>1 DEF OrderInv
<1> QED
  BY <1>1, <1>3, <1>4, <1>5, <1>6, <1>7 DEF IdsInv, OrderInv

LEMMA NewMillisecondStep ==
    ASSUME IdsInv, NEW t \in Threads, NewMillisecond(t)
    PROVE  IdsInv' /\ parts'[t] \notin issued
<1>1. <<now[t], 0>> \in Id /\ Older(Last, <<now[t], 0>>)
  BY MaxSeqAssumption, MaxClockAssumption DEF IdsInv, GeneratorOK, NewMillisecond, Id, Older, Last
<1>2. IdsInv' /\ <<now[t], 0>> \notin issued
  BY <1>1, DrawStep DEF NewMillisecond
<1>3. parts'[t] = <<now[t], 0>>
  BY DEF NewMillisecond, Draw, IdsInv, GeneratorOK
<1> QED
  BY <1>2, <1>3

LEMMA SameMillisecondStep ==
    ASSUME IdsInv, NEW t \in Threads, SameMillisecond(t)
    PROVE  IdsInv' /\ parts'[t] \notin issued
<1>1. <<last_ms, sequence + 1>> \in Id /\ Older(Last, <<last_ms, sequence + 1>>)
  BY MaxSeqAssumption, MaxClockAssumption DEF IdsInv, GeneratorOK, SameMillisecond, Id, Older, Last
<1>2. IdsInv' /\ <<last_ms, sequence + 1>> \notin issued
  BY <1>1, DrawStep DEF SameMillisecond
<1>3. parts'[t] = <<last_ms, sequence + 1>>
  BY DEF SameMillisecond, Draw, IdsInv, GeneratorOK
<1> QED
  BY <1>2, <1>3

LEMMA IdsInvStep == IdsInv /\ [GeneratorNext]_generatorVars => IdsInv'
<1> SUFFICES ASSUME IdsInv, [GeneratorNext]_generatorVars PROVE IdsInv'
  OBVIOUS
<1> USE MaxSeqAssumption, MaxClockAssumption, MaxBackAssumption
    DEF IdsInv, GeneratorOK, OrderInv, Id, InCall, NotAfter, Last, generator
<1>1. ASSUME NEW t \in Threads, Start(t) PROVE IdsInv'
  BY <1>1 DEF Start
<1>2. ASSUME NEW t \in Threads, Lock(t) PROVE IdsInv'
  BY <1>2 DEF Lock
<1>3. ASSUME NEW t \in Threads, NewMillisecond(t) PROVE IdsInv'
  BY <1>3, NewMillisecondStep
<1>4. ASSUME NEW t \in Threads, SameMillisecond(t) PROVE IdsInv'
  BY <1>4, SameMillisecondStep
<1>5. ASSUME NEW t \in Threads, SequenceFull(t) PROVE IdsInv'
  BY <1>5 DEF SequenceFull
<1>6. ASSUME NEW t \in Threads, Wait(t) PROVE IdsInv'
  BY <1>6 DEF Wait
<1>7. ASSUME NEW t \in Threads, Return(t) PROVE IdsInv'
  BY <1>7 DEF Return
<1>8. ASSUME NEW t \in Threads, EntropyFails(t) PROVE IdsInv'
  BY <1>8 DEF EntropyFails
<1>9. CASE Tick
  BY <1>9 DEF Tick
<1>10. CASE SetBack
  BY <1>10 DEF SetBack
<1>11. CASE UNCHANGED generatorVars
  BY <1>11 DEF generatorVars
<1> QED
  BY <1>1, <1>2, <1>3, <1>4, <1>5, <1>6, <1>7, <1>8, <1>9, <1>10, <1>11 DEF GeneratorNext, CallStep

LEMMA IdsInvariant == GeneratorSpec => []IdsInv
  BY IdsInvStarts, IdsInvStep, PTL DEF GeneratorSpec

(* The type invariant of the generator and its callers. *)
THEOREM GeneratorTyped == GeneratorSpec => []GeneratorOK
<1>1. IdsInv => GeneratorOK
  BY DEF IdsInv
<1> QED
  BY IdsInvariant, <1>1, PTL

(* A call that starts after another has returned gets the younger id. *)
THEOREM IdsAreOrdered == GeneratorSpec => []YoungerThanReturned
<1>1. IdsInv => YoungerThanReturned
  BY DEF IdsInv, OrderInv, YoungerThanReturned
<1> QED
  BY IdsInvariant, <1>1, PTL

(* No timestamp and sequence is given out twice. *)
THEOREM IdsAreNew == GeneratorSpec => DrawsAreNew
<1> DEFINE New == \A t \in Threads : stage[t] = "match" /\ stage'[t] = "entropy" => parts'[t] \notin issued
<1>1. IdsInv /\ [GeneratorNext]_generatorVars => [New]_generatorVars
  <2> SUFFICES ASSUME IdsInv, [GeneratorNext]_generatorVars, NEW t \in Threads, stage[t] = "match", stage'[t] = "entropy"
               PROVE  parts'[t] \notin issued \/ UNCHANGED generatorVars
    BY DEF New
  <2> USE DEF IdsInv, GeneratorOK
  <2>1. CASE NewMillisecond(t)
    BY <2>1, NewMillisecondStep
  <2>2. CASE SameMillisecond(t)
    BY <2>2, SameMillisecondStep
  <2>3. ASSUME NEW u \in Threads, u # t, CallStep(u) \/ Start(u) PROVE FALSE
    BY <2>3 DEF CallStep, Start, Lock, NewMillisecond, SameMillisecond, SequenceFull, Wait,
                Return, EntropyFails, Draw
  <2>4. ASSUME Start(t) \/ Lock(t) \/ SequenceFull(t) \/ Wait(t) \/ Return(t)
               \/ EntropyFails(t) \/ Tick \/ SetBack
        PROVE  FALSE
    BY <2>4 DEF Start, Lock, SequenceFull, Wait, Return, EntropyFails, Tick, SetBack
  <2>5. CASE UNCHANGED generatorVars
    BY <2>5
  <2> QED
    BY <2>1, <2>2, <2>3, <2>4, <2>5 DEF GeneratorNext, CallStep
<1> QED
  BY IdsInvariant, <1>1, PTL DEF GeneratorSpec, DrawsAreNew
====
