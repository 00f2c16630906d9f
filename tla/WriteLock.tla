---- MODULE WriteLock ----
(***************************************************************************)
(* AppendLogWriteGuard (storage_append_log.rs): what makes an open of a    *)
(* database path its only writer.  Openers (threads that call open) first  *)
(* enter the path in a set of their process, then create or open the lock  *)
(* file next to the database and flock it without waiting.  Dropping the   *)
(* guard takes the path out of the set, unlocks the file, REMOVES it, and  *)
(* closes it, in this order; each is a step of its own.                    *)
(*                                                                         *)
(* A directory entry names an inode; flock is on the inode, so two openers *)
(* exclude each other only while they have the same inode open.            *)
(***************************************************************************)
EXTENDS FiniteSets

CONSTANTS
    Openers,
    Processes,
    Process,  \* the process of each opener
    Inodes,
    NoInode,  \* no lock file, no file open
    NoOpener  \* the inode is not locked

ASSUME ProcessAssumption == Process \in [Openers -> Processes]
ASSUME NoInodeAssumption == NoInode \notin Inodes
ASSUME NoOpenerAssumption == NoOpener \notin Openers

VARIABLES
    openPaths, \* processes whose append_log_open_paths holds the path
    entry,     \* inode the lock file's directory entry names
    flocked,   \* opener that has each inode locked
    pc,        \* step of each opener
    fd,        \* inode each opener has open
    raced      \* a lock file was removed that another opener had open

vars == <<openPaths, entry, flocked, pc, fd, raced>>

TypeOK ==
    /\ openPaths \subseteq Processes
    /\ entry \in Inodes \cup {NoInode}
    /\ flocked \in [Inodes -> Openers \cup {NoOpener}]
    /\ pc \in [Openers -> {"idle", "open", "flock", "held", "unlock", "remove", "close"}]
    /\ fd \in [Openers -> Inodes \cup {NoInode}]
    /\ raced \in BOOLEAN

Init ==
    /\ openPaths = {} /\ entry = NoInode
    /\ flocked = [i \in Inodes |-> NoOpener]
    /\ pc = [o \in Openers |-> "idle"]
    /\ fd = [o \in Openers |-> NoInode]
    /\ raced = FALSE

-----------------------------------------------------------------------------
Goto(o, step) == pc' = [pc EXCEPT ![o] = step]

(* Mutant: the path is entered whether or not it was there. *)
EnterUnchecked(o) ==
    /\ pc[o] = "idle"
    /\ openPaths' = openPaths \cup {Process[o]}
    /\ Goto(o, "open")
    /\ UNCHANGED <<entry, flocked, fd, raced>>

(* ProcessOpenGuard::acquire. *)
EnterProcess(o) ==
    /\ pc[o] = "idle" /\ Process[o] \notin openPaths
    /\ openPaths' = openPaths \cup {Process[o]}
    /\ Goto(o, "open")
    /\ UNCHANGED <<entry, flocked, fd, raced>>

(* "already open for write in this process": nothing to undo. *)
ProcessRefuses(o) ==
    /\ pc[o] = "idle" /\ Process[o] \in openPaths
    /\ UNCHANGED vars

(* Open the lock file, or create it under an inode nobody refers to. *)
OpenLockFile(o) ==
    /\ pc[o] = "open"
    /\ \E i \in Inodes :
         /\ IF entry # NoInode THEN i = entry ELSE \A q \in Openers : fd[q] # i
         /\ entry' = i
         /\ fd' = [fd EXCEPT ![o] = i]
    /\ Goto(o, "flock")
    /\ UNCHANGED <<openPaths, flocked, raced>>

OpenLockFileFails(o) ==
    /\ pc[o] = "open"
    /\ openPaths' = openPaths \ {Process[o]}
    /\ Goto(o, "idle")
    /\ UNCHANGED <<entry, flocked, fd, raced>>

(* Mutant: the lock is shared with the openers that have it. *)
FlockShared(o) ==
    /\ pc[o] = "flock"
    /\ flocked' = [flocked EXCEPT ![fd[o]] = o]
    /\ Goto(o, "held")
    /\ UNCHANGED <<openPaths, entry, fd, raced>>

Flock(o) ==
    /\ pc[o] = "flock" /\ flocked[fd[o]] = NoOpener
    /\ flocked' = [flocked EXCEPT ![fd[o]] = o]
    /\ Goto(o, "held")
    /\ UNCHANGED <<openPaths, entry, fd, raced>>

(* Mutant: the path is left in the set of the process. *)
FlockRefusedKeepsPath(o) ==
    /\ pc[o] = "flock" /\ flocked[fd[o]] # NoOpener
    /\ fd' = [fd EXCEPT ![o] = NoInode]
    /\ Goto(o, "idle")
    /\ UNCHANGED <<openPaths, entry, flocked, raced>>

(* "already open for write by another process": the file is closed, the *)
(* process guard dropped; the lock file stays.                          *)
FlockRefused(o) ==
    /\ pc[o] = "flock" /\ flocked[fd[o]] # NoOpener
    /\ openPaths' = openPaths \ {Process[o]}
    /\ fd' = [fd EXCEPT ![o] = NoInode]
    /\ Goto(o, "idle")
    /\ UNCHANGED <<entry, flocked, raced>>

-----------------------------------------------------------------------------
(* Drop, field by field; an open that fails on the log drops the same way. *)

LeaveProcess(o) ==
    /\ pc[o] = "held"
    /\ openPaths' = openPaths \ {Process[o]}
    /\ Goto(o, "unlock")
    /\ UNCHANGED <<entry, flocked, fd, raced>>

Unlock(o) ==
    /\ pc[o] = "unlock"
    /\ flocked' = [flocked EXCEPT ![fd[o]] = NoOpener]
    /\ Goto(o, "remove")
    /\ UNCHANGED <<openPaths, entry, fd, raced>>

(* remove_file takes away whatever file the entry names by now. *)
RemoveLockFile(o) ==
    /\ pc[o] = "remove"
    /\ raced' = (raced \/ \E q \in Openers \ {o} : fd[q] = entry /\ entry # NoInode)
    /\ entry' = NoInode
    /\ Goto(o, "close")
    /\ UNCHANGED <<openPaths, flocked, fd>>

CloseLockFile(o) ==
    /\ pc[o] = "close"
    /\ fd' = [fd EXCEPT ![o] = NoInode]
    /\ Goto(o, "idle")
    /\ UNCHANGED <<openPaths, entry, flocked, raced>>

(* The process dies: its set of paths is gone, the kernel closes its files *)
(* and drops their locks, the lock file stays behind.                      *)
Crash(p) ==
    LET dead == {o \in Openers : Process[o] = p} IN
    /\ \E o \in dead : pc[o] # "idle"
    /\ openPaths' = openPaths \ {p}
    /\ flocked' = [i \in Inodes |-> IF flocked[i] \in dead THEN NoOpener ELSE flocked[i]]
    /\ pc' = [o \in Openers |-> IF o \in dead THEN "idle" ELSE pc[o]]
    /\ fd' = [o \in Openers |-> IF o \in dead THEN NoInode ELSE fd[o]]
    /\ UNCHANGED <<entry, raced>>

Step(o) ==
    \/ EnterProcess(o) \/ ProcessRefuses(o)
    \/ OpenLockFile(o) \/ OpenLockFileFails(o)
    \/ Flock(o) \/ FlockRefused(o)
    \/ LeaveProcess(o) \/ Unlock(o) \/ RemoveLockFile(o) \/ CloseLockFile(o)

Next == (\E o \in Openers : Step(o)) \/ (\E p \in Processes : Crash(p))

Spec == Init /\ [][Next]_vars

-----------------------------------------------------------------------------
Writers == {o \in Openers : pc[o] = "held"}

AtMostOne(S) == \A a, b \in S : a = b

(* Two threads of one process never write to the path together, in every *)
(* interleaving of opens, drops and failed opens.                        *)
OneWriterPerProcess ==
    \A p \in Processes : AtMostOne({o \in Writers : Process[o] = p})

(* Two processes never write to the path together, unless a drop removed a *)
(* lock file that another open had already opened.                         *)
SingleWriterUnlessRaced == ~raced => AtMostOne(Writers)

(* An open is refused only while another open or drop of the path is under *)
(* way or holds it: neither a failed open, a drop, nor the lock file a     *)
(* crashed process left behind locks anybody out.                          *)
RefusedOnlyWhenBusy ==
    \A o \in Openers :
        \/ pc[o] = "idle" /\ Process[o] \in openPaths
        \/ pc[o] = "flock" /\ flocked[fd[o]] # NoOpener
        => \E q \in Openers \ {o} : pc[q] # "idle"

(* STORAGE-ENGINE.md: "Kronroe currently enforces single-writer semantics  *)
(* for on-disk databases."                                                 *)
SingleWriter == AtMostOne(Writers)
====
