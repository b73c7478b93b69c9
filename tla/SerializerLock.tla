--------------------------- MODULE SerializerLock ---------------------------
(***************************************************************************)
(* The lock around the files of the item database, and the files under it. *)
(*                                                                         *)
(* Every process that uses the database takes an exclusive flock on        *)
(* /var/lib/cobbler/lock before it reads or writes a file.  An flock       *)
(* belongs to the open file it was taken on and ends when that is closed;  *)
(* the open file is kept in one attribute, lock_handle, which all threads  *)
(* of a process assign to, and Python closes a file when the last          *)
(* reference to it is dropped.                                             *)
(*                                                                         *)
(* The threads are taken statement by statement.  A process may be killed, *)
(* and a storage call may raise, between any two of them.                  *)
(***************************************************************************)
EXTENDS Naturals, FiniteSets

CONSTANTS
    Procs, Threads,
    ProcOf,          \* ProcOf[t]: the process that thread t belongs to
    Items,           \* the items that may have a file
    Handles,         \* the open files on the lock file
    NoHandle, NoItem

ASSUME LockAssumption ==
    /\ ProcOf \in [Threads -> Procs]
    /\ NoHandle \notin Handles
    /\ NoItem \notin Items

Contents == {"absent", "empty", "whole"}     \* "empty": cut off before its end

Call == [op: {"none", "save", "delete", "read", "load"}, item: Items \cup {NoItem}]
NoCall == [op |-> "none", item |-> NoItem]

Points == {"idle",
           "grab",        \* __grab_lock is to open the lock file
           "opened",      \* it has assigned lock_handle, and is to call flock
           "waiting",     \* in flock(LOCK_EX)
           "inside",      \* it has the lock; the storage call begins
           "truncated",   \* the item's file is open for writing
           "stored",      \* the storage call has returned
           "stamping",    \* the file .mtime is open for writing
           "stamped",     \* __release_lock is to open the lock file
           "reopened",    \* it has assigned lock_handle, and is to unlock
           "unlocked",    \* it is to close lock_handle
           "loaded",      \* start-up: the collections are read, .mtime is next
           "creating"}    \* start-up: .mtime did not exist and is being written

\* From where a thread has the lock until __release_lock gives it up.
Critical == {"inside", "truncated", "stored", "stamping", "stamped"}

VARIABLES
    state,     \* state[p]: "down", "starting" or "up"
    pc,        \* pc[t]: where thread t is in the serializer
    call,      \* call[t]: the operation it is in
    handle,    \* handle[p]: lock_handle; NoHandle when it is None or closed
    blocked,   \* blocked[t]: the open file its call of flock works on
    locker,    \* the open file that has the flock
    file,      \* file[i]: the contents of the file of item i
    mtime,     \* the contents of .mtime
    torn,      \* history: the items whose last write was cut short
    failed     \* history: the processes whose last storage call raised

vars == <<state, pc, call, handle, blocked, locker, file, mtime, torn, failed>>
storage == <<file, mtime, torn>>

TypeOK ==
    /\ state \in [Procs -> {"down", "starting", "up"}]
    /\ pc \in [Threads -> Points]
    /\ call \in [Threads -> Call]
    /\ handle \in [Procs -> Handles \cup {NoHandle}]
    /\ blocked \in [Threads -> Handles \cup {NoHandle}]
    /\ locker \in Handles \cup {NoHandle}
    /\ file \in [Items -> Contents]
    /\ mtime \in Contents
    /\ torn \in SUBSET Items
    /\ failed \in SUBSET Procs

Init ==
    /\ state = [p \in Procs |-> "down"]
    /\ pc = [t \in Threads |-> "idle"]
    /\ call = [t \in Threads |-> NoCall]
    /\ handle = [p \in Procs |-> NoHandle]
    /\ blocked = [t \in Threads |-> NoHandle]
    /\ locker = NoHandle
    /\ file = [i \in Items |-> "absent"]
    /\ mtime = "absent"
    /\ torn = {} /\ failed = {}

Move(t, from, to) == pc[t] = from /\ pc' = [pc EXCEPT ![t] = to]

-----------------------------------------------------------------------------
(* Open files                                                              *)

Unused(h) == /\ \A p \in Procs : handle[p] # h
             /\ \A t \in Threads : blocked[t] # h
             /\ locker # h

\* The flock of an open file that nothing refers to any more is released; a
\* system call that works on it is a reference.
StillLocked(h, handles, calls) ==
    IF (\E p \in Procs : handles[p] = h) \/ (\E t \in Threads : calls[t] = h)
    THEN h ELSE NoHandle

\* self.lock_handle = open(lock_file_location, "r+"): the file that it referred
\* to before is closed.
Reassign(p) ==
    \E h \in Handles :
        /\ Unused(h)
        /\ handle' = [handle EXCEPT ![p] = h]
        /\ locker' = StillLocked(locker, handle', blocked)

\* The call of the thread is over, with a result or an exception.
Ends(t) == /\ pc' = [pc EXCEPT ![t] = "idle"]
           /\ call' = [call EXCEPT ![t] = NoCall]

\* The process exits or is killed: its files are closed, its threads are gone.
Exit(p) ==
    LET ours == {t \in Threads : ProcOf[t] = p}
    IN  /\ state' = [state EXCEPT ![p] = "down"]
        /\ pc' = [t \in Threads |-> IF t \in ours THEN "idle" ELSE pc[t]]
        /\ call' = [t \in Threads |-> IF t \in ours THEN NoCall ELSE call[t]]
        /\ blocked' = [t \in Threads |-> IF t \in ours THEN NoHandle ELSE blocked[t]]
        /\ handle' = [handle EXCEPT ![p] = NoHandle]
        /\ locker' = StillLocked(locker, handle', blocked')
        /\ failed' = failed \ {p}
        /\ torn' = torn \cup {call[t].item : t \in {s \in ours : pc[s] = "truncated"}}

\* An exception ends a start-up, and with it the process; a request of a running
\* daemon is answered with a fault.  There is no "finally": the lock is kept.
Raises(t, isStorage) ==
    /\ IF state[ProcOf[t]] = "starting"
       THEN Exit(ProcOf[t])
       ELSE /\ Ends(t)
            /\ failed' = IF isStorage THEN failed \cup {ProcOf[t]} ELSE failed
            /\ torn' = IF pc[t] = "truncated" THEN torn \cup {call[t].item} ELSE torn
            /\ UNCHANGED <<state, handle, blocked, locker>>
    /\ UNCHANGED <<file, mtime>>
-----------------------------------------------------------------------------
(* Calls                                                                   *)

\* A daemon starts: its first thread reads the collections.
Start(t) ==
    /\ state[ProcOf[t]] = "down"
    /\ state' = [state EXCEPT ![ProcOf[t]] = "starting"]
    /\ Move(t, "idle", "grab")
    /\ call' = [call EXCEPT ![t] = [op |-> "load", item |-> NoItem]]
    /\ UNCHANGED <<handle, blocked, locker, storage, failed>>

\* A thread of a running daemon calls serialize_item, serialize_delete or
\* deserialize_item.
Request(t, op, i) ==
    /\ state[ProcOf[t]] = "up"
    /\ Move(t, "idle", "grab")
    /\ call' = [call EXCEPT ![t] = [op |-> op, item |-> i]]
    /\ UNCHANGED <<state, handle, blocked, locker, storage, failed>>

-----------------------------------------------------------------------------
(* __grab_lock                                                             *)

GrabOpens(t) ==
    /\ Move(t, "grab", "opened")
    /\ Reassign(ProcOf[t])
    /\ failed' = failed \ {ProcOf[t]}
    /\ UNCHANGED <<state, call, blocked, storage>>

\* Fault: what is read is read without the lock.
GrabLocksWritersOnly(t) ==
    /\ IF call[t].op \in {"read", "load"}
       THEN Move(t, "opened", "inside") /\ UNCHANGED blocked
       ELSE /\ Move(t, "opened", "waiting")
            /\ blocked' = [blocked EXCEPT ![t] = handle[ProcOf[t]]]
    /\ UNCHANGED <<state, call, handle, locker, storage, failed>>

\* flock(self.lock_handle.fileno(), LOCK_EX) begins, on the file that the
\* attribute refers to by now.  If another thread has closed that, ValueError
\* becomes SystemExit, of which a request makes a fault.
GrabLocks(t) ==
    IF handle[ProcOf[t]] = NoHandle
    THEN pc[t] = "opened" /\ Raises(t, FALSE)
    ELSE /\ Move(t, "opened", "waiting")
         /\ blocked' = [blocked EXCEPT ![t] = handle[ProcOf[t]]]
         /\ UNCHANGED <<state, call, handle, locker, storage, failed>>

\* Fault: the lock is shared.
GrantedShared(t) ==
    /\ Move(t, "waiting", "inside")
    /\ blocked' = [blocked EXCEPT ![t] = NoHandle]
    /\ locker' = StillLocked(blocked[t], handle, blocked')
    /\ UNCHANGED <<state, call, handle, storage, failed>>

\* The kernel grants the lock, and flock returns.  If the file was closed
\* meanwhile, that was its last reference, and the lock is gone at once.
Granted(t) ==
    /\ locker \in {NoHandle, blocked[t]}
    /\ Move(t, "waiting", "inside")
    /\ blocked' = [blocked EXCEPT ![t] = NoHandle]
    /\ locker' = StillLocked(blocked[t], handle, blocked')
    /\ UNCHANGED <<state, call, handle, storage, failed>>
-----------------------------------------------------------------------------
(* The file serializer                                                     *)

Truncate(t) ==
    /\ call[t].op = "save"
    /\ Move(t, "inside", "truncated")
    /\ file' = [file EXCEPT ![call[t].item] = "empty"]
    /\ UNCHANGED <<state, call, handle, blocked, locker, mtime, torn, failed>>

Write(t) ==
    /\ Move(t, "truncated", "stored")
    /\ file' = [file EXCEPT ![call[t].item] = "whole"]
    /\ torn' = torn \ {call[t].item}
    /\ UNCHANGED <<state, call, handle, blocked, locker, mtime, failed>>

Delete(t) ==
    /\ call[t].op = "delete"
    /\ Move(t, "inside", "stored")
    /\ file' = [file EXCEPT ![call[t].item] = "absent"]
    /\ torn' = torn \ {call[t].item}
    /\ UNCHANGED <<state, call, handle, blocked, locker, mtime, failed>>

\* The files that a read or a start-up parses.
Reads(t) == CASE call[t].op = "load" -> {i \in Items : file[i] # "absent"}
              [] call[t].op = "read" -> {call[t].item}
              [] OTHER -> {}

Read(t) ==
    /\ call[t].op \in {"read", "load"}
    /\ \A i \in Reads(t) : file[i] = "whole"
    /\ Move(t, "inside", "stored")
    /\ UNCHANGED <<state, call, handle, blocked, locker, storage, failed>>

\* A file that is missing, or is no JSON document.
ReadFails(t) ==
    /\ pc[t] = "inside"
    /\ call[t].op \in {"read", "load"}
    /\ \E i \in Reads(t) : file[i] # "whole"
    /\ Raises(t, TRUE)

\* A disk that is full, an item that cannot be serialized.
StorageRaises(t) ==
    /\ \/ pc[t] = "inside" /\ call[t].op \in {"save", "delete"}
       \/ pc[t] = "truncated"
    /\ Raises(t, TRUE)

-----------------------------------------------------------------------------
(* __release_lock                                                          *)

StampTruncates(t) ==
    /\ call[t].op \in {"save", "delete"}
    /\ Move(t, "stored", "stamping")
    /\ mtime' = "empty"
    /\ UNCHANGED <<state, call, handle, blocked, locker, file, torn, failed>>

StampWrites(t) ==
    /\ Move(t, "stamping", "stamped")
    /\ mtime' = "whole"
    /\ UNCHANGED <<state, call, handle, blocked, locker, file, torn, failed>>

NoStamp(t) ==
    /\ call[t].op \in {"read", "load"}
    /\ Move(t, "stored", "stamped")
    /\ UNCHANGED <<state, call, handle, blocked, locker, storage, failed>>

\* Fault: the file that is unlocked and closed is a local variable.
ReleaseOpensLocal(t) ==
    /\ pc[t] = "stamped"
    /\ pc' = [pc EXCEPT ![t] = IF call[t].op = "load" THEN "loaded" ELSE "idle"]
    /\ call' = [call EXCEPT ![t] = NoCall]
    /\ UNCHANGED <<state, handle, blocked, locker, storage, failed>>

\* The lock file is opened anew.  That, and not LOCK_UN, gives the lock up.
ReleaseOpens(t) ==
    /\ Move(t, "stamped", "reopened")
    /\ Reassign(ProcOf[t])
    /\ UNCHANGED <<state, call, blocked, storage, failed>>

\* LOCK_UN, or the same ValueError.
ReleaseUnlocks(t) ==
    IF handle[ProcOf[t]] = NoHandle
    THEN pc[t] = "reopened" /\ Raises(t, FALSE)
    ELSE /\ Move(t, "reopened", "unlocked")
         /\ locker' = IF locker = handle[ProcOf[t]] THEN NoHandle ELSE locker
         /\ UNCHANGED <<state, call, handle, blocked, storage, failed>>

ReleaseCloses(t) ==
    /\ pc[t] = "unlocked"
    /\ handle' = [handle EXCEPT ![ProcOf[t]] = NoHandle]
    /\ locker' = StillLocked(locker, handle', blocked)
    /\ pc' = [pc EXCEPT ![t] = IF call[t].op = "load" THEN "loaded" ELSE "idle"]
    /\ call' = [call EXCEPT ![t] = NoCall]
    /\ UNCHANGED <<state, blocked, storage, failed>>

-----------------------------------------------------------------------------
(* The end of a start-up: last_modified_time, which takes no lock          *)

Serves(t) ==
    /\ pc[t] = "loaded" /\ mtime = "whole"
    /\ Ends(t)
    /\ state' = [state EXCEPT ![ProcOf[t]] = "up"]
    /\ UNCHANGED <<handle, blocked, locker, storage, failed>>

MtimeCreates(t) ==
    /\ mtime = "absent"
    /\ Move(t, "loaded", "creating")
    /\ mtime' = "empty"
    /\ UNCHANGED <<state, call, handle, blocked, locker, file, torn, failed>>

MtimeCreated(t) ==
    /\ pc[t] = "creating"
    /\ mtime' = "whole"
    /\ Ends(t)
    /\ state' = [state EXCEPT ![ProcOf[t]] = "up"]
    /\ UNCHANGED <<handle, blocked, locker, file, torn, failed>>

\* float("") raises ValueError.
MtimeUnreadable(t) ==
    /\ pc[t] = "loaded" /\ mtime = "empty"
    /\ Raises(t, FALSE)

-----------------------------------------------------------------------------
Crash(p) ==
    /\ state[p] # "down"
    /\ Exit(p)
    /\ UNCHANGED <<file, mtime>>

\* What a thread goes on with once it is in the serializer.
Work(t) ==
    \/ GrabOpens(t) \/ GrabLocks(t)
    \/ Truncate(t) \/ Write(t) \/ Delete(t) \/ Read(t) \/ ReadFails(t)
    \/ StampTruncates(t) \/ StampWrites(t) \/ NoStamp(t)
    \/ ReleaseOpens(t) \/ ReleaseUnlocks(t) \/ ReleaseCloses(t)
    \/ Serves(t) \/ MtimeCreates(t) \/ MtimeCreated(t) \/ MtimeUnreadable(t)

Next ==
    \/ \E t \in Threads :
          \/ Start(t)
          \/ \E op \in {"save", "delete", "read"}, i \in Items : Request(t, op, i)
          \/ Work(t) \/ Granted(t) \/ StorageRaises(t)
    \/ \E p \in Procs : Crash(p)

Spec == Init /\ [][Next]_vars

\* Threads run on while they are in the serializer, and the kernel serves the
\* callers of flock in turn.
FairSpec == Spec /\ \A t \in Threads : WF_vars(Work(t)) /\ SF_vars(Granted(t))
-----------------------------------------------------------------------------
(* Properties                                                              *)

\* "(A) flock to avoid multiple process access": no two processes are between
\* __grab_lock and __release_lock at the same time.
ProcessesExclusive ==
    \A s, t \in Threads :
        pc[s] \in Critical /\ pc[t] \in Critical => ProcOf[s] = ProcOf[t]

\* A start-up or a read of an item finds a file cut off only if the process that
\* wrote it was killed, or its storage call raised, before the end of the write.
ReadersSeeWholeFiles ==
    \A t \in Threads :
        pc[t] = "inside" => \A i \in Reads(t) : file[i] = "empty" => i \in torn

\* A caller of flock gets the lock, unless a storage call has raised: then its
\* process keeps the lock until it uses the serializer again, or ends.
LockGranted ==
    \A t \in Threads : pc[t] = "waiting" ~> pc[t] # "waiting" \/ failed # {}
=============================================================================
