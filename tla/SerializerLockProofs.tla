------------------------ MODULE SerializerLockProofs ------------------------
(***************************************************************************)
(* Proofs about SerializerLock: with one thread per process the lock keeps *)
(* the processes apart, and readers see whole files, for any number of     *)
(* processes, items and open files.                                        *)
(*                                                                         *)
(* The inductive invariant says which open file has the lock (LockInv) and *)
(* why a file may be cut off (FileInv).                                    *)
(***************************************************************************)
EXTENDS SerializerLock, TLAPS

OneThreadPerProcess == \A s, t \in Threads : ProcOf[s] = ProcOf[t] => s = t

\* Points at which lock_handle is a file that the thread has opened.
Holding == Critical \cup {"opened", "waiting", "reopened", "unlocked"}

HandlesDistinct ==
    \A p, q \in Procs : handle[p] = handle[q] /\ handle[p] # NoHandle => p = q
BlockedOnOwn ==
    \A t \in Threads :
        blocked[t] = IF pc[t] = "waiting" THEN handle[ProcOf[t]] ELSE NoHandle
HandleOpen ==
    \A t \in Threads : pc[t] \in Holding => handle[ProcOf[t]] # NoHandle
LockHeld ==
    \A t \in Threads : pc[t] \in Critical => locker = handle[ProcOf[t]]

LockInv == HandlesDistinct /\ BlockedOnOwn /\ HandleOpen /\ LockHeld

CallFits ==
    \A t \in Threads :
        /\ pc[t] = "truncated" => call[t].op = "save"
        /\ call[t].op \in {"save", "delete", "read"} => call[t].item \in Items
EmptyExplained ==
    \A i \in Items :
        file[i] = "empty" =>
            i \in torn \/ \E t \in Threads : pc[t] = "truncated" /\ call[t].item = i

FileInv == CallFits /\ EmptyExplained

IInv == TypeOK /\ LockInv /\ FileInv

-----------------------------------------------------------------------------
(* Types                                                                   *)

LEMMA PointsFacts ==
    /\ Critical \subseteq Points /\ Holding \subseteq Points
    /\ NoCall \in Call
    /\ \A op \in {"none", "save", "delete", "read", "load"}, i \in Items \cup {NoItem} :
          [op |-> op, item |-> i] \in Call
BY DEF Critical, Holding, Points, NoCall, Call

\* What is left of the lock after a file is closed is the lock or nothing.
LEMMA StillLockedType ==
    ASSUME NEW h \in Handles \cup {NoHandle}, NEW handles, NEW calls
    PROVE  StillLocked(h, handles, calls) \in {h, NoHandle}
BY DEF StillLocked

LEMMA ReassignType ==
    ASSUME TypeOK, NEW p \in Procs, Reassign(p)
    PROVE  /\ handle' \in [Procs -> Handles \cup {NoHandle}]
           /\ locker' \in Handles \cup {NoHandle}
<1>1. PICK h \in Handles : /\ handle' = [handle EXCEPT ![p] = h]
                           /\ locker' = StillLocked(locker, handle', blocked)
  BY DEF Reassign
<1> QED
  BY <1>1, StillLockedType DEF TypeOK

\* A process that exits leaves well-typed state behind.
LEMMA ExitType ==
    ASSUME TypeOK, CallFits, NEW p \in Procs, Exit(p), UNCHANGED <<file, mtime>>
    PROVE  (TypeOK /\ CallFits)'
<1> DEFINE ours == {t \in Threads : ProcOf[t] = p}
<1>1. /\ state' \in [Procs -> {"down", "starting", "up"}]
      /\ handle' \in [Procs -> Handles \cup {NoHandle}]
      /\ failed' \in SUBSET Procs
  BY DEF TypeOK, Exit
<1>2. pc' = [t \in Threads |-> IF t \in ours THEN "idle" ELSE pc[t]]
  BY DEF Exit
<1>3. call' = [t \in Threads |-> IF t \in ours THEN NoCall ELSE call[t]]
  BY DEF Exit
<1>4. pc' \in [Threads -> Points]
  BY <1>2 DEF TypeOK, Points
<1>5. call' \in [Threads -> Call]
  BY <1>3, PointsFacts DEF TypeOK
<1>6. blocked' \in [Threads -> Handles \cup {NoHandle}]
  BY DEF TypeOK, Exit
<1>7. locker' \in Handles \cup {NoHandle}
  BY StillLockedType DEF TypeOK, Exit
<1>8. torn' \in SUBSET Items
  <2>1. \A t \in Threads : pc[t] = "truncated" => call[t].item \in Items
    BY DEF CallFits
  <2>2. torn' = torn \cup {call[t].item : t \in {s \in ours : pc[s] = "truncated"}}
    BY DEF Exit
  <2> QED
    BY <2>1, <2>2 DEF TypeOK
<1>9. CallFits'
  BY <1>2, <1>3 DEF CallFits, TypeOK, NoCall
<1> QED
  BY <1>1, <1>4, <1>5, <1>6, <1>7, <1>8, <1>9 DEF TypeOK

LEMMA RaisesType ==
    ASSUME TypeOK, CallFits, NEW t \in Threads, NEW isStorage \in BOOLEAN,
           Raises(t, isStorage)
    PROVE  (TypeOK /\ CallFits)'
<1>0. ProcOf[t] \in Procs
  BY LockAssumption
<1>1. CASE state[ProcOf[t]] = "starting"
  BY <1>0, <1>1, ExitType DEF Raises
<1>2. CASE state[ProcOf[t]] # "starting"
  <2>1. pc' = [pc EXCEPT ![t] = "idle"] /\ call' = [call EXCEPT ![t] = NoCall]
    BY <1>2 DEF Raises, Ends
  <2>2. pc' \in [Threads -> Points] /\ call' \in [Threads -> Call]
    BY <2>1, PointsFacts DEF TypeOK, Points
  <2>3. failed' \in SUBSET Procs
    BY <1>0, <1>2 DEF Raises, TypeOK
  <2>4. torn' \in SUBSET Items
    <3>1. pc[t] = "truncated" => call[t].item \in Items
      BY DEF CallFits
    <3> QED
      BY <1>2, <3>1 DEF Raises, TypeOK
  <2>5. CallFits'
    BY <2>1 DEF CallFits, TypeOK, NoCall
  <2> QED
    BY <1>2, <2>2, <2>3, <2>4, <2>5 DEF TypeOK, Raises
<1> QED
  BY <1>1, <1>2

\* A thread that moves to a point other than "truncated" keeps its call.
LEMMA MoveType ==
    ASSUME TypeOK, CallFits, NEW t \in Threads, NEW from, NEW to \in Points,
           Move(t, from, to), UNCHANGED call,
           to = "truncated" => call[t].op = "save"
    PROVE  pc' \in [Threads -> Points] /\ CallFits'
BY DEF Move, TypeOK, CallFits

\* A call that ends.
LEMMA EndsType ==
    ASSUME TypeOK, CallFits, NEW t \in Threads, NEW to \in Points, to # "truncated",
           pc' = [pc EXCEPT ![t] = to], call' = [call EXCEPT ![t] = NoCall]
    PROVE  pc' \in [Threads -> Points] /\ call' \in [Threads -> Call] /\ CallFits'
BY PointsFacts DEF TypeOK, CallFits, NoCall

\* A call that begins.
LEMMA BeginsType ==
    ASSUME TypeOK, CallFits, NEW t \in Threads,
           NEW op \in {"save", "delete", "read", "load"}, NEW i \in Items \cup {NoItem},
           op # "load" => i \in Items,
           Move(t, "idle", "grab"), call' = [call EXCEPT ![t] = [op |-> op, item |-> i]]
    PROVE  pc' \in [Threads -> Points] /\ call' \in [Threads -> Call] /\ CallFits'
<1>1. [op |-> op, item |-> i] \in Call
  BY DEF Call
<1>2. pc' = [pc EXCEPT ![t] = "grab"]
  BY DEF Move
<1>3. pc' \in [Threads -> Points] /\ call' \in [Threads -> Call]
  BY <1>1, <1>2 DEF TypeOK, Points
<1>4. CallFits'
  <2> SUFFICES ASSUME NEW s \in Threads
               PROVE  /\ pc'[s] = "truncated" => call'[s].op = "save"
                      /\ call'[s].op \in {"save", "delete", "read"} => call'[s].item \in Items
    BY DEF CallFits
  <2>1. CASE s = t
    BY <1>2, <2>1 DEF TypeOK
  <2>2. CASE s # t
    BY <1>2, <2>2 DEF TypeOK, CallFits
  <2> QED
    BY <2>1, <2>2
<1> QED
  BY <1>3, <1>4

LEMMA TypeStep == TypeOK /\ CallFits /\ [Next]_vars => (TypeOK /\ CallFits)'
<1> SUFFICES ASSUME TypeOK, CallFits, [Next]_vars
             PROVE  (TypeOK /\ CallFits)'
  OBVIOUS
<1> USE LockAssumption
<1>1. ASSUME NEW t \in Threads, Start(t)
      PROVE  (TypeOK /\ CallFits)'
  BY <1>1, BeginsType DEF Start, storage, TypeOK
<1>2. ASSUME NEW t \in Threads, NEW op \in {"save", "delete", "read"}, NEW i \in Items,
             Request(t, op, i)
      PROVE  (TypeOK /\ CallFits)'
  BY <1>2, BeginsType DEF Request, storage, TypeOK
<1>3. ASSUME NEW t \in Threads, GrabOpens(t)
      PROVE  (TypeOK /\ CallFits)'
  <2>1. pc' \in [Threads -> Points] /\ CallFits'
    BY <1>3, MoveType DEF GrabOpens, Points
  <2>2. handle' \in [Procs -> Handles \cup {NoHandle}] /\ locker' \in Handles \cup {NoHandle}
    BY <1>3, ReassignType DEF GrabOpens
  <2> QED
    BY <1>3, <2>1, <2>2 DEF GrabOpens, storage, TypeOK
<1>4. ASSUME NEW t \in Threads, GrabLocks(t)
      PROVE  (TypeOK /\ CallFits)'
  <2>1. CASE handle[ProcOf[t]] = NoHandle
    BY <1>4, <2>1, RaisesType DEF GrabLocks
  <2>2. CASE handle[ProcOf[t]] # NoHandle
    <3>1. pc' \in [Threads -> Points] /\ CallFits'
      BY <1>4, <2>2, MoveType DEF GrabLocks, Points
    <3> QED
      BY <1>4, <2>2, <3>1 DEF GrabLocks, storage, TypeOK
  <2> QED
    BY <2>1, <2>2
<1>5. ASSUME NEW t \in Threads, Granted(t)
      PROVE  (TypeOK /\ CallFits)'
  <2>1. pc' \in [Threads -> Points] /\ CallFits'
    BY <1>5, MoveType DEF Granted, Points
  <2>2. locker' \in Handles \cup {NoHandle}
    BY <1>5, StillLockedType DEF Granted, TypeOK
  <2> QED
    BY <1>5, <2>1, <2>2 DEF Granted, storage, TypeOK
<1>6. ASSUME NEW t \in Threads, Truncate(t) \/ Write(t) \/ Delete(t)
      PROVE  (TypeOK /\ CallFits)'
  <2>1. pc' \in [Threads -> Points] /\ CallFits'
    BY <1>6, MoveType DEF Truncate, Write, Delete, Points
  <2>2. file' \in [Items -> Contents] /\ torn' \in SUBSET Items
    BY <1>6 DEF Truncate, Write, Delete, Contents, TypeOK
  <2> QED
    BY <1>6, <2>1, <2>2 DEF Truncate, Write, Delete, TypeOK
<1>7. ASSUME NEW t \in Threads, Read(t) \/ NoStamp(t)
      PROVE  (TypeOK /\ CallFits)'
  <2>1. pc' \in [Threads -> Points] /\ CallFits'
    BY <1>7, MoveType DEF Read, NoStamp, Points
  <2> QED
    BY <1>7, <2>1 DEF Read, NoStamp, storage, TypeOK
<1>8. ASSUME NEW t \in Threads, ReadFails(t) \/ StorageRaises(t) \/ MtimeUnreadable(t)
      PROVE  (TypeOK /\ CallFits)'
  BY <1>8, RaisesType DEF ReadFails, StorageRaises, MtimeUnreadable
<1>9. ASSUME NEW t \in Threads, StampTruncates(t) \/ StampWrites(t) \/ MtimeCreates(t)
      PROVE  (TypeOK /\ CallFits)'
  <2>1. pc' \in [Threads -> Points] /\ CallFits'
    BY <1>9, MoveType DEF StampTruncates, StampWrites, MtimeCreates, Points
  <2>2. mtime' \in Contents
    BY <1>9 DEF StampTruncates, StampWrites, MtimeCreates, Contents
  <2> QED
    BY <1>9, <2>1, <2>2 DEF StampTruncates, StampWrites, MtimeCreates, TypeOK
<1>10. ASSUME NEW t \in Threads, ReleaseOpens(t)
       PROVE  (TypeOK /\ CallFits)'
  <2>1. pc' \in [Threads -> Points] /\ CallFits'
    BY <1>10, MoveType DEF ReleaseOpens, Points
  <2>2. handle' \in [Procs -> Handles \cup {NoHandle}] /\ locker' \in Handles \cup {NoHandle}
    BY <1>10, ReassignType DEF ReleaseOpens
  <2> QED
    BY <1>10, <2>1, <2>2 DEF ReleaseOpens, storage, TypeOK
<1>11. ASSUME NEW t \in Threads, ReleaseUnlocks(t)
       PROVE  (TypeOK /\ CallFits)'
  <2>1. CASE handle[ProcOf[t]] = NoHandle
    BY <1>11, <2>1, RaisesType DEF ReleaseUnlocks
  <2>2. CASE handle[ProcOf[t]] # NoHandle
    <3>1. pc' \in [Threads -> Points] /\ CallFits'
      BY <1>11, <2>2, MoveType DEF ReleaseUnlocks, Points
    <3> QED
      BY <1>11, <2>2, <3>1 DEF ReleaseUnlocks, storage, TypeOK
  <2> QED
    BY <2>1, <2>2
<1>12. ASSUME NEW t \in Threads, ReleaseCloses(t)
       PROVE  (TypeOK /\ CallFits)'
  <2>1. pc' \in [Threads -> Points] /\ call' \in [Threads -> Call] /\ CallFits'
    BY <1>12, EndsType DEF ReleaseCloses, Points
  <2>2. locker' \in Handles \cup {NoHandle}
    BY <1>12, StillLockedType DEF ReleaseCloses, TypeOK
  <2> QED
    BY <1>12, <2>1, <2>2 DEF ReleaseCloses, storage, TypeOK
<1>13. ASSUME NEW t \in Threads, Serves(t) \/ MtimeCreated(t)
       PROVE  (TypeOK /\ CallFits)'
  <2>1. pc' \in [Threads -> Points] /\ call' \in [Threads -> Call] /\ CallFits'
    BY <1>13, EndsType DEF Serves, MtimeCreated, Ends, Points
  <2> QED
    BY <1>13, <2>1 DEF Serves, MtimeCreated, storage, Contents, TypeOK
<1>14. ASSUME NEW p \in Procs, Crash(p)
       PROVE  (TypeOK /\ CallFits)'
  BY <1>14, ExitType DEF Crash
<1>15. CASE UNCHANGED vars
  BY <1>15 DEF vars, TypeOK, CallFits
<1> QED
  BY <1>1, <1>2, <1>3, <1>4, <1>5, <1>6, <1>7, <1>8, <1>9, <1>10, <1>11, <1>12,
     <1>13, <1>14, <1>15 DEF Next, Work

-----------------------------------------------------------------------------
(* The lock                                                                *)

\* A step of one thread that leaves the open files and the lock alone.
LEMMA QuietStep ==
    ASSUME TypeOK, LockInv, NEW t \in Threads, NEW to,
           pc' = [pc EXCEPT ![t] = to], UNCHANGED <<handle, blocked, locker>>,
           pc[t] # "waiting", to # "waiting",
           to \in Holding => pc[t] \in Holding,
           to \in Critical => pc[t] \in Critical
    PROVE  LockInv'
<1>1. HandlesDistinct'
  BY DEF LockInv, HandlesDistinct
<1>2. BlockedOnOwn'
  BY DEF LockInv, BlockedOnOwn, TypeOK
<1>3. HandleOpen'
  BY DEF LockInv, HandleOpen, TypeOK
<1>4. LockHeld'
  BY DEF LockInv, LockHeld, TypeOK
<1> QED
  BY <1>1, <1>2, <1>3, <1>4 DEF LockInv

\* A process that exits takes no lock of another process with it.
LEMMA ExitKeepsLock ==
    ASSUME TypeOK, LockInv, NEW p \in Procs, Exit(p)
    PROVE  LockInv'
<1> USE LockAssumption
<1>1. \A t \in Threads :
         /\ pc'[t] = IF ProcOf[t] = p THEN "idle" ELSE pc[t]
         /\ blocked'[t] = IF ProcOf[t] = p THEN NoHandle ELSE blocked[t]
  BY DEF Exit
<1>2. \A q \in Procs : handle'[q] = IF q = p THEN NoHandle ELSE handle[q]
  BY DEF Exit, TypeOK
<1>3. HandlesDistinct'
  BY <1>2 DEF LockInv, HandlesDistinct
<1>4. BlockedOnOwn'
  BY <1>1, <1>2 DEF LockInv, BlockedOnOwn
<1>5. HandleOpen'
  BY <1>1, <1>2 DEF LockInv, HandleOpen, Holding, Critical
<1>6. LockHeld'
  <2> SUFFICES ASSUME NEW t \in Threads, pc'[t] \in Critical
               PROVE  locker' = handle'[ProcOf[t]]
    BY DEF LockHeld
  <2>1. ProcOf[t] # p /\ pc[t] \in Critical
    BY <1>1 DEF Critical
  <2>2. locker = handle[ProcOf[t]] /\ handle'[ProcOf[t]] = handle[ProcOf[t]]
    BY <1>2, <2>1 DEF LockInv, LockHeld
  <2>3. locker' = StillLocked(locker, handle', blocked')
    BY DEF Exit
  <2> QED
    BY <2>2, <2>3 DEF StillLocked
<1> QED
  BY <1>3, <1>4, <1>5, <1>6 DEF LockInv

\* A thread that raises outside of flock.
LEMMA RaisesKeepsLock ==
    ASSUME TypeOK, LockInv, NEW t \in Threads, NEW isStorage \in BOOLEAN,
           pc[t] # "waiting", Raises(t, isStorage)
    PROVE  LockInv'
<1>1. CASE state[ProcOf[t]] = "starting"
  BY <1>1, ExitKeepsLock, LockAssumption DEF Raises
<1>2. CASE state[ProcOf[t]] # "starting"
  BY <1>2, QuietStep DEF Raises, Ends, Holding, Critical
<1> QED
  BY <1>1, <1>2

\* A thread alone in its process opens the lock file: no other process loses
\* its lock by that.
LEMMA ReassignKeepsLock ==
    ASSUME TypeOK, LockInv, OneThreadPerProcess, NEW t \in Threads,
           Reassign(ProcOf[t]), UNCHANGED blocked,
           NEW to \in {"opened", "reopened"}, pc[t] # "waiting",
           pc' = [pc EXCEPT ![t] = to]
    PROVE  LockInv'
<1> USE LockAssumption
<1> DEFINE p == ProcOf[t]
<1>1. PICK h \in Handles : /\ Unused(h)
                           /\ handle' = [handle EXCEPT ![p] = h]
                           /\ locker' = StillLocked(locker, handle', blocked)
  BY DEF Reassign
<1>2. \A q \in Procs : handle'[q] = IF q = p THEN h ELSE handle[q]
  BY <1>1 DEF TypeOK
<1>3. \A s \in Threads : s # t => ProcOf[s] # p /\ pc'[s] = pc[s]
  BY DEF OneThreadPerProcess, TypeOK
<1>4. pc'[t] = to /\ to \notin Critical /\ to # "waiting"
  BY DEF TypeOK, Critical
<1>5. HandlesDistinct'
  BY <1>1, <1>2 DEF LockInv, HandlesDistinct, Unused
<1>6. BlockedOnOwn'
  <2> SUFFICES ASSUME NEW s \in Threads
               PROVE  blocked'[s] = IF pc'[s] = "waiting" THEN handle'[ProcOf[s]]
                                    ELSE NoHandle
    BY DEF BlockedOnOwn
  <2>1. CASE s = t
    BY <1>4, <2>1 DEF LockInv, BlockedOnOwn
  <2>2. CASE s # t
    BY <1>2, <1>3, <2>2 DEF LockInv, BlockedOnOwn
  <2> QED
    BY <2>1, <2>2
<1>7. HandleOpen'
  <2> SUFFICES ASSUME NEW s \in Threads, pc'[s] \in Holding
               PROVE  handle'[ProcOf[s]] # NoHandle
    BY DEF HandleOpen
  <2>1. CASE s = t
    BY <1>2, <2>1
  <2>2. CASE s # t
    BY <1>2, <1>3, <2>2 DEF LockInv, HandleOpen
  <2> QED
    BY <2>1, <2>2
<1>8. LockHeld'
  <2> SUFFICES ASSUME NEW s \in Threads, pc'[s] \in Critical
               PROVE  locker' = handle'[ProcOf[s]]
    BY DEF LockHeld
  <2>1. s # t
    BY <1>4
  <2>2. locker = handle[ProcOf[s]] /\ handle'[ProcOf[s]] = handle[ProcOf[s]]
    BY <1>2, <1>3, <2>1 DEF LockInv, LockHeld
  <2> QED
    BY <1>1, <2>2 DEF StillLocked
<1> QED
  BY <1>5, <1>6, <1>7, <1>8 DEF LockInv

\* The kernel grants the lock only while no thread of another process has it.
LEMMA GrantedKeepsLock ==
    ASSUME TypeOK, LockInv, OneThreadPerProcess, NEW t \in Threads, Granted(t)
    PROVE  LockInv'
<1> USE LockAssumption
<1>1. pc[t] = "waiting" /\ \A s \in Threads : pc'[s] = IF s = t THEN "inside" ELSE pc[s]
  BY DEF Granted, Move, TypeOK
<1>2. blocked[t] = handle[ProcOf[t]] /\ handle[ProcOf[t]] # NoHandle
  BY <1>1 DEF LockInv, BlockedOnOwn, HandleOpen, Holding
<1>3. handle' = handle /\ locker \in {NoHandle, blocked[t]}
  BY DEF Granted
<1>4. \A s \in Threads : blocked'[s] = IF s = t THEN NoHandle ELSE blocked[s]
  BY DEF Granted, TypeOK
<1>5. locker' = handle[ProcOf[t]]
  BY <1>2 DEF Granted, StillLocked
<1>6. HandlesDistinct'
  BY <1>3 DEF LockInv, HandlesDistinct
<1>7. BlockedOnOwn'
  BY <1>1, <1>3, <1>4 DEF LockInv, BlockedOnOwn
<1>8. HandleOpen'
  BY <1>1, <1>2, <1>3 DEF LockInv, HandleOpen
<1>9. LockHeld'
  <2> SUFFICES ASSUME NEW s \in Threads, pc'[s] \in Critical, s # t
               PROVE  FALSE
    BY <1>3, <1>5 DEF LockHeld
  <2>1. locker = handle[ProcOf[s]] /\ handle[ProcOf[s]] # NoHandle
    BY <1>1 DEF LockInv, LockHeld, HandleOpen, Holding
  <2>2. handle[ProcOf[s]] = handle[ProcOf[t]]
    BY <1>2, <1>3, <2>1
  <2> QED
    BY <2>1, <2>2 DEF LockInv, HandlesDistinct, OneThreadPerProcess
<1> QED
  BY <1>6, <1>7, <1>8, <1>9 DEF LockInv

\* LOCK_UN and close() act on the thread's own open file.
LEMMA UnlockKeepsLock ==
    ASSUME TypeOK, LockInv, OneThreadPerProcess, NEW t \in Threads,
           Move(t, "reopened", "unlocked"), UNCHANGED <<handle, blocked>>,
           locker' = IF locker = handle[ProcOf[t]] THEN NoHandle ELSE locker
    PROVE  LockInv'
<1> USE LockAssumption
<1>1. pc[t] = "reopened" /\ \A s \in Threads : pc'[s] = IF s = t THEN "unlocked" ELSE pc[s]
  BY DEF Move, TypeOK
<1>2. HandlesDistinct'
  BY DEF LockInv, HandlesDistinct
<1>3. BlockedOnOwn'
  BY <1>1 DEF LockInv, BlockedOnOwn
<1>4. HandleOpen'
  BY <1>1 DEF LockInv, HandleOpen, Holding
<1>5. LockHeld'
  <2> SUFFICES ASSUME NEW s \in Threads, pc'[s] \in Critical
               PROVE  locker' = handle[ProcOf[s]]
    BY DEF LockHeld
  <2>1. s # t /\ pc[s] \in Critical
    BY <1>1 DEF Critical
  <2>2. locker = handle[ProcOf[s]] /\ handle[ProcOf[s]] # NoHandle
    BY <2>1 DEF LockInv, LockHeld, HandleOpen, Holding
  <2>3. handle[ProcOf[s]] # handle[ProcOf[t]]
    BY <2>1, <2>2 DEF LockInv, HandlesDistinct, OneThreadPerProcess
  <2> QED
    BY <2>2, <2>3
<1> QED
  BY <1>2, <1>3, <1>4, <1>5 DEF LockInv

LEMMA CloseKeepsLock ==
    ASSUME TypeOK, LockInv, OneThreadPerProcess, NEW t \in Threads, ReleaseCloses(t)
    PROVE  LockInv'
<1> USE LockAssumption
<1> DEFINE p == ProcOf[t]
<1>1. /\ pc[t] = "unlocked"
      /\ pc'[t] \in {"loaded", "idle"}
      /\ \A s \in Threads : s # t => pc'[s] = pc[s] /\ ProcOf[s] # p
  BY DEF ReleaseCloses, TypeOK, OneThreadPerProcess
<1>2. \A q \in Procs : handle'[q] = IF q = p THEN NoHandle ELSE handle[q]
  BY DEF ReleaseCloses, TypeOK
<1>3. blocked' = blocked /\ locker' = StillLocked(locker, handle', blocked)
  BY DEF ReleaseCloses
<1>4. HandlesDistinct'
  BY <1>2 DEF LockInv, HandlesDistinct
<1>5. BlockedOnOwn'
  BY <1>1, <1>2, <1>3 DEF LockInv, BlockedOnOwn
<1>6. HandleOpen'
  BY <1>1, <1>2 DEF LockInv, HandleOpen, Holding, Critical
<1>7. LockHeld'
  <2> SUFFICES ASSUME NEW s \in Threads, pc'[s] \in Critical
               PROVE  locker' = handle'[ProcOf[s]]
    BY DEF LockHeld
  <2>1. s # t /\ pc[s] \in Critical
    BY <1>1 DEF Critical
  <2>2. locker = handle[ProcOf[s]] /\ handle'[ProcOf[s]] = handle[ProcOf[s]]
    BY <1>1, <1>2, <2>1 DEF LockInv, LockHeld
  <2> QED
    BY <1>3, <2>2 DEF StillLocked
<1> QED
  BY <1>4, <1>5, <1>6, <1>7 DEF LockInv

\* Every step keeps the lock with the process that has it.
LEMMA LockStep ==
    ASSUME OneThreadPerProcess, TypeOK, LockInv, [Next]_vars
    PROVE  LockInv'
<1> USE LockAssumption
<1>1. ASSUME NEW t \in Threads,
             \/ Start(t)
             \/ \E op \in {"save", "delete", "read"}, i \in Items : Request(t, op, i)
      PROVE  LockInv'
  <2>1. /\ pc[t] = "idle" /\ pc' = [pc EXCEPT ![t] = "grab"]
        /\ UNCHANGED <<handle, blocked, locker>>
    BY <1>1 DEF Start, Request, Move
  <2> QED
    BY <2>1, QuietStep DEF Holding, Critical
<1>2. ASSUME NEW t \in Threads, GrabOpens(t)
      PROVE  LockInv'
  <2>1. pc[t] = "grab" /\ pc' = [pc EXCEPT ![t] = "opened"]
    BY <1>2 DEF GrabOpens, Move
  <2> QED
    BY <1>2, <2>1, ReassignKeepsLock DEF GrabOpens
<1>3. ASSUME NEW t \in Threads, GrabLocks(t)
      PROVE  LockInv'
  <2>1. CASE handle[ProcOf[t]] = NoHandle
    BY <1>3, <2>1, RaisesKeepsLock DEF GrabLocks
  <2>2. CASE handle[ProcOf[t]] # NoHandle
    <3>1. /\ pc[t] = "opened"
          /\ \A s \in Threads : pc'[s] = IF s = t THEN "waiting" ELSE pc[s]
          /\ \A s \in Threads : blocked'[s] = IF s = t THEN handle[ProcOf[t]] ELSE blocked[s]
          /\ UNCHANGED <<handle, locker>>
      BY <1>3, <2>2 DEF GrabLocks, Move, TypeOK
    <3>2. HandlesDistinct'
      BY <3>1 DEF LockInv, HandlesDistinct
    <3>3. BlockedOnOwn'
      BY <3>1 DEF LockInv, BlockedOnOwn
    <3>4. HandleOpen'
      BY <2>2, <3>1 DEF LockInv, HandleOpen
    <3>5. LockHeld'
      BY <3>1 DEF LockInv, LockHeld, Critical
    <3> QED
      BY <3>2, <3>3, <3>4, <3>5 DEF LockInv
  <2> QED
    BY <2>1, <2>2
<1>4. ASSUME NEW t \in Threads, Granted(t)
      PROVE  LockInv'
  BY <1>4, GrantedKeepsLock
<1>5. ASSUME NEW t \in Threads,
             \/ Truncate(t) \/ Write(t) \/ Delete(t) \/ Read(t)
             \/ StampTruncates(t) \/ StampWrites(t) \/ NoStamp(t)
      PROVE  LockInv'
  <2>1. PICK to \in {"truncated", "stored", "stamping", "stamped"} :
             /\ pc[t] \in Critical /\ pc' = [pc EXCEPT ![t] = to]
             /\ UNCHANGED <<handle, blocked, locker>>
    BY <1>5 DEF Truncate, Write, Delete, Read, StampTruncates, StampWrites, NoStamp,
                Move, Critical, storage
  <2> QED
    BY <2>1, QuietStep DEF Holding, Critical
<1>6. ASSUME NEW t \in Threads, ReadFails(t) \/ StorageRaises(t) \/ MtimeUnreadable(t)
      PROVE  LockInv'
  BY <1>6, RaisesKeepsLock DEF ReadFails, StorageRaises, MtimeUnreadable
<1>7. ASSUME NEW t \in Threads, ReleaseOpens(t)
      PROVE  LockInv'
  <2>1. pc[t] = "stamped" /\ pc' = [pc EXCEPT ![t] = "reopened"]
    BY <1>7 DEF ReleaseOpens, Move
  <2> QED
    BY <1>7, <2>1, ReassignKeepsLock DEF ReleaseOpens
<1>8. ASSUME NEW t \in Threads, ReleaseUnlocks(t)
      PROVE  LockInv'
  <2>1. CASE handle[ProcOf[t]] = NoHandle
    BY <1>8, <2>1, RaisesKeepsLock DEF ReleaseUnlocks
  <2>2. CASE handle[ProcOf[t]] # NoHandle
    BY <1>8, <2>2, UnlockKeepsLock DEF ReleaseUnlocks
  <2> QED
    BY <2>1, <2>2
<1>9. ASSUME NEW t \in Threads, ReleaseCloses(t)
      PROVE  LockInv'
  BY <1>9, CloseKeepsLock
<1>10. ASSUME NEW t \in Threads, Serves(t) \/ MtimeCreates(t) \/ MtimeCreated(t)
       PROVE  LockInv'
  <2>1. PICK to \in {"idle", "creating"} :
             /\ pc[t] \in {"loaded", "creating"} /\ pc' = [pc EXCEPT ![t] = to]
             /\ UNCHANGED <<handle, blocked, locker>>
    BY <1>10 DEF Serves, MtimeCreates, MtimeCreated, Ends, Move, storage
  <2> QED
    BY <2>1, QuietStep DEF Holding, Critical
<1>11. ASSUME NEW p \in Procs, Crash(p)
       PROVE  LockInv'
  BY <1>11, ExitKeepsLock DEF Crash
<1>12. CASE UNCHANGED vars
  BY <1>12 DEF vars, LockInv, HandlesDistinct, BlockedOnOwn, HandleOpen, LockHeld
<1> QED
  BY <1>1, <1>2, <1>3, <1>4, <1>5, <1>6, <1>7, <1>8, <1>9, <1>10, <1>11, <1>12
     DEF Next, Work

-----------------------------------------------------------------------------
(* The files                                                               *)

\* An exit or an exception in a write is recorded as the cause.
LEMMA RaisesExplained ==
    ASSUME TypeOK, FileInv, NEW t \in Threads, NEW isStorage \in BOOLEAN,
           Raises(t, isStorage)
    PROVE  EmptyExplained'
<1> SUFFICES ASSUME NEW i \in Items, file'[i] = "empty", i \notin torn'
             PROVE  \E s \in Threads : pc'[s] = "truncated" /\ call'[s].item = i
  BY DEF EmptyExplained
<1>1. torn \subseteq torn' /\ file' = file
  BY DEF Raises, Exit
<1>2. PICK s \in Threads : pc[s] = "truncated" /\ call[s].item = i
  BY <1>1 DEF FileInv, EmptyExplained
<1>3. CASE state[ProcOf[t]] = "starting"
  <2>1. ProcOf[s] # ProcOf[t]
    BY <1>2, <1>3 DEF Raises, Exit
  <2> QED
    BY <1>2, <1>3, <2>1 DEF Raises, Exit
<1>4. CASE state[ProcOf[t]] # "starting"
  <2>1. s # t
    BY <1>2, <1>4 DEF Raises
  <2> QED
    BY <1>2, <1>4, <2>1 DEF Raises, Ends, TypeOK
<1> QED
  BY <1>3, <1>4

LEMMA CrashExplained ==
    ASSUME TypeOK, FileInv, NEW p \in Procs, Crash(p)
    PROVE  EmptyExplained'
<1> SUFFICES ASSUME NEW i \in Items, file'[i] = "empty", i \notin torn'
             PROVE  \E s \in Threads : pc'[s] = "truncated" /\ call'[s].item = i
  BY DEF EmptyExplained
<1>1. torn \subseteq torn' /\ file' = file
  BY DEF Crash, Exit
<1>2. PICK s \in Threads : pc[s] = "truncated" /\ call[s].item = i
  BY <1>1 DEF FileInv, EmptyExplained
<1>3. ProcOf[s] # p
  BY <1>2 DEF Crash, Exit
<1> QED
  BY <1>2, <1>3 DEF Crash, Exit

\* A step that writes no item's file, by a thread that is not in a write.
LEMMA OtherExplained ==
    ASSUME TypeOK, FileInv, NEW t \in Threads, pc[t] # "truncated",
           \A s \in Threads : s # t => pc'[s] = pc[s] /\ call'[s] = call[s],
           UNCHANGED <<file, torn>>
    PROVE  EmptyExplained'
<1> SUFFICES ASSUME NEW i \in Items, file'[i] = "empty", i \notin torn'
             PROVE  \E s \in Threads : pc'[s] = "truncated" /\ call'[s].item = i
  BY DEF EmptyExplained
<1>1. PICK s \in Threads : pc[s] = "truncated" /\ call[s].item = i
  BY DEF FileInv, EmptyExplained
<1> QED
  BY <1>1

\* A step of a write.
LEMMA WriteExplained ==
    ASSUME TypeOK, FileInv, NEW t \in Threads, Truncate(t) \/ Write(t) \/ Delete(t)
    PROVE  EmptyExplained'
<1> SUFFICES ASSUME NEW i \in Items, file'[i] = "empty", i \notin torn'
             PROVE  \E s \in Threads : pc'[s] = "truncated" /\ call'[s].item = i
  BY DEF EmptyExplained
<1>1. CASE Truncate(t)
  <2>1. pc'[t] = "truncated" /\ call' = call
    BY <1>1 DEF Truncate, Move, TypeOK
  <2>2. CASE call[t].item = i
    BY <2>1, <2>2
  <2>3. CASE call[t].item # i
    <3>1. file[i] = "empty" /\ i \notin torn
      BY <1>1, <2>3 DEF Truncate, TypeOK
    <3>2. PICK s \in Threads : pc[s] = "truncated" /\ call[s].item = i
      BY <3>1 DEF FileInv, EmptyExplained
    <3> QED
      BY <1>1, <2>1, <3>2 DEF Truncate, Move, TypeOK
  <2> QED
    BY <2>2, <2>3
<1>2. CASE Write(t) \/ Delete(t)
  <2>1. call' = call /\ \A s \in Threads : s # t => pc'[s] = pc[s]
    BY <1>2 DEF Write, Delete, Move, TypeOK
  <2>2. call[t].item # i
    BY <1>2 DEF Write, Delete, TypeOK
  <2>3. file[i] = "empty" /\ i \notin torn
    BY <1>2, <2>2 DEF Write, Delete, TypeOK
  <2>4. PICK s \in Threads : pc[s] = "truncated" /\ call[s].item = i
    BY <2>3 DEF FileInv, EmptyExplained
  <2> QED
    BY <2>1, <2>2, <2>4
<1> QED
  BY <1>1, <1>2

\* Every step explains the files that are cut off.
LEMMA FileStep ==
    ASSUME TypeOK, FileInv, [Next]_vars
    PROVE  EmptyExplained'
<1>1. ASSUME NEW t \in Threads,
             \/ Start(t)
             \/ \E op \in {"save", "delete", "read"}, i \in Items : Request(t, op, i)
      PROVE  EmptyExplained'
  <2>1. /\ pc[t] # "truncated"
        /\ \A s \in Threads : s # t => pc'[s] = pc[s] /\ call'[s] = call[s]
        /\ UNCHANGED <<file, torn>>
    BY <1>1 DEF Start, Request, Move, storage, TypeOK
  <2> QED
    BY <2>1, OtherExplained
<1>2. ASSUME NEW t \in Threads, GrabLocks(t) \/ ReleaseUnlocks(t)
      PROVE  EmptyExplained'
  <2>1. CASE handle[ProcOf[t]] = NoHandle
    BY <1>2, <2>1, RaisesExplained DEF GrabLocks, ReleaseUnlocks
  <2>2. CASE handle[ProcOf[t]] # NoHandle
    <3>1. /\ pc[t] # "truncated"
          /\ \A s \in Threads : s # t => pc'[s] = pc[s] /\ call'[s] = call[s]
          /\ UNCHANGED <<file, torn>>
      BY <1>2, <2>2 DEF GrabLocks, ReleaseUnlocks, Move, storage, TypeOK
    <3> QED
      BY <3>1, OtherExplained
  <2> QED
    BY <2>1, <2>2
<1>3. ASSUME NEW t \in Threads,
             \/ GrabOpens(t) \/ Granted(t) \/ Read(t) \/ StampTruncates(t)
             \/ StampWrites(t) \/ NoStamp(t) \/ ReleaseOpens(t) \/ ReleaseCloses(t)
      PROVE  EmptyExplained'
  <2>1. /\ pc[t] # "truncated"
        /\ \A s \in Threads : s # t => pc'[s] = pc[s] /\ call'[s] = call[s]
        /\ UNCHANGED <<file, torn>>
    BY <1>3 DEF GrabOpens, Granted, Read, StampTruncates, StampWrites, NoStamp,
                ReleaseOpens, ReleaseCloses, Move, storage, TypeOK
  <2> QED
    BY <2>1, OtherExplained
<1>4. ASSUME NEW t \in Threads, Serves(t) \/ MtimeCreates(t) \/ MtimeCreated(t)
      PROVE  EmptyExplained'
  <2>1. /\ pc[t] # "truncated"
        /\ \A s \in Threads : s # t => pc'[s] = pc[s] /\ call'[s] = call[s]
        /\ UNCHANGED <<file, torn>>
    BY <1>4 DEF Serves, MtimeCreates, MtimeCreated, Ends, Move, storage, TypeOK
  <2> QED
    BY <2>1, OtherExplained
<1>5. ASSUME NEW t \in Threads, Truncate(t) \/ Write(t) \/ Delete(t)
      PROVE  EmptyExplained'
  BY <1>5, WriteExplained
<1>6. ASSUME NEW t \in Threads, ReadFails(t) \/ StorageRaises(t) \/ MtimeUnreadable(t)
      PROVE  EmptyExplained'
  BY <1>6, RaisesExplained DEF ReadFails, StorageRaises, MtimeUnreadable
<1>7. ASSUME NEW p \in Procs, Crash(p)
      PROVE  EmptyExplained'
  BY <1>7, CrashExplained
<1>8. CASE UNCHANGED vars
  BY <1>8 DEF vars, FileInv, EmptyExplained
<1> QED
  BY <1>1, <1>2, <1>3, <1>4, <1>5, <1>6, <1>7, <1>8 DEF Next, Work

-----------------------------------------------------------------------------
(* Theorems                                                                *)

\* The inductive invariant, of processes that have one thread each.
THEOREM LockInvariant ==
    ASSUME OneThreadPerProcess
    PROVE  Spec => []IInv
<1> USE LockAssumption
<1>1. Init => IInv
  <2> SUFFICES ASSUME Init
               PROVE  IInv
    OBVIOUS
  <2>1. TypeOK
    BY PointsFacts DEF Init, TypeOK, Points, Contents
  <2>2. LockInv
    BY DEF Init, LockInv, HandlesDistinct, BlockedOnOwn, HandleOpen, LockHeld,
           Holding, Critical
  <2>3. FileInv
    BY DEF Init, FileInv, CallFits, EmptyExplained, NoCall
  <2> QED
    BY <2>1, <2>2, <2>3 DEF IInv
<1>2. IInv /\ [Next]_vars => IInv'
  BY OneThreadPerProcess, TypeStep, LockStep, FileStep DEF IInv, FileInv
<1> QED
  BY <1>1, <1>2, PTL DEF Spec

\* The flock keeps processes with one thread each apart (__grab_lock "(A)").
THEOREM LockExcludesProcesses ==
    ASSUME OneThreadPerProcess
    PROVE  Spec => []ProcessesExclusive
<1>1. IInv => ProcessesExclusive
  <2> SUFFICES ASSUME IInv, NEW s \in Threads, NEW t \in Threads,
                      pc[s] \in Critical, pc[t] \in Critical
               PROVE  ProcOf[s] = ProcOf[t]
    BY DEF ProcessesExclusive
  <2>1. handle[ProcOf[s]] = handle[ProcOf[t]] /\ handle[ProcOf[s]] # NoHandle
    BY DEF IInv, LockInv, LockHeld, HandleOpen, Holding
  <2> QED
    BY <2>1, LockAssumption DEF IInv, LockInv, HandlesDistinct
<1> QED
  BY <1>1, LockInvariant, PTL

\* What deserialize and deserialize_item read is whole, unless a write was cut
\* short by a kill or an exception.
THEOREM ReadersProtected ==
    ASSUME OneThreadPerProcess
    PROVE  Spec => []ReadersSeeWholeFiles
<1>1. IInv => ReadersSeeWholeFiles
  <2> SUFFICES ASSUME IInv, NEW t \in Threads, pc[t] = "inside", NEW i \in Reads(t),
                      file[i] = "empty", i \notin torn
               PROVE  FALSE
    BY DEF ReadersSeeWholeFiles
  <2>1. i \in Items
    BY DEF Reads, IInv, FileInv, CallFits
  <2>2. PICK s \in Threads : pc[s] = "truncated"
    BY <2>1 DEF IInv, FileInv, EmptyExplained
  <2>3. handle[ProcOf[s]] = handle[ProcOf[t]] /\ handle[ProcOf[s]] # NoHandle
    BY <2>2 DEF IInv, LockInv, LockHeld, HandleOpen, Holding, Critical
  <2>4. s = t
    BY <2>3, LockAssumption, OneThreadPerProcess
       DEF IInv, LockInv, HandlesDistinct, OneThreadPerProcess
  <2> QED
    BY <2>2, <2>4
<1> QED
  BY <1>1, LockInvariant, PTL
=============================================================================
