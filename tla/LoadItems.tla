------------------------------ MODULE LoadItems ------------------------------
(***************************************************************************)
(* Lazy loading.  With lazy_start the daemon lists an item for every file  *)
(* without reading it.  An item is read when one of its properties is read *)
(* (LazyProperty), when its collection is searched (find), or by the       *)
(* background loader, a thread that goes through all items.  A semaphore   *)
(* is meant to suspend the loader while requests and tasks run: they try   *)
(* to take a permit when they begin, do not care whether they got one, and *)
(* always put one back when they end.                                      *)
(*                                                                         *)
(* The items are those of one collection that has parents (profiles,       *)
(* menus), and the parent is the one attribute of an item.  Loading runs   *)
(* in the threads, statement by statement.                                 *)
(***************************************************************************)
EXTENDS Naturals, Sequences, FiniteSets

CONSTANTS
    Items, Nil,
    Listing,       \* the items in the order of the listing of the collection
    Requests,      \* the threads of requests and tasks
    Loader,        \* the thread of the background loader
    FirstParent,   \* FirstParent[i]: the parent in the file of i
    Broken,        \* the items whose file cannot be loaded
    Edits,         \* the edits of requests: pairs of an item and its new parent
    MaxPermits     \* bound: no request begins beyond this count

ASSUME LoadAssumption ==
    /\ Nil \notin Items
    /\ Listing \in Seq(Items) /\ {Listing[n] : n \in DOMAIN Listing} = Items
    /\ Loader \notin Requests
    /\ FirstParent \in [Items -> Items \cup {Nil}]
    /\ Broken \subseteq Items
    /\ Edits \subseteq {e \in Items \X (Items \cup {Nil}) : e[1] # e[2]}
    /\ MaxPermits \in Nat

Threads == Requests \cup {Loader}

\* A call of deserialize: what it has read, and _has_initialized as it found it.
Frame == [item: Items, step: {"read", "begin", "assign", "restore"},
          dict: Items \cup {Nil}, old: BOOLEAN]

Operations == {"none", "edit", "save", "find"}
NoWork == [op |-> "none", item |-> Nil, parent |-> Nil, todo |-> <<>>]
Work == [op: Operations, item: Items \cup {Nil}, parent: Items \cup {Nil},
         todo: Seq(Items)]

VARIABLES
    parent,      \* parent[i]: the attribute _parent of the object
    inmemory,    \* the items whose attribute _inmemory is set
    ready,       \* the items whose attribute _has_initialized is set
    file,        \* file[i]: the parent in the file of i
    collLoaded,  \* Collection.inmemory
    sweeping,    \* Collection.deserialize_running
    lock,        \* the thread that holds Collection.lock, or Nil
    permits,     \* the value of the semaphore load_items_lock
    pc,          \* pc[t]: where thread t is
    work,        \* work[t]: what it is doing
    stack        \* stack[t]: its nested calls of deserialize

lvars == <<parent, inmemory, ready, file, collLoaded, sweeping, lock, permits,
           pc, work, stack>>
store == <<parent, inmemory, ready, file>>
flags == <<collLoaded, sweeping, lock>>

\* A thread is between its requests, in the operation, before the listing of the
\* item or the end, in the loop of _deserialize, in the search, in add, or about
\* to put its permit back; the loader waits for a permit, holds it, or has ended.
Points == {"idle", "work", "sweep", "search", "index", "leave", "wait", "hold", "ended"}

LTypeOK ==
    /\ parent \in [Items -> Items \cup {Nil}]
    /\ inmemory \subseteq Items /\ ready \subseteq Items
    /\ file \in [Items -> Items \cup {Nil}]
    /\ collLoaded \in BOOLEAN /\ sweeping \in BOOLEAN
    /\ lock \in Threads \cup {Nil}
    /\ permits \in Nat
    /\ pc \in [Threads -> Points]
    /\ work \in [Threads -> Work]
    /\ stack \in [Threads -> Seq(Frame)]

\* After a lazy start: every item is a stub, and the loader has been started.
LInit ==
    /\ parent = [i \in Items |-> Nil]
    /\ inmemory = {} /\ ready = Items
    /\ file = FirstParent
    /\ collLoaded = FALSE /\ sweeping = FALSE /\ lock = Nil
    /\ permits = 1
    /\ pc = [t \in Threads |-> IF t = Loader THEN "wait" ELSE "idle"]
    /\ work = [t \in Threads |-> IF t = Loader THEN [NoWork EXCEPT !.todo = Listing] ELSE NoWork]
    /\ stack = [t \in Threads |-> <<>>]

-----------------------------------------------------------------------------
(* Loading one item                                                        *)

Loading(t) == stack[t] # <<>>
Top(t) == stack[t][Len(stack[t])]
Quiet(t, p) == pc[t] = p /\ ~Loading(t)

NewFrame(i) == [item |-> i, step |-> "read", dict |-> Nil, old |-> FALSE]
Push(s, i) == IF i \in ready THEN Append(s, NewFrame(i)) ELSE s
Step(t, f) == [stack EXCEPT ![t][Len(stack[t])] = f]

\* A property of i is read: LazyProperty loads an item that is a stub, but not
\* one that some thread is loading.
NeedsLoad(i) == i \notin inmemory /\ i \in ready
Touch(t, i) == /\ stack' = [stack EXCEPT ![t] = Push(@, i)]
               /\ UNCHANGED <<store, flags, permits, pc, work>>

\* Fault: the items that an item depends on are not loaded before it.
ReadFileAlone(t) ==
    /\ Loading(t) /\ Top(t).step = "read" /\ Top(t).item \notin Broken
    /\ stack' = Step(t, [Top(t) EXCEPT !.step = "begin", !.dict = file[Top(t).item]])
    /\ UNCHANGED <<store, flags, permits, pc, work>>

\* deserialize reads the file, and loads the parent first if that is a stub.
ReadFile(t) ==
    LET i == Top(t).item
        d == file[i]
        s == Step(t, [Top(t) EXCEPT !.step = "begin", !.dict = d])
    IN  /\ Loading(t) /\ Top(t).step = "read" /\ i \notin Broken
        /\ stack' = IF d # Nil /\ d \notin inmemory
                    THEN [s EXCEPT ![t] = Push(@, d)] ELSE s
        /\ UNCHANGED <<store, flags, permits, pc, work>>

\* from_dict switches _has_initialized off, assigns the attributes, inmemory
\* last, and puts _has_initialized back to what it was.
FromDictBegins(t) ==
    LET i == Top(t).item
    IN  /\ Loading(t) /\ Top(t).step = "begin"
        /\ ready' = ready \ {i}
        /\ stack' = Step(t, [Top(t) EXCEPT !.step = "assign", !.old = i \in ready])
        /\ UNCHANGED <<parent, inmemory, file, flags, permits, pc, work>>

\* The setters move the item in the indexes, under the lock of the collection.
FromDictAssigns(t) ==
    LET i == Top(t).item
    IN  /\ Loading(t) /\ Top(t).step = "assign"
        /\ lock = Nil
        /\ parent' = [parent EXCEPT ![i] = Top(t).dict]
        /\ inmemory' = inmemory \cup {i}
        /\ stack' = Step(t, [Top(t) EXCEPT !.step = "restore"])
        /\ UNCHANGED <<ready, file, flags, permits, pc, work>>

FromDictEnds(t) ==
    /\ Loading(t) /\ Top(t).step = "restore"
    /\ ready' = IF Top(t).old THEN ready \cup {Top(t).item} ELSE ready \ {Top(t).item}
    /\ stack' = [stack EXCEPT ![t] = SubSeq(@, 1, Len(@) - 1)]
    /\ UNCHANGED <<parent, inmemory, file, flags, permits, pc, work>>

\* Fault: a request that fails does not put its permit back.
UnwindsUnreleased(t) ==
    /\ stack' = [stack EXCEPT ![t] = <<>>]
    /\ work' = [work EXCEPT ![t] = NoWork]
    /\ pc' = [pc EXCEPT ![t] = IF t = Loader THEN "ended" ELSE "idle"]
    /\ lock' = IF lock = t THEN Nil ELSE lock
    /\ UNCHANGED <<parent, inmemory, file, collLoaded, sweeping, permits>>

\* An exception unwinds to the request, or ends the loader, whose permit the
\* with-statement puts back.  A search leaves deserialize_running set.
Unwinds(t) ==
    /\ stack' = [stack EXCEPT ![t] = <<>>]
    /\ work' = [work EXCEPT ![t] = NoWork]
    /\ pc' = [pc EXCEPT ![t] = IF t = Loader THEN "ended" ELSE "leave"]
    /\ permits' = IF t = Loader THEN permits + 1 ELSE permits
    /\ lock' = IF lock = t THEN Nil ELSE lock
    /\ UNCHANGED <<parent, inmemory, file, collLoaded, sweeping>>

\* The file is not JSON, or the dictionary is refused by a setter: from_dict does
\* not put _has_initialized back then.
LoadFails(t) ==
    /\ Loading(t) /\ Top(t).item \in Broken
    /\ ready' \in {ready, ready \ {Top(t).item}}
    /\ Unwinds(t)

Load(t) == \/ ReadFile(t) \/ LoadFails(t) \/ FromDictBegins(t)
           \/ FromDictAssigns(t) \/ FromDictEnds(t)

-----------------------------------------------------------------------------
(* Requests and tasks                                                      *)

\* Fault: the count goes down also when no permit was to be had.
EnterBlind(r) ==
    /\ Quiet(r, "idle")
    /\ permits' = permits - 1
    /\ pc' = [pc EXCEPT ![r] = "work"]
    /\ UNCHANGED <<store, flags, work, stack>>

\* _dispatch and CobblerThread.run: acquire(blocking=False), whose result is not
\* looked at.
Enter(r) ==
    /\ Quiet(r, "idle") /\ permits < MaxPermits
    /\ permits' = IF permits > 0 THEN permits - 1 ELSE 0
    /\ pc' = [pc EXCEPT ![r] = "work"]
    /\ UNCHANGED <<store, flags, work, stack>>

\* finally: release()
Leave(r) ==
    /\ Quiet(r, "leave")
    /\ permits' = permits + 1
    /\ pc' = [pc EXCEPT ![r] = "idle"]
    /\ work' = [work EXCEPT ![r] = NoWork]
    /\ UNCHANGED <<store, flags, stack>>

GoTo(r, p) == pc' = [pc EXCEPT ![r] = p]

Choose(r) ==
    /\ Quiet(r, "work") /\ work[r].op = "none"
    /\ \/ \E e \in Edits :
             work' = [work EXCEPT ![r] = [NoWork EXCEPT !.op = "edit", !.item = e[1], !.parent = e[2]]]
       \/ \E i \in Items : work' = [work EXCEPT ![r] = [NoWork EXCEPT !.op = "save", !.item = i]]
       \/ work' = [work EXCEPT ![r] = [NoWork EXCEPT !.op = "find"]]
    /\ UNCHANGED <<store, flags, permits, pc, stack>>

\* modify_item reads the name of the item, and the setter the depth of the new
\* parent: both are loaded if they are stubs.
EditLoads(r) ==
    /\ Quiet(r, "work") /\ work[r].op = "edit"
    /\ \E i \in {work[r].item, work[r].parent} \ {Nil} : NeedsLoad(i) /\ Touch(r, i)

Edit(r) ==
    /\ Quiet(r, "work") /\ work[r].op = "edit"
    /\ \A i \in {work[r].item, work[r].parent} \ {Nil} : ~NeedsLoad(i)
    /\ lock = Nil
    /\ parent' = [parent EXCEPT ![work[r].item] = work[r].parent]
    /\ GoTo(r, "leave")
    /\ UNCHANGED <<inmemory, ready, file, flags, permits, work, stack>>

SaveLoads(r) ==
    /\ Quiet(r, "work") /\ work[r].op = "save"
    /\ NeedsLoad(work[r].item) /\ Touch(r, work[r].item)

\* Collection.add takes the lock and puts an item in memory into the indexes.
SaveLocks(r) ==
    /\ Quiet(r, "work") /\ work[r].op = "save"
    /\ ~NeedsLoad(work[r].item)
    /\ lock = Nil /\ lock' = r
    /\ GoTo(r, "index")
    /\ UNCHANGED <<store, collLoaded, sweeping, permits, work, stack>>

\* The parents of i, as far as they go: what is in every set that has the parent of i
\* and the parents of its members.
Ancestors(i) ==
    {a \in Items : \A above \in SUBSET Items :
        (\A b \in above \cup {i} : parent[b] \in above \cup {Nil}) => a \in above}

\* The key of the index over the architecture is read from the top of the tree,
\* which would load a stub on the way.  Then the lock is released, and what
\* to_dict makes of the object goes to the file.
SaveIndexes(r) ==
    LET i == work[r].item
        stubs == {a \in Ancestors(i) : i \in inmemory /\ NeedsLoad(a)}
    IN  /\ Quiet(r, "index")
        /\ IF stubs # {}
           THEN \E a \in stubs : Touch(r, a)
           ELSE /\ lock' = Nil
                /\ file' = [file EXCEPT ![i] = parent[i]]
                /\ GoTo(r, "leave")
                /\ UNCHANGED <<parent, inmemory, ready, collLoaded, sweeping,
                               permits, work, stack>>

\* find: _deserialize loads the whole collection, unless it is loaded or another
\* thread is at it; then the items in memory are searched under the lock.
FindBegins(r) ==
    /\ Quiet(r, "work") /\ work[r].op = "find"
    /\ IF collLoaded \/ sweeping
       THEN GoTo(r, "search") /\ UNCHANGED <<sweeping, work>>
       ELSE /\ sweeping' = TRUE
            /\ work' = [work EXCEPT ![r].todo = Listing]
            /\ GoTo(r, "sweep")
    /\ UNCHANGED <<store, collLoaded, lock, permits, stack>>

FindLoads(r) ==
    /\ Quiet(r, "sweep") /\ work[r].todo # <<>>
    /\ LET i == Head(work[r].todo)
       IN  /\ work' = [work EXCEPT ![r].todo = Tail(@)]
           /\ stack' = IF i \notin inmemory THEN [stack EXCEPT ![r] = Push(@, i)] ELSE stack
    /\ UNCHANGED <<store, flags, permits, pc>>

FindLoaded(r) ==
    /\ Quiet(r, "sweep") /\ work[r].todo = <<>>
    /\ collLoaded' = TRUE /\ sweeping' = FALSE
    /\ GoTo(r, "search")
    /\ UNCHANGED <<store, lock, permits, work, stack>>

FindAnswers(r) ==
    /\ Quiet(r, "search") /\ lock = Nil
    /\ GoTo(r, "leave")
    /\ UNCHANGED <<store, flags, permits, work, stack>>

-----------------------------------------------------------------------------
(* The background loader                                                   *)

LoaderAcquires ==
    /\ Quiet(Loader, "wait") /\ work[Loader].todo # <<>>
    /\ permits > 0 /\ permits' = permits - 1
    /\ GoTo(Loader, "hold")
    /\ UNCHANGED <<store, flags, work, stack>>

LoaderLoads ==
    /\ Quiet(Loader, "hold") /\ work[Loader].item = Nil
    /\ LET i == Head(work[Loader].todo)
       IN  /\ work' = [work EXCEPT ![Loader].todo = Tail(@), ![Loader].item = i]
           /\ stack' = IF i \notin inmemory
                       THEN [stack EXCEPT ![Loader] = Push(@, i)] ELSE stack
    /\ UNCHANGED <<store, flags, permits, pc>>

LoaderReleases ==
    /\ Quiet(Loader, "hold") /\ work[Loader].item # Nil
    /\ permits' = permits + 1
    /\ work' = [work EXCEPT ![Loader].item = Nil]
    /\ GoTo(Loader, "wait")
    /\ UNCHANGED <<store, flags, stack>>

\* Fault: the collection counts as loaded before its last item is.
LoaderEndsEarly ==
    /\ Quiet(Loader, "wait") /\ Len(work[Loader].todo) <= 1
    /\ collLoaded' = TRUE
    /\ GoTo(Loader, "ended")
    /\ UNCHANGED <<store, sweeping, lock, permits, work, stack>>

LoaderEnds ==
    /\ Quiet(Loader, "wait") /\ work[Loader].todo = <<>>
    /\ collLoaded' = TRUE
    /\ GoTo(Loader, "ended")
    /\ UNCHANGED <<store, sweeping, lock, permits, work, stack>>

-----------------------------------------------------------------------------
Proceed(r) ==
    \/ Choose(r) \/ EditLoads(r) \/ Edit(r) \/ SaveLoads(r) \/ SaveLocks(r)
    \/ SaveIndexes(r) \/ FindBegins(r) \/ FindLoads(r)
    \/ FindLoaded(r) \/ FindAnswers(r) \/ Leave(r)

LoaderStep == LoaderLoads \/ LoaderReleases \/ LoaderEnds

LNext ==
    \/ \E t \in Threads : Load(t)
    \/ \E r \in Requests : Enter(r) \/ Proceed(r)
    \/ LoaderAcquires \/ LoaderStep

LSpec == LInit /\ [][LNext]_lvars

\* A request that has begun runs on, and so does the loader between taking and
\* putting back a permit.  Who waits for the semaphore or the lock is woken when
\* it is put back, and gets it at some time if that happens again and again.
FairLSpec ==
    /\ LSpec
    /\ \A r \in Requests : WF_lvars(Proceed(r))
    /\ \A t \in Threads : WF_lvars(Load(t)) /\ SF_lvars(FromDictAssigns(t))
    /\ WF_lvars(LoaderStep)
    /\ SF_lvars(LoaderAcquires)

-----------------------------------------------------------------------------
(* Properties                                                              *)

Holding == {r \in Requests : pc[r] # "idle"}
           \cup (IF pc[Loader] = "hold" THEN {Loader} ELSE {})

\* A permit is never lost: whoever failed or ended, when nobody is at work the
\* loader can take one.  (Requests put back what they did not take, so there may
\* be more permits than one.)
PermitKept == permits + Cardinality(Holding) >= 1

\* A collection that counts as loaded has no stub that nobody loads, except items
\* whose file cannot be loaded: the searches that come after it look only at
\* items in memory.
CollectionLoaded ==
    collLoaded => \A i \in Items \ Broken :
        i \in inmemory \/ \E t \in Threads : \E n \in DOMAIN stack[t] : stack[t][n].item = i

\* Whoever holds the lock of the collection does not load an item of it: the
\* setters of the load would wait for the lock for ever.
NoLoadUnderLock == lock # Nil => ~Loading(lock)
=============================================================================
