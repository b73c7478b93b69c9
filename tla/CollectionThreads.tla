-------------------------- MODULE CollectionThreads --------------------------
(***************************************************************************)
(* The threads of several requests in one collection, at the granularity   *)
(* of its lock.  The items carry a list of references (the repos of a      *)
(* profile, or one reference as a list of one), which the collection       *)
(* indexes.  The setter assigns the attribute and then moves the entries   *)
(* of the index under the lock; whether the item is listed is looked at    *)
(* before the lock is taken.  A search reads the index and the listing     *)
(* under the lock.                                                         *)
(***************************************************************************)
EXTENDS Naturals, FiniteSets

CONSTANTS
    Elements,       \* the items of the collection
    Keys, NoKey,    \* what they refer to, and the key of an empty list
    Workers, Nobody,\* threads
    Clients         \* Clients[u]: the threads that edit, add and remove u

ASSUME CollectionAssumption ==
    /\ NoKey \notin Keys /\ Nobody \notin Workers
    /\ Clients \in [Elements -> SUBSET Workers]

VARIABLES
    keys,     \* keys[u]: the attribute
    listing,  \* the listing
    index,    \* index[k]: the entries under k
    mutex,    \* the thread that holds the lock of the collection, or Nobody
    worker    \* worker[t]: where thread t is and what it has read

tvars == <<keys, listing, index, mutex, worker>>

\* at: the next step; item: the item as a set of one; old, new: the keys the setter
\* has read and assigned; todo, found: the uids of a search; due: the items that
\* have had the key ever since the search began.
Resting == [at |-> "rest", item |-> {}, old |-> {}, new |-> {},
            todo |-> {}, found |-> {}, due |-> {}]

\* An empty list is indexed under the empty string.
IndexKeys(s) == IF s = {} THEN {NoKey} ELSE s

TInit ==
    /\ keys = [u \in Elements |-> {}]
    /\ listing = {} /\ index = [k \in Keys \cup {NoKey} |-> {}]
    /\ mutex = Nobody
    /\ worker = [t \in Workers |-> Resting]

-----------------------------------------------------------------------------
At(t, p) == worker[t].at = p
Begin(t, r) == At(t, "rest") /\ worker' = [worker EXCEPT ![t] = r]
Go(t, p) == worker' = [worker EXCEPT ![t].at = p]
Rest(t) == worker' = [worker EXCEPT ![t] = Resting]
Take(t) == mutex = Nobody /\ mutex' = t
GiveBack == mutex' = Nobody

Put(u, ks) == [k \in DOMAIN index |-> IF k \in IndexKeys(ks) THEN index[k] \cup u ELSE index[k]]
Pop(u, ks) == [k \in DOMAIN index |-> IF k \in IndexKeys(ks) THEN index[k] \ u ELSE index[k]]

\* add: the checks are done; the lock is taken, the item is listed, and indexed.
AddBegins(t, u) ==
    /\ t \in Clients[u]
    /\ Begin(t, [Resting EXCEPT !.at = "list", !.item = {u}])
    /\ UNCHANGED <<keys, listing, index, mutex>>

AddLists(t) ==
    /\ At(t, "list") /\ Take(t)
    /\ listing' = listing \cup worker[t].item
    /\ Go(t, "index")
    /\ UNCHANGED <<keys, index>>

AddIndexes(t) ==
    /\ At(t, "index") /\ GiveBack
    /\ index' = Put(worker[t].item, UNION {keys[u] : u \in worker[t].item})
    /\ Rest(t)
    /\ UNCHANGED <<keys, listing>>

\* What remains due to the searches when u is given the keys s (or none).
DueWith(u, s) ==
    [r \in Workers |-> [worker[r] EXCEPT !.due = IF worker[r].new \cap s = {} THEN @ \ {u} ELSE @]]

\* A setter reads the attribute and assigns it.
SetAssigns(t, u, s) ==
    /\ At(t, "rest") /\ t \in Clients[u] /\ s # keys[u]
    /\ keys' = [keys EXCEPT ![u] = s]
    /\ worker' = [DueWith(u, s) EXCEPT ![t] =
                     [Resting EXCEPT !.at = "test", !.item = {u}, !.old = keys[u], !.new = s]]
    /\ UNCHANGED <<listing, index, mutex>>

\* update_index_value does nothing for an item that is not listed.
UpdateTests(t) ==
    /\ At(t, "test")
    /\ IF worker[t].item \subseteq listing THEN Go(t, "drop") ELSE Rest(t)
    /\ UNCHANGED <<keys, listing, index, mutex>>

\* Fault: the entries are moved without the lock.
UpdateDropsUnlocked(t) ==
    /\ At(t, "drop")
    /\ index' = Pop(worker[t].item, worker[t].old)
    /\ Go(t, "put")
    /\ UNCHANGED <<keys, listing, mutex>>

UpdateDrops(t) ==
    /\ At(t, "drop") /\ Take(t)
    /\ index' = Pop(worker[t].item, worker[t].old)
    /\ Go(t, "put")
    /\ UNCHANGED <<keys, listing>>

UpdatePuts(t) ==
    /\ At(t, "put") /\ GiveBack
    /\ index' = Put(worker[t].item, worker[t].new)
    /\ Rest(t)
    /\ UNCHANGED <<keys, listing>>

\* remove: nothing refers to the item; it is taken out of the indexes and unlisted.
RemoveBegins(t, u) ==
    /\ t \in Clients[u] /\ u \in listing
    /\ Begin(t, [Resting EXCEPT !.at = "unindex", !.item = {u}])
    /\ UNCHANGED <<keys, listing, index, mutex>>

\* Fault: the entry under the empty string is left.
RemoveUnindexesKeys(t) ==
    /\ At(t, "unindex") /\ Take(t)
    /\ index' = [k \in DOMAIN index |->
                    IF \E u \in worker[t].item : k \in keys[u] THEN index[k] \ worker[t].item
                    ELSE index[k]]
    /\ Go(t, "unlist")
    /\ UNCHANGED <<keys, listing>>

RemoveUnindexes(t) ==
    /\ At(t, "unindex") /\ Take(t)
    /\ index' = Pop(worker[t].item, UNION {keys[u] : u \in worker[t].item})
    /\ Go(t, "unlist")
    /\ UNCHANGED <<keys, listing>>

\* del raises KeyError for an item that another thread has removed.
RemoveUnlists(t) ==
    /\ At(t, "unlist") /\ GiveBack
    /\ listing' = listing \ worker[t].item
    /\ worker' = [r \in Workers |-> IF r = t THEN Resting
                                    ELSE [worker[r] EXCEPT !.due = @ \ worker[t].item]]
    /\ UNCHANGED <<keys, index>>

\* The items that have the key k and are not about to get it.
Bearers(k) ==
    {u \in listing : /\ k \in IndexKeys(keys[u])
                     /\ \A r \in Workers : u \in worker[r].item =>
                           /\ ~At(r, "index") /\ ~At(r, "unindex") /\ ~At(r, "unlist")
                           /\ worker[r].at \in {"test", "drop", "put"} =>
                                 k \in IndexKeys(worker[r].old)}

\* find waits for the lock, looks the key up, and collects what it finds listed.
LookUpBegins(t, k) ==
    /\ Begin(t, [Resting EXCEPT !.at = "look", !.new = {k}, !.due = Bearers(k)])
    /\ UNCHANGED <<keys, listing, index, mutex>>

LookUpLooks(t) ==
    /\ At(t, "look") /\ Take(t)
    /\ worker' = [worker EXCEPT ![t].at = "collect",
                                ![t].todo = UNION {index[k] : k \in worker[t].new}]
    /\ UNCHANGED <<keys, listing, index>>

LookUpCollects(t) ==
    /\ At(t, "collect")
    /\ \E u \in worker[t].todo :
          worker' = [worker EXCEPT ![t].todo = @ \ {u},
                                   ![t].found = IF u \in listing THEN @ \cup {u} ELSE @]
    /\ UNCHANGED <<keys, listing, index, mutex>>

LookUpEnds(t) ==
    /\ At(t, "collect") /\ worker[t].todo = {} /\ GiveBack
    /\ Go(t, "answer")
    /\ UNCHANGED <<keys, listing, index>>

LookUpAnswers(t) ==
    /\ At(t, "answer") /\ Rest(t)
    /\ UNCHANGED <<keys, listing, index, mutex>>

WorkerStep(t) ==
    \/ AddLists(t) \/ AddIndexes(t) \/ UpdateTests(t) \/ UpdateDrops(t) \/ UpdatePuts(t)
    \/ RemoveUnindexes(t) \/ RemoveUnlists(t)
    \/ LookUpLooks(t) \/ LookUpCollects(t) \/ LookUpEnds(t) \/ LookUpAnswers(t)

TNext == \E t \in Workers :
    \/ \E u \in Elements : \/ AddBegins(t, u) \/ RemoveBegins(t, u)
                           \/ \E s \in SUBSET Keys : SetAssigns(t, u, s)
    \/ \E k \in Keys : LookUpBegins(t, k)
    \/ WorkerStep(t)

TSpec == TInit /\ [][TNext]_tvars

-----------------------------------------------------------------------------
(* Properties.  They hold as long as no item is edited by two threads.     *)

\* A search finds every item that has had the key from before it began until it
\* ends, whatever other threads do to that item's other keys and to other items.
SearchComplete == \A t \in Workers : At(t, "answer") => worker[t].due \subseteq worker[t].found

\* While no thread is at work on an item, its entries are those of its keys if it is
\* listed, and none otherwise: moves of different items do not lose each other.
EntriesExact ==
    \A u \in Elements, k \in Keys \cup {NoKey} :
        (\A t \in Workers : u \notin worker[t].item) =>
            (u \in index[k] <=> u \in listing /\ k \in IndexKeys(keys[u]))
=============================================================================
