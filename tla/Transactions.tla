---------------------------- MODULE Transactions ----------------------------
(***************************************************************************)
(* The transactions of the XML-RPC interface, over the item store.         *)
(*                                                                         *)
(* A client with a token opens a transaction and works on copies of the    *)
(* items; the commit compares the modification times of the originals,     *)
(* adds the copies, replays the changes on the indexes, and removes what   *)
(* was removed.  Clients without a transaction work on the store meanwhile.*)
(* One request runs at a time, but a commit is taken item by item: it has  *)
(* no roll-back, and may fail at each of them.                             *)
(***************************************************************************)
EXTENDS ItemStore

CONSTANTS
    Tokens,           \* the clients that use transactions
    NoToken,
    InitialItems,     \* uids that are listed and saved at the start
    InitialObj,       \* InitialObj[u]: those items (Blank if there is none)
    RefChoices,       \* RefChoices[u]: the changes <<attribute, value>> clients make
    MaxTime,          \* bound: modification times
    MaxLog            \* bound: changes to one item in a transaction

Ops == {"none", "keep", "delete"}
Change == [attr: Attrs \cup {"name"},
           old: Uid \cup Names \cup {Nil, NoName}, new: Uid \cup Names \cup {Nil}]

\* TransactionTuple.  A copy is kept under the uid of its original until the
\* commit gives it that uid; base says that there is an original.
Entry == [op: Ops, item: Item, base: BOOLEAN, mtime: Nat, log: Seq(Change)]
NoEntry == [op |-> "none", item |-> Blank, base |-> FALSE, mtime |-> 0, log |-> <<>>]
NoEntries == [u \in Uid |-> NoEntry]

ASSUME TransactionAssumption ==
    /\ NoToken \notin Tokens
    /\ InitialItems \subseteq Uid
    /\ InitialObj \in [Uid -> Item]
    /\ RefChoices \in [Uid -> SUBSET (Attrs \X (Uid \cup {Nil}))]
    /\ \A u \in Uid : \A r \in RefChoices[u] :
          u \in Owners(r[1]) /\ r[2] \in Targets(r[1]) \cup {Nil}
    /\ MaxTime \in Nat /\ MaxLog \in Nat

VARIABLES
    open,      \* the tokens that have a transaction
    entry,     \* entry[t][u]: what transaction t holds for the item u
    doomed,    \* tokens whose transaction holds an original that never existed
    mtime,     \* mtime[u]: the modification time of the object in the store
    flagged,   \* the listed objects still marked in_transaction
    commit     \* the commit under way: its token, phase and remaining items

txvars == <<open, entry, doomed>>
tvars == <<vars, txvars, mtime, flagged, commit>>

Idle == [token |-> NoToken, phase |-> "idle", todo |-> {}]
Phases == {"idle", "add", "index", "remove"}

TxTypeOK ==
    /\ TypeOK
    /\ open \in SUBSET Tokens
    /\ entry \in [Tokens -> [Uid -> Entry]]
    /\ doomed \in SUBSET Tokens
    /\ mtime \in [Uid -> Nat]
    /\ flagged \in SUBSET Uid
    /\ commit \in [token: Tokens \cup {NoToken}, phase: Phases, todo: SUBSET Uid]

TInit ==
    /\ obj = InitialObj /\ disk = InitialObj
    /\ listed = InitialItems /\ saved = InitialItems
    /\ nameIdx = [k \in Kinds |-> [n \in Names \cup {NoName} |->
                    IF \E u \in InitialItems : Kind(u) = k /\ InitialObj[u].name = n
                    THEN CHOOSE u \in InitialItems : Kind(u) = k /\ InitialObj[u].name = n
                    ELSE Nil]]
    /\ refIdx = [a \in Attrs |-> [t \in Uid \cup {Nil} |->
                    {u \in InitialItems \cap Owners(a) : InitialObj[u].ref[a] = t}]]
    /\ unsaved = {} /\ removing = <<>> /\ loading = {}
    /\ open = {} /\ entry = [t \in Tokens |-> NoEntries] /\ doomed = {}
    /\ mtime = [u \in Uid |-> 0]
    /\ flagged = {} /\ commit = Idle

Ready == commit = Idle          \* the daemon serves the next request

\* time.time(): a modification time that the item has not had before.
Touched(u) == [mtime EXCEPT ![u] = @ + 1]

-----------------------------------------------------------------------------
(* What a transaction sees                                                 *)

\* __get_object for a token: the copy, or the item in the store.
Sees(t, u) == \/ entry[t][u].op = "keep"
              \/ entry[t][u].op = "none" /\ u \in listed
View(t, u) == IF entry[t][u].op = "keep" THEN entry[t][u].item ELSE obj[u]

\* A uid no item has ever had, in any transaction either.
Unused(u) ==
    /\ Fresh(u)
    /\ \A t \in Tokens : /\ entry[t][u].op = "none"
                         /\ \A v \in Uid, a \in Attrs : entry[t][v].item.ref[a] # u

Copied(u) == [op |-> "keep", item |-> Constructed(obj[u]), base |-> TRUE,
              mtime |-> mtime[u], log |-> <<>>]
Created(it) == [NoEntry EXCEPT !.op = "keep", !.item = it]
Deleted(u) == [NoEntry EXCEPT !.op = "delete", !.base = TRUE, !.mtime = mtime[u]]

\* The entry modify_item works on; the first change of an item copies it.
Editable(t, u) == IF entry[t][u].op = "keep" THEN entry[t][u] ELSE Copied(u)

-----------------------------------------------------------------------------
(* Requests of a client with a transaction                                 *)

Begin(t) ==
    /\ Ready
    /\ open' = open \cup {t}
    /\ entry' = [entry EXCEPT ![t] = NoEntries]
    /\ doomed' = doomed \ {t}
    /\ UNCHANGED <<vars, mtime, flagged, commit>>

Close(t) ==
    /\ open' = open \ {t}
    /\ entry' = [entry EXCEPT ![t] = NoEntries]
    /\ doomed' = doomed \ {t}

Abort(t) ==
    /\ Ready /\ t \in open
    /\ Close(t)
    /\ UNCHANGED <<vars, mtime, flagged, commit>>

NewInTx(t, u) ==
    /\ Ready /\ t \in open /\ Unused(u)
    /\ entry' = [entry EXCEPT ![t][u] = Created(Blank)]
    /\ UNCHANGED <<vars, open, doomed, mtime, flagged, commit>>

\* Fault: the attribute and its new value are swapped in the log.
LoggedSwapped(e, a, old, new) ==
    [e EXCEPT !.log = Append(@, [attr |-> new, old |-> old, new |-> a])]

\* TransactionItemModifications
Logged(e, a, old, new) ==
    [e EXCEPT !.log = Append(@, [attr |-> a, old |-> old, new |-> new])]

NameInTx(t, u, n) ==
    LET e == Editable(t, u)
    IN  /\ Ready /\ t \in open /\ Sees(t, u)
        /\ entry[t][u].op = "none" => Constructible(obj[u])
        /\ Len(e.log) < MaxLog
        /\ entry' = [entry EXCEPT ![t][u] =
                        [Logged(e, "name", e.item.name, n) EXCEPT !.item.name = n]]
        /\ UNCHANGED <<vars, open, doomed, mtime, flagged, commit>>

\* An item of the transaction itself is found before the store is asked, but
\* not an image.  A copy of an original is not found by the original's uid.
CreatedInTx(t, a, v) ==
    a # "image" /\ v # Nil /\ entry[t][v].op = "keep" /\ ~entry[t][v].base
DeletedInTx(t, a, v) == a # "image" /\ v # Nil /\ entry[t][v].op = "delete"

\* The setter of the attribute, or its failure.
SetRef(t, it, a, v) ==
    LET other == IF a = "profile" THEN "image" ELSE "profile"
        target == IF CreatedInTx(t, a, v) THEN entry[t][v].item ELSE obj[v]
    IN  IF v = Nil THEN [it EXCEPT !.ref[a] = Nil]
        ELSE IF DeletedInTx(t, a, v) \/ ~(CreatedInTx(t, a, v) \/ v \in listed) THEN it
        ELSE IF a \in {"profile", "image"}
        THEN [it EXCEPT !.ref[other] = Nil, !.ref[a] = v, !.depth = target.depth + 1]
        ELSE [it EXCEPT !.ref[a] = v, !.depth = target.depth + 1]

\* The change is logged before the setter is called: it stays in the log when
\* the setter raises.
RefInTx(t, u, a, v) ==
    LET e == Editable(t, u)
    IN  /\ Ready /\ t \in open /\ Sees(t, u)
        /\ entry[t][u].op = "none" => Constructible(obj[u])
        /\ Len(e.log) < MaxLog
        /\ entry' = [entry EXCEPT ![t][u] =
                        [Logged(e, a, e.item.ref[a], v) EXCEPT !.item = SetRef(t, e.item, a, v)]]
        /\ UNCHANGED <<vars, open, doomed, mtime, flagged, commit>>

CopyInTx(t, u, v, n) ==
    LET clone == [Constructed(View(t, u)) EXCEPT !.name = n]
    IN  /\ Ready /\ t \in open /\ Sees(t, u)
        /\ Unused(v) /\ Kind(v) = Kind(u) /\ Constructible(View(t, u))
        /\ entry' = [entry EXCEPT ![t][v] = Created(clone)]
        /\ UNCHANGED <<vars, open, doomed, mtime, flagged, commit>>

\* In a transaction a rename is a copy under a new uid and a removal.
RenameInTx(t, u, v, n) ==
    LET clone == [Constructed(View(t, u)) EXCEPT !.name = n]
    IN  /\ Ready /\ t \in open /\ Sees(t, u)
        /\ Unused(v) /\ Kind(v) = Kind(u) /\ Constructible(View(t, u))
        /\ entry' = [entry EXCEPT ![t][v] = Created(clone),
                                  ![t][u] = IF u \in listed THEN Deleted(u) ELSE NoEntry]
        /\ UNCHANGED <<vars, open, doomed, mtime, flagged, commit>>

\* _transaction_descendants, one level: the live dependants by the indexes
\* that also depend on u for the transaction.  A copy has a uid of its own,
\* under which no index lists anything.
Below(t, u) ==
    IF entry[t][u].op = "keep" THEN {}
    ELSE {d \in Dependants(u) : /\ Sees(t, d)
                                /\ \E a \in AttrsTo(u) : View(t, d).ref[a] = u}

Descendants(t, u) ==
    LET level[n \in Nat] ==
            IF n = 0 THEN Below(t, u)
            ELSE level[n-1] \cup UNION {Below(t, d) : d \in level[n-1]}
    IN  level[Cardinality(Profiles)]

\* A system that depends on one of the items ends the search with an exception
\* ("str" has no "uid"), after the item itself has been marked as removed.
SearchRaises(t, u) ==
    \E x \in {u} \cup Descendants(t, u), d \in Systems :
        entry[t][x].op # "keep" /\ d \in Dependants(x) /\ Sees(t, d)

\* remove_item.  The original of a copy is looked up by the uid of the copy, and
\* that of a new item by its own: both exist nowhere, and doom the commit.
RemoveInTx(t, u, recursive) ==
    LET below == IF recursive /\ ~SearchRaises(t, u) THEN Descendants(t, u) ELSE {}
        gone == {u} \cup {d \in below : entry[t][d].op = "none"}
    IN  /\ Ready /\ t \in open /\ Sees(t, u)
        /\ entry' = [entry EXCEPT ![t] =
                        [v \in Uid |-> IF v \in gone THEN Deleted(v) ELSE @[v]]]
        /\ doomed' = IF \E v \in {u} \cup below : entry[t][v].op = "keep"
                     THEN doomed \cup {t} ELSE doomed
        /\ UNCHANGED <<vars, open, mtime, flagged, commit>>

-----------------------------------------------------------------------------
(* Commit                                                                  *)

Kept(t) == {u \in Uid : entry[t][u].op = "keep"}
Gone(t) == {u \in Uid : entry[t][u].op = "delete"}

\* Fault: the times of removed items are not compared.
ConflictOnKept(t) ==
    \/ t \in doomed
    \/ \E u \in Kept(t) : entry[t][u].base /\ (u \notin listed \/ mtime[u] # entry[t][u].mtime)

\* "The item has been modified"
Conflict(t) ==
    \/ t \in doomed
    \/ \E u \in Uid : entry[t][u].base /\ (u \notin listed \/ mtime[u] # entry[t][u].mtime)

CommitRefused(t) ==
    /\ Ready /\ t \in open /\ Conflict(t)
    /\ Close(t)
    /\ UNCHANGED <<vars, mtime, flagged, commit>>

CommitBegin(t) ==
    /\ Ready /\ t \in open /\ ~Conflict(t)
    /\ \A u \in Kept(t) : mtime[u] <= MaxTime
    /\ commit' = [token |-> t, phase |-> "add", todo |-> Kept(t)]
    /\ UNCHANGED <<vars, txvars, mtime, flagged>>

\* check_if_valid of a copy: its references, and from its parent on the store's.
ValidCopy(u, it) ==
    LET p == it.ref["parent"]
        top == IF p \in listed THEN obj[Ancestor(obj, listed, p)] ELSE it
    IN  /\ it.name # NoName
        /\ u \in Profiles => top.ref["distro"] \in listed
        /\ u \in Systems => it.ref["profile"] # Nil \/ it.ref["image"] # Nil

\* The items are added in the order of their depth, ties in any order.
NextToAdd(u) ==
    /\ commit.phase = "add" /\ u \in commit.todo
    /\ \A v \in commit.todo :
          entry[commit.token][u].item.depth <= entry[commit.token][v].item.depth

Install(u) ==
    LET e == entry[commit.token][u]
    IN  /\ obj' = [obj EXCEPT ![u] = e.item]
        /\ Publish(u, e.item)
        /\ mtime' = Touched(u)
        /\ flagged' = IF e.base THEN flagged \cup {u} ELSE flagged \ {u}

CommitAdd ==
    \E u \in Uid :
        /\ NextToAdd(u) /\ ValidCopy(u, entry[commit.token][u].item)
        /\ Install(u)
        /\ commit' = [commit EXCEPT !.todo = @ \ {u}]
        /\ UNCHANGED <<unsaved, removing, loading, txvars>>

\* check_if_valid or a trigger raises.  A post trigger does after the add.
CommitAddFails ==
    \E u \in Uid :
        /\ NextToAdd(u)
        /\ \/ UNCHANGED <<obj, listed, nameIdx, refIdx, saved, disk, mtime, flagged>>
           \/ ValidCopy(u, entry[commit.token][u].item) /\ Install(u)
        /\ commit' = Idle /\ Close(commit.token)
        /\ UNCHANGED <<unsaved, removing, loading>>

CommitAdded ==
    /\ commit.phase = "add" /\ commit.todo = {}
    /\ commit' = [commit EXCEPT !.phase = "index", !.todo = Kept(commit.token)]
    /\ UNCHANGED <<vars, txvars, mtime, flagged>>

\* The last change in a log that concerns the value v of the attribute a.
Concerns(log, a, v) == {i \in DOMAIN log : log[i].attr = a /\ v \in {log[i].old, log[i].new}}
Last(log, a, v) ==
    log[CHOOSE i \in Concerns(log, a, v) : \A j \in Concerns(log, a, v) : j <= i]

\* update_index_value for each change in the log of an item: the old value is
\* taken out of the index and the new one put in.  Values that a setter changed
\* on its own account are not in the log.
CommitIndex ==
    \E u \in commit.todo :
        LET log == entry[commit.token][u].log
        IN  /\ commit.phase = "index"
            /\ refIdx' = [a \in Attrs |-> [v \in Uid \cup {Nil} |->
                  IF Concerns(log, a, v) = {} THEN refIdx[a][v]
                  ELSE IF Last(log, a, v).new = v THEN refIdx[a][v] \cup {u}
                  ELSE refIdx[a][v] \ {u}]]
            /\ nameIdx' = [nameIdx EXCEPT ![Kind(u)] = [n \in Names \cup {NoName} |->
                  IF Concerns(log, "name", n) = {} THEN @[n]
                  ELSE IF Last(log, "name", n).new = n THEN u ELSE Nil]]
            /\ flagged' = flagged \ {u}
            /\ commit' = [commit EXCEPT !.todo = @ \ {u}]
            /\ UNCHANGED <<obj, listed, unsaved, files, removing, loading, txvars, mtime>>

\* Fault: the removed items are forgotten.
CommitIndexedOnly ==
    /\ commit.phase = "index" /\ commit.todo = {}
    /\ commit' = [commit EXCEPT !.phase = "remove", !.todo = {}]
    /\ UNCHANGED <<vars, txvars, mtime, flagged>>

CommitIndexed ==
    /\ commit.phase = "index" /\ commit.todo = {}
    /\ commit' = [commit EXCEPT !.phase = "remove", !.todo = Gone(commit.token)]
    /\ UNCHANGED <<vars, txvars, mtime, flagged>>

NextToRemove(u) ==
    /\ commit.phase = "remove" /\ u \in commit.todo
    /\ \A v \in commit.todo : obj[v].depth <= obj[u].depth

Discard(u) ==
    /\ Delete(u)
    /\ flagged' = flagged \ {u}
    /\ mtime' = [mtime EXCEPT ![u] = 0]

CommitRemove ==
    \E u \in Uid :
        /\ NextToRemove(u) /\ Dependants(u) = {}
        /\ Discard(u)
        /\ commit' = [commit EXCEPT !.todo = @ \ {u}]
        /\ UNCHANGED <<unsaved, removing, loading, txvars>>

\* "removal would orphan", or a delete trigger raises.
CommitRemoveFails ==
    \E u \in Uid :
        /\ NextToRemove(u)
        /\ \/ UNCHANGED <<obj, listed, nameIdx, refIdx, saved, disk, mtime, flagged>>
           \/ Dependants(u) = {} /\ Discard(u)
        /\ commit' = Idle /\ Close(commit.token)
        /\ UNCHANGED <<unsaved, removing, loading>>

\* Fault: the transaction is not deleted after a successful commit.
CommitDoneStaysOpen ==
    /\ commit.phase = "remove" /\ commit.todo = {}
    /\ commit' = Idle
    /\ UNCHANGED <<vars, txvars, mtime, flagged>>

CommitDone ==
    /\ commit.phase = "remove" /\ commit.todo = {}
    /\ commit' = Idle /\ Close(commit.token)
    /\ UNCHANGED <<vars, mtime, flagged>>

-----------------------------------------------------------------------------
(* Requests of clients without a transaction                               *)

LiveSave(u) ==
    /\ Ready /\ u \in listed /\ mtime[u] < MaxTime
    /\ Save(u, "bypass", FALSE)
    /\ mtime' = Touched(u)
    /\ UNCHANGED <<txvars, flagged, commit>>

\* A rename leaves the modification time as it is.
LiveRename(u, n) ==
    LET it == [obj[u] EXCEPT !.name = n]
    IN  /\ Ready /\ u \in listed /\ n # obj[u].name
        /\ obj' = [obj EXCEPT ![u] = it]
        /\ disk' = [disk EXCEPT ![u] = it]
        /\ nameIdx' = IF u \in flagged THEN nameIdx
                      ELSE NamePut(NamePop(nameIdx, u, obj[u].name), u, n)
        /\ UNCHANGED <<listed, unsaved, refIdx, saved, removing, loading, txvars,
                       mtime, flagged, commit>>

LiveRemove(u) ==
    /\ Ready /\ Remove(u)
    /\ flagged' = flagged \ {u}
    /\ mtime' = [mtime EXCEPT ![u] = 0]
    /\ UNCHANGED <<txvars, commit>>

-----------------------------------------------------------------------------
TxRequest ==
    \E t \in Tokens :
        \/ Begin(t) \/ Abort(t)
        \/ \E u \in Uid :
              \/ NewInTx(t, u)
              \/ \E n \in NameChoices[u] : NameInTx(t, u, n)
              \/ \E r \in RefChoices[u] : RefInTx(t, u, r[1], r[2])
              \/ \E v \in Uid : \E n \in NameChoices[v] : CopyInTx(t, u, v, n)
              \/ \E v \in Uid : \E n \in NameChoices[v] : RenameInTx(t, u, v, n)
              \/ \E recursive \in BOOLEAN : RemoveInTx(t, u, recursive)
        \/ CommitRefused(t)
        \/ CommitBegin(t)

LiveRequest ==
    \E u \in Uid :
        \/ LiveSave(u)
        \/ \E n \in NameChoices[u] : LiveRename(u, n)
        \/ LiveRemove(u)

CommitStep ==
    \/ CommitAdd \/ CommitAddFails \/ CommitAdded \/ CommitIndex \/ CommitIndexed
    \/ CommitRemove \/ CommitRemoveFails \/ CommitDone

TNext == TxRequest \/ LiveRequest \/ CommitStep

TSpec == TInit /\ [][TNext]_tvars

\* The thread that serves a commit runs on: nothing in it blocks.
FairTSpec == TSpec /\ WF_tvars(CommitStep)
-----------------------------------------------------------------------------
(* Properties                                                              *)

\* No lost save: what a commit overwrites or removes is the version of the item
\* that its transaction has copied or marked, whoever saved, removed or committed
\* it in between.
NoLostSave ==
    [][\A u \in listed :
          commit # Idle /\ (u \notin listed' \/ mtime'[u] # mtime[u]) =>
              LET e == entry[commit.token][u]
              IN  e.base /\ e.mtime = mtime[u]]_tvars

\* A commit that ends without an exception has installed every copy of its
\* transaction under the uid of the original and removed every removed item.
CommitComplete ==
    [][commit.phase = "remove" /\ commit.todo = {} /\ commit' = Idle =>
          /\ \A u \in Kept(commit.token) :
                u \in listed' /\ obj'[u] = entry[commit.token][u].item
          /\ \A u \in Gone(commit.token) : u \notin listed']_tvars

\* A commit ends, and the transaction with it.
CommitEnds == \A t \in Tokens : commit.token = t ~> t \notin open

\* "Transactions allow multiple API operations to be grouped atomically": a
\* commit that ends before its last removal has changed nothing in the store.
CommitAtomic ==
    [][commit # Idle /\ commit' = Idle /\ ~(commit.phase = "remove" /\ commit.todo = {}) =>
          /\ commit.phase = "add" /\ commit.todo = Kept(commit.token)
          /\ UNCHANGED memory]_tvars
=============================================================================
