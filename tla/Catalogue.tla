----------------------------- MODULE Catalogue -----------------------------
(***************************************************************************)
(* What the item database promises its clients, without its indexes, its   *)
(* unsaved items and its recursion: a set of listed items, each with a     *)
(* file.  A stored item is what its file says at that moment; an item is   *)
(* taken out only when no listed item refers to it; after a crash the      *)
(* items come back from their files, each after the items it refers to.    *)
(***************************************************************************)
CONSTANTS Uid, Attrs, Item, Blank, Nil

VARIABLES
    listed,    \* the uids of the items
    item,      \* item[u]: the item, Blank when u is not listed
    saved,     \* the uids that have a file
    disk,      \* disk[u]: the file, Blank when there is none
    loading    \* files not yet read since the last crash

cvars == <<listed, item, saved, disk, loading>>

CInit ==
    /\ listed = {} /\ item = [u \in Uid |-> Blank]
    /\ saved = {} /\ disk = [u \in Uid |-> Blank]
    /\ loading = {}

ChangesOnly(f, g, u) == \A v \in Uid \ {u} : g[v] = f[v]

\* An item is edited in memory; its file lags behind.
CEdit(u) ==
    /\ loading = {} /\ u \in listed
    /\ item'[u] \in Item /\ ChangesOnly(item, item', u)
    /\ UNCHANGED <<listed, saved, disk, loading>>

\* An item, new or not, is stored: memory and file agree on it.
CStore(u) ==
    /\ loading = {}
    /\ listed' = listed \cup {u} /\ saved' = saved \cup {u}
    /\ item'[u] \in Item /\ ChangesOnly(item, item', u)
    /\ disk' = [disk EXCEPT ![u] = item'[u]]
    /\ UNCHANGED loading

\* An item to which no other item refers is removed, with its file.
CRemove(u) ==
    /\ loading = {} /\ u \in listed
    /\ \A v \in listed, a \in Attrs : item[v].ref[a] # u
    /\ listed' = listed \ {u} /\ saved' = saved \ {u}
    /\ item' = [item EXCEPT ![u] = Blank]
    /\ disk' = [disk EXCEPT ![u] = Blank]
    /\ UNCHANGED loading

CCrash ==
    /\ listed' = {} /\ item' = [u \in Uid |-> Blank]
    /\ loading' = saved
    /\ UNCHANGED <<saved, disk>>

\* A file is read back, or skipped.
CLoad(u) ==
    /\ u \in loading /\ loading' = loading \ {u}
    /\ \/ /\ listed' = listed \cup {u}
          /\ item'[u] \in Item /\ ChangesOnly(item, item', u)
          /\ item'[u].name = disk[u].name /\ item'[u].ref = disk[u].ref
          /\ \A a \in Attrs : disk[u].ref[a] \in listed \cup {Nil}
       \/ UNCHANGED <<listed, item>>
    /\ UNCHANGED <<saved, disk>>

CNext == CCrash \/ \E u \in Uid : CEdit(u) \/ CStore(u) \/ CRemove(u) \/ CLoad(u)

CSpec == CInit /\ [][CNext]_cvars
=============================================================================
