------------------------------ MODULE ItemStore ------------------------------
(***************************************************************************)
(* The item database of cobblerd: the objects in memory, the per-type      *)
(* collections that list them, the secondary indexes over the collections, *)
(* the pool of unsaved items, and the JSON files they are persisted to.    *)
(*                                                                         *)
(* Items are distros, images, profiles and systems; an item refers to      *)
(* others by uid: profile.distro, profile.parent, system.profile and       *)
(* system.image.  One XML-RPC request runs at a time in this module (the   *)
(* interleavings of requests are the subject of other modules), but a      *)
(* recursive removal and the loading at start-up are taken item by item,   *)
(* and the daemon may be killed and restarted between any two steps.       *)
(***************************************************************************)
EXTENDS Naturals, Sequences, FiniteSets

CONSTANTS
    Distros, Images, Profiles, Systems,  \* the uids, by the type of their item
    Names,           \* the names a client can give
    NoName,          \* the empty name "" of a new item
    Nil,             \* the empty reference ""
    NameChoices,     \* NameChoices[u]: the names clients give to u
    MaxDepth,        \* bound: no re-parenting beyond this depth
    RecursionLimit   \* bound: nesting at which Python raises RecursionError

Uid == Distros \cup Images \cup Profiles \cup Systems
Kinds == {"distro", "image", "profile", "system"}
Attrs == {"distro", "parent", "profile", "image"}

ASSUME ConstantsAssumption ==
    /\ Nil \notin Uid
    /\ NoName \notin Names
    /\ Distros \cap (Images \cup Profiles \cup Systems) = {}
    /\ Images \cap (Profiles \cup Systems) = {}
    /\ Profiles \cap Systems = {}
    /\ NameChoices \in [Uid -> SUBSET Names]
    /\ MaxDepth \in Nat
    /\ RecursionLimit \in Nat

Kind(u) == IF u \in Distros THEN "distro"
           ELSE IF u \in Images THEN "image"
           ELSE IF u \in Profiles THEN "profile" ELSE "system"

\* The items that carry a reference attribute, and the items it may name.
Owners(a) == IF a \in {"distro", "parent"} THEN Profiles ELSE Systems
Targets(a) == CASE a = "distro"  -> Distros
                [] a = "image"   -> Images
                [] OTHER         -> Profiles

Item == [name: Names \cup {NoName}, ref: [Attrs -> Uid \cup {Nil}], depth: Nat]

\* A call of Collection.remove: its item, the attributes over which it has yet
\* to look for dependants, and the dependants found that it has yet to remove.
Frame == [item: Uid, ahead: SUBSET Attrs, todo: SUBSET Uid]

NoRefs == [a \in Attrs |-> Nil]
Blank == [name |-> NoName, ref |-> NoRefs, depth |-> 0]

VARIABLES
    obj,       \* obj[u]: the Python object with uid u (Blank if there is none)
    listed,    \* the uids in Collection.listing
    unsaved,   \* the uids in CobblerXMLRPCInterface.unsaved_items
    nameIdx,   \* nameIdx[k][n]: the unique "name" index of collection k
    refIdx,    \* refIdx[a][t]: the non-unique index over attribute a
    saved,     \* the uids that have a file
    disk,      \* disk[u]: the contents of u's file (Blank if there is none)
    removing,  \* call stack of the recursive removal in progress (of Frames)
    loading    \* the files still to be read by the start-up in progress

vars == <<obj, listed, unsaved, nameIdx, refIdx, saved, disk, removing, loading>>
memory == <<obj, listed, unsaved, nameIdx, refIdx>>
files == <<saved, disk>>

TypeOK ==
    /\ obj \in [Uid -> Item]
    /\ listed \in SUBSET Uid
    /\ unsaved \in SUBSET Uid
    /\ nameIdx \in [Kinds -> [Names \cup {NoName} -> Uid \cup {Nil}]]
    /\ refIdx \in [Attrs -> [Uid \cup {Nil} -> SUBSET Uid]]
    /\ saved \in SUBSET Uid
    /\ disk \in [Uid -> Item]
    /\ removing \in Seq(Frame)
    /\ loading \in SUBSET Uid

EmptyNameIdx == [k \in Kinds |-> [n \in Names \cup {NoName} |-> Nil]]
EmptyRefIdx == [a \in Attrs |-> [t \in Uid \cup {Nil} |-> {}]]

Init ==
    /\ obj = [u \in Uid |-> Blank]
    /\ listed = {} /\ unsaved = {}
    /\ nameIdx = EmptyNameIdx /\ refIdx = EmptyRefIdx
    /\ saved = {} /\ disk = [u \in Uid |-> Blank]
    /\ removing = <<>> /\ loading = {}

-----------------------------------------------------------------------------
(* Indexes                                                                 *)

\* Fault: the name is stored in the index where the uid belongs.
NamePutStoresName(idx, u, n) ==
    IF n = NoName THEN idx ELSE [idx EXCEPT ![Kind(u)][n] = n]

\* add_single_index_value for a unique index: an empty key is not indexed, a
\* key that is there already is overwritten.
NamePut(idx, u, n) ==
    IF n = NoName THEN idx ELSE [idx EXCEPT ![Kind(u)][n] = u]

\* Fault: the old key of a renamed or removed item is left in the index.
NamePopForgotten(idx, u, n) == idx

\* remove_single_index_value for a unique index: the key is dropped, whoever
\* the entry belongs to.
NamePop(idx, u, n) == [idx EXCEPT ![Kind(u)][n] = Nil]

\* add_to_indexes and remove_from_indexes, for all reference attributes.
RefsPut(idx, u, it) ==
    [a \in Attrs |-> [t \in Uid \cup {Nil} |->
        IF u \in Owners(a) /\ it.ref[a] = t
        THEN idx[a][t] \cup {u} ELSE idx[a][t]]]

RefsDrop(idx, u, it) ==
    [a \in Attrs |-> [t \in Uid \cup {Nil} |->
        IF u \in Owners(a) /\ it.ref[a] = t
        THEN idx[a][t] \ {u} ELSE idx[a][t]]]

\* Fault: the item stays listed under its old reference as well.
RefMoveKeepsOld(idx, u, a, old, new) ==
    IF u \in listed THEN [idx EXCEPT ![a][new] = @ \cup {u}] ELSE idx

\* update_index_value: only for an item that is in the listing.
RefMove(idx, u, a, old, new) ==
    IF u \in listed
    THEN [idx EXCEPT ![a] = [t \in Uid \cup {Nil} |->
              IF t = new THEN @[t] \cup {u}
              ELSE IF t = old THEN @[t] \ {u} ELSE @[t]]]
    ELSE idx

\* Fault: the systems that boot an image are overlooked.
AttrsToWithoutImage(u) == {a \in Attrs \ {"image"} : u \in Targets(a)}

\* TYPE_DEPENDENCIES: the attributes by which other items depend on u.
AttrsTo(u) == {a \in Attrs : u \in Targets(a)}

\* find_items for the types that depend on u, answered by the indexes.
Dependants(u) == UNION {refIdx[a][u] : a \in AttrsTo(u)}

-----------------------------------------------------------------------------
(* The profile tree                                                        *)

\* The parent property: None when the uid is empty or no longer listed.
ParentOf(o, L, u) == IF o[u].ref["parent"] \in L THEN o[u].ref["parent"] ELSE Nil

\* The profile reached from u after n parent links, or the last of the chain.
Ancestor(o, L, u) ==
    LET climb[n \in Nat] ==
            IF n = 0 THEN u
            ELSE LET v == climb[n-1]
                 IN  IF ParentOf(o, L, v) = Nil THEN v ELSE ParentOf(o, L, v)
    IN  climb[Cardinality(Profiles)]

Cyclic(o, L, u) == ParentOf(o, L, Ancestor(o, L, u)) # Nil

\* check_if_valid.  On a cyclic parent chain get_conceptual_parent never
\* returns, so there is no outcome: the chain must end.
Valid(o, L, u) ==
    /\ o[u].name # NoName
    /\ u \in Profiles => /\ ~Cyclic(o, L, u)
                         /\ o[Ancestor(o, L, u)].ref["distro"] \in L
    /\ u \in Systems => o[u].ref["profile"] # Nil \/ o[u].ref["image"] # Nil

\* Constructing an item from a dict runs every setter: references must be to
\* listed items and the depth is computed anew, parent before distro.
Constructible(it) == \A a \in Attrs : it.ref[a] \in listed \cup {Nil}

Constructed(it) ==
    [it EXCEPT !.depth =
        CASE it.ref["distro"] # Nil -> obj[it.ref["distro"]].depth + 1
          [] it.ref["distro"] = Nil /\ it.ref["parent"] # Nil ->
                 obj[it.ref["parent"]].depth + 1
          [] it.ref["profile"] # Nil -> obj[it.ref["profile"]].depth + 1
          [] it.ref["image"] # Nil -> obj[it.ref["image"]].depth + 1
          [] OTHER -> it.depth]

-----------------------------------------------------------------------------
(* Requests that build and edit items                                      *)

Up == removing = <<>> /\ loading = {}   \* the daemon serves the next request
Handles == listed \cup unsaved          \* what __get_object can resolve

\* uuid4: a uid no item, file or reference has ever had.
Fresh(u) ==
    /\ u \notin Handles \cup saved
    /\ \A v \in Uid, a \in Attrs : obj[v].ref[a] # u /\ disk[v].ref[a] # u

NewItem(u) ==
    /\ Up /\ Fresh(u)
    /\ unsaved' = unsaved \cup {u}
    /\ UNCHANGED <<obj, listed, nameIdx, refIdx, files, removing, loading>>

\* The edits act on the one object there is, saved or not: an edit of a saved
\* item is live in memory at once and reaches its file with a later save.
SetName(u, n) ==
    /\ Up /\ u \in Handles
    /\ obj' = [obj EXCEPT ![u].name = n]
    /\ nameIdx' = IF u \in listed
                  THEN NamePut(NamePop(nameIdx, u, obj[u].name), u, n)
                  ELSE nameIdx
    /\ UNCHANGED <<listed, unsaved, refIdx, files, removing, loading>>

\* The setter reads the derived arch first, which does not return on a cyclic
\* parent chain.  The parent of a sub-profile is left in place.
SetDistro(u, t) ==
    /\ Up /\ u \in Handles \cap Profiles
    /\ t \in (Distros \cap listed) \cup {Nil}
    /\ ~Cyclic(obj, listed, u)
    /\ obj' = [obj EXCEPT ![u].ref["distro"] = t,
                          ![u].depth = IF t = Nil THEN @ ELSE obj[t].depth + 1]
    /\ refIdx' = RefMove(refIdx, u, "distro", obj[u].ref["distro"], t)
    /\ UNCHANGED <<listed, unsaved, nameIdx, files, removing, loading>>

\* Only the item itself is refused as its parent: the new parent may be a
\* descendant.  The depth of the item's own children is not recomputed.
SetParent(u, t) ==
    /\ Up /\ u \in Handles \cap Profiles
    /\ t \in ((Profiles \cap listed) \ {u}) \cup {Nil}
    /\ ~Cyclic(obj, listed, u)
    /\ t # Nil => obj[t].depth < MaxDepth
    /\ obj' = [obj EXCEPT ![u].ref["parent"] = t,
                          ![u].depth = IF t = Nil THEN @ ELSE obj[t].depth + 1]
    /\ refIdx' = RefMove(refIdx, u, "parent", obj[u].ref["parent"], t)
    /\ UNCHANGED <<listed, unsaved, nameIdx, files, removing, loading>>

\* Fault: the attribute that is cleared keeps its index entry.
SetSystemRefLeavesEntry(u, a, b, t) ==
    /\ Up /\ u \in Handles \cap Systems
    /\ t \in (Targets(a) \cap listed) \cup {Nil}
    /\ obj' = IF t = Nil
              THEN [obj EXCEPT ![u].ref[a] = Nil]
              ELSE [obj EXCEPT ![u].ref[b] = Nil, ![u].ref[a] = t,
                               ![u].depth = obj[t].depth + 1]
    /\ refIdx' = RefMove(refIdx, u, a, obj[u].ref[a], t)
    /\ UNCHANGED <<listed, unsaved, nameIdx, files, removing, loading>>

\* A system's profile and image exclude each other: setting one clears the
\* other, through the other's setter and hence with its index.
SetSystemRef(u, a, b, t) ==
    /\ Up /\ u \in Handles \cap Systems
    /\ t \in (Targets(a) \cap listed) \cup {Nil}
    /\ IF t = Nil
       THEN /\ obj' = [obj EXCEPT ![u].ref[a] = Nil]
            /\ refIdx' = RefMove(refIdx, u, a, obj[u].ref[a], Nil)
       ELSE /\ obj' = [obj EXCEPT ![u].ref[b] = Nil, ![u].ref[a] = t,
                                  ![u].depth = obj[t].depth + 1]
            /\ refIdx' = RefMove(RefMove(refIdx, u, b, obj[u].ref[b], Nil),
                                 u, a, obj[u].ref[a], t)
    /\ UNCHANGED <<listed, unsaved, nameIdx, files, removing, loading>>

SetProfile(u, t) == SetSystemRef(u, "profile", "image", t)
SetImage(u, t) == SetSystemRef(u, "image", "profile", t)

-----------------------------------------------------------------------------
(* Requests that save, copy and rename                                     *)

\* Collection.add with save: the listing, the indexes, then the file.
Publish(u, it) ==
    /\ listed' = listed \cup {u}
    /\ nameIdx' = NamePut(nameIdx, u, it.name)
    /\ refIdx' = RefsPut(refIdx, u, it)
    /\ saved' = saved \cup {u}
    /\ disk' = [disk EXCEPT ![u] = it]

\* save_item.  The duplicate check is made in edit mode "new" only.  A sync or
\* a post trigger that raises after the file is written leaves the item in
\* the pool of unsaved items as well.
Save(u, editmode, raises) ==
    /\ Up /\ u \in Handles
    /\ Valid(obj, listed, u)
    /\ editmode = "new" => nameIdx[Kind(u)][obj[u].name] = Nil
    /\ Publish(u, obj[u])
    /\ unsaved' = IF raises THEN unsaved ELSE unsaved \ {u}
    /\ UNCHANGED <<obj, removing, loading>>

\* copy_item: clone u under the new uid v and the name n, and add it.
Copy(u, v, n) ==
    LET clone == [Constructed(obj[u]) EXCEPT !.name = n]
        o == [obj EXCEPT ![v] = clone]
    IN  /\ Up /\ u \in listed
        /\ Fresh(v) /\ Kind(v) = Kind(u)
        /\ ~Cyclic(obj, listed, u) /\ Constructible(obj[u])
        /\ Valid(o, listed, v)
        /\ nameIdx[Kind(v)][n] = Nil
        /\ obj' = o
        /\ Publish(v, clone)
        /\ UNCHANGED <<unsaved, removing, loading>>

\* rename_item: no duplicate check and no check_if_valid; the file receives
\* the whole live object.
Rename(u, n) ==
    LET it == [obj[u] EXCEPT !.name = n]
    IN  /\ Up /\ u \in listed
        /\ n # obj[u].name
        /\ obj' = [obj EXCEPT ![u] = it]
        /\ nameIdx' = NamePut(NamePop(nameIdx, u, obj[u].name), u, n)
        /\ saved' = saved \cup {u}
        /\ disk' = [disk EXCEPT ![u] = it]
        /\ UNCHANGED <<listed, unsaved, refIdx, removing, loading>>

-----------------------------------------------------------------------------
(* Removal                                                                 *)

\* An object lives on while the pool of unsaved items still holds it.
Forget(u, stillListed) == IF stillListed THEN obj ELSE [obj EXCEPT ![u] = Blank]

\* remove_item resolves a name; a handle in the pool of unsaved items is only
\* taken out of the pool, also when the item has been saved meanwhile.
DropUnsaved(u) ==
    /\ Up /\ u \in unsaved
    /\ \/ \E n \in Names : nameIdx[Kind(u)][n] = u
       \/ obj[u].name # NoName /\ nameIdx[Kind(u)][obj[u].name] = Nil
    /\ unsaved' = unsaved \ {u}
    /\ obj' = Forget(u, u \in listed)
    /\ UNCHANGED <<listed, nameIdx, refIdx, files, removing, loading>>

\* __invalidate_expired_tokens: unsaved items are dropped after ten minutes.
ExpireUnsaved(u) ==
    /\ Up /\ u \in unsaved
    /\ unsaved' = unsaved \ {u}
    /\ obj' = Forget(u, u \in listed)
    /\ UNCHANGED <<listed, nameIdx, refIdx, files, removing, loading>>

\* Fault: the file of a removed item stays.
DeleteKeepsFile(u) ==
    /\ listed' = listed \ {u}
    /\ nameIdx' = NamePop(nameIdx, u, obj[u].name)
    /\ refIdx' = RefsDrop(refIdx, u, obj[u])
    /\ UNCHANGED files
    /\ obj' = Forget(u, u \in unsaved)

\* The end of Collection.remove: indexes, listing, file.
Delete(u) ==
    /\ listed' = listed \ {u}
    /\ nameIdx' = NamePop(nameIdx, u, obj[u].name)
    /\ refIdx' = RefsDrop(refIdx, u, obj[u])
    /\ saved' = saved \ {u}
    /\ disk' = [disk EXCEPT ![u] = Blank]
    /\ obj' = Forget(u, u \in unsaved)

\* remove_item without recursive: refused while anything depends on the item.
Remove(u) ==
    /\ Up /\ u \notin unsaved
    /\ \E n \in Names : nameIdx[Kind(u)][n] = u
    /\ Dependants(u) = {}
    /\ Delete(u)
    /\ UNCHANGED <<unsaved, removing, loading>>

CallOn(u) == [item |-> u, ahead |-> AttrsTo(u), todo |-> {}]

\* remove_item with recursive (the default of the XML-RPC interface).
RemoveRecursive(u) ==
    /\ Up /\ u \notin unsaved
    /\ \E n \in Names : nameIdx[Kind(u)][n] = u
    /\ removing' = <<CallOn(u)>>
    /\ UNCHANGED <<memory, files, loading>>

Top == removing[Len(removing)]
WithTop(frame) == [removing EXCEPT ![Len(removing)] = frame]

\* One type of dependants after the other is looked up, sub-profiles before
\* systems; the result is a list that later removals do not change.
RemoveLookUp ==
    /\ removing # <<>> /\ Top.todo = {}
    /\ \E a \in Top.ahead :
        /\ "parent" \in Top.ahead => a = "parent"
        /\ removing' = WithTop([Top EXCEPT !.ahead = @ \ {a},
                                          !.todo = refIdx[a][Top.item]])
    /\ UNCHANGED <<memory, files, loading>>

RemoveDescend ==
    /\ removing # <<>> /\ Len(removing) < RecursionLimit
    /\ \E d \in Top.todo :
        removing' = Append(WithTop([Top EXCEPT !.todo = @ \ {d}]), CallOn(d))
    /\ UNCHANGED <<memory, files, loading>>

CallDone == removing # <<>> /\ Top.todo = {} /\ Top.ahead = {}

RemoveReturn ==
    /\ CallDone /\ Top.item \in listed
    /\ Delete(Top.item)
    /\ removing' = SubSeq(removing, 1, Len(removing) - 1)
    /\ UNCHANGED <<unsaved, loading>>

\* Fault: the call is made again for an item that is not found.
RemoveKeyErrorRetried ==
    /\ CallDone /\ Top.item \notin listed
    /\ removing' = WithTop(CallOn(Top.item))
    /\ UNCHANGED <<memory, files, loading>>

\* An item of the list that a nested call has removed already: "del listing"
\* raises KeyError, which ends the whole request.
RemoveKeyError ==
    /\ CallDone /\ Top.item \notin listed
    /\ removing' = <<>>
    /\ UNCHANGED <<memory, files, loading>>

\* When the dependants form a cycle the recursion never returns on its own:
\* Python raises RecursionError, and nothing is removed.
RemoveOverflow ==
    /\ removing # <<>> /\ Len(removing) = RecursionLimit
    /\ Top.todo # {}
    /\ removing' = <<>>
    /\ UNCHANGED <<memory, files, loading>>

\* A delete trigger that fails ends the removal and undoes nothing of it.
RemoveTriggerFails ==
    /\ removing # <<>>
    /\ removing' = <<>>
    /\ UNCHANGED <<memory, files, loading>>

-----------------------------------------------------------------------------
(* Crash and start-up                                                      *)

Restart ==
    /\ obj' = [u \in Uid |-> Blank]
    /\ listed' = {} /\ unsaved' = {}
    /\ nameIdx' = EmptyNameIdx /\ refIdx' = EmptyRefIdx
    /\ removing' = <<>>
    /\ loading' = saved
    /\ UNCHANGED files

\* The order of the collections in CollectionManager.deserialize; profiles
\* are sorted by the depth in their files, ties in directory order.
LoadRank(u) == CASE u \in Distros -> 1 [] u \in Profiles -> 2
                 [] u \in Images -> 3 [] u \in Systems -> 4

\* Fault: the files of a collection are not sorted.
LoadsBeforeUnsorted(u, v) == LoadRank(u) < LoadRank(v)

LoadsBefore(u, v) ==
    \/ LoadRank(u) < LoadRank(v)
    \/ u \in Profiles /\ v \in Profiles /\ disk[u].depth < disk[v].depth

\* from_list: an item that cannot be constructed or added is skipped.
LoadItem(u) ==
    LET it == Constructed(disk[u])
        o == [obj EXCEPT ![u] = it]
    IN  /\ \A v \in loading : ~LoadsBefore(v, u)
        /\ loading' = loading \ {u}
        /\ IF Constructible(disk[u]) /\ Valid(o, listed, u)
           THEN /\ obj' = o
                /\ listed' = listed \cup {u}
                /\ nameIdx' = NamePut(nameIdx, u, it.name)
                /\ refIdx' = RefsPut(refIdx, u, it)
           ELSE UNCHANGED <<obj, listed, nameIdx, refIdx>>
        /\ UNCHANGED <<unsaved, files, removing>>

Load == \E u \in loading : LoadItem(u)

-----------------------------------------------------------------------------
Edit ==
    \E u \in Uid :
        \/ \E n \in NameChoices[u] : SetName(u, n)
        \/ \E t \in Distros \cup {Nil} : SetDistro(u, t)
        \/ \E t \in Profiles \cup {Nil} : SetParent(u, t)
        \/ \E t \in Profiles \cup {Nil} : SetProfile(u, t)
        \/ \E t \in Images \cup {Nil} : SetImage(u, t)

Request ==
    \E u \in Uid :
        \/ NewItem(u)
        \/ \E m \in {"new", "bypass"}, raises \in BOOLEAN : Save(u, m, raises)
        \/ \E v \in Uid : \E n \in NameChoices[v] : Copy(u, v, n)
        \/ \E n \in NameChoices[u] : Rename(u, n)
        \/ DropUnsaved(u)
        \/ ExpireUnsaved(u)
        \/ Remove(u)
        \/ RemoveRecursive(u)

RemovalStep ==
    RemoveLookUp \/ RemoveDescend \/ RemoveReturn \/ RemoveKeyError \/ RemoveOverflow

Next == Edit \/ Request \/ RemovalStep \/ RemoveTriggerFails \/ Restart \/ Load

Spec == Init /\ [][Next]_vars

\* The thread that serves a removal runs on: nothing in it blocks.
FairSpec == Spec /\ WF_vars(RemovalStep)

-----------------------------------------------------------------------------
(* Properties                                                              *)

\* Every reference index is exactly what a scan of the listing would find, so
\* that the lookups Collection.remove relies on are never wrong, through every
\* setter, save, copy, rename, removal, crash and reload.
RefIndexExact ==
    \A a \in Attrs, t \in Uid \cup {Nil} :
        refIdx[a][t] = {u \in listed \cap Owners(a) : obj[u].ref[a] = t}

\* A hit in a name index is a listed item of that type with that name: a lookup
\* by name may miss an item but never returns a wrong or a deleted one.
NameIndexSound ==
    \A k \in Kinds, n \in Names \cup {NoName} :
        LET u == nameIdx[k][n]
        IN  u # Nil => u \in listed /\ Kind(u) = k /\ obj[u].name = n /\ n # NoName

\* The files contradict neither each other nor check_if_valid.
FilesClosed == \A u \in saved, a \in Attrs : disk[u].ref[a] \in saved \cup {Nil}
FilesValid == \A u \in saved : Valid(disk, saved, u)
FilesByDepth ==
    \A u, v \in saved : disk[v].ref["parent"] = u => disk[u].depth < disk[v].depth

Skips(u) == u \in loading \ loading' /\ u \notin listed'

\* A start-up skips no item, whatever order the files come in, if the files
\* are consistent and their depths order parents before children.
StartupRestoresOrdered ==
    [][(\E u \in Uid : Skips(u)) => ~(FilesClosed /\ FilesValid /\ FilesByDepth)]_vars

\* A recursive removal takes no unrelated item along: each call that still finds
\* its item removes one that refers to the item of the call before it.
RemovalFollowsReferences ==
    \A i \in 1 .. Len(removing) - 1 :
        removing[i+1].item \in listed =>
            \E a \in Attrs : obj[removing[i+1].item].ref[a] = removing[i].item

\* "removal would orphan": an item leaves the listing, one by one or in a
\* recursive removal that is cut short, only when no listed item refers to it.
RemovalOrphansNoListedItem ==
    [][\A u \in listed \ listed' :
          \A v \in listed', a \in Attrs : obj'[v].ref[a] # u]_vars

\* A recursive removal ends, also when the parents form a cycle.
RemovalEnds == removing # <<>> ~> removing = <<>>

\* serializer.py says that sorting by depth "ensures properly ordered object
\* loading": no item is lost at start-up because of the depths in the files.
StartupRestoresAll ==
    [][(\E u \in Uid : Skips(u)) => ~(FilesClosed /\ FilesValid)]_vars

\* With recursive "the orphaned items would be removed automatically": no call
\* of a recursive removal is made for an item that is gone already.
RemovalMeetsListedItems ==
    \A i \in 1 .. Len(removing) : removing[i].item \in listed

\* The store implements the catalogue it presents to its clients.
Published == [u \in Uid |-> IF u \in listed THEN obj[u] ELSE Blank]

Abstract == INSTANCE Catalogue WITH item <- Published

ImplementsCatalogue == Abstract!CSpec
=============================================================================
