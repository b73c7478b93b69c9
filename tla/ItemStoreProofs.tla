--------------------------- MODULE ItemStoreProofs ---------------------------
(***************************************************************************)
(* Theorems about ItemStore, for any number of items and names.            *)
(***************************************************************************)
EXTENDS ItemStore, TLAPS, FiniteSetTheorems, SequenceTheorems

\* Every reference is of an item that has the attribute, to one of the type the
\* attribute names, in memory and in the files.
TypedRefs(o) ==
    \A u \in Uid, a \in Attrs :
        o[u].ref[a] # Nil => u \in Owners(a) /\ o[u].ref[a] \in Targets(a)

RefsTyped == TypedRefs(obj) /\ TypedRefs(disk)

\* A start-up lists what it has not yet to load, and no removal runs meanwhile.
OneThingAtATime ==
    /\ loading \cap listed = {}
    /\ removing # <<>> => loading = {}

\* The item that call i of a removal has handed on to call i + 1.
HandedOn(i) == IF i < Len(removing) THEN {removing[i+1].item} ELSE {}

\* The dependants over the attributes that a call has looked up are all on its
\* list or handed on.
CallsCover ==
    \A i \in 1 .. Len(removing) :
        \A a \in AttrsTo(removing[i].item) \ removing[i].ahead :
            refIdx[a][removing[i].item] \subseteq removing[i].todo \cup HandedOn(i)

\* What is on the list of a call refers to the item of the call.
ListsFollowReferences ==
    \A i \in 1 .. Len(removing) : \A d \in removing[i].todo :
        d \in listed => \E a \in Attrs : obj[d].ref[a] = removing[i].item

IInv ==
    /\ TypeOK
    /\ RefsTyped
    /\ OneThingAtATime
    /\ RefIndexExact
    /\ NameIndexSound
    /\ CallsCover
    /\ ListsFollowReferences
    /\ RemovalFollowsReferences

-----------------------------------------------------------------------------
(* Types of the operators                                                  *)

LEMMA BlankType == Blank \in Item /\ \A a \in Attrs : Blank.ref[a] = Nil
BY DEF Blank, Item, NoRefs

LEMMA KindType == \A u \in Uid : Kind(u) \in Kinds
BY DEF Kind, Kinds

LEMMA ItemFields ==
    ASSUME NEW it \in Item
    PROVE  /\ it.name \in Names \cup {NoName}
           /\ it.ref \in [Attrs -> Uid \cup {Nil}]
           /\ \A a \in Attrs : it.ref[a] \in Uid \cup {Nil}
           /\ it.depth \in Nat
BY DEF Item

\* What the edits of an item leave of it, field by field.
LEMMA RenamedItem ==
    ASSUME NEW it \in Item, NEW n \in Names \cup {NoName}
    PROVE  /\ [it EXCEPT !.name = n] \in Item
           /\ [it EXCEPT !.name = n].ref = it.ref
BY DEF Item

LEMMA EditedItem ==
    ASSUME NEW it \in Item, NEW a \in Attrs, NEW t \in Uid \cup {Nil}, NEW k \in Nat
    PROVE  [it EXCEPT !.ref[a] = t, !.depth = k] \in Item
BY DEF Item

LEMMA TwiceEditedItem ==
    ASSUME NEW it \in Item, NEW a \in Attrs, NEW b \in Attrs, NEW t \in Uid \cup {Nil},
           NEW k \in Nat
    PROVE  [it EXCEPT !.ref[b] = Nil, !.ref[a] = t, !.depth = k] \in Item
BY DEF Item

LEMMA ConstructedType ==
    ASSUME obj \in [Uid -> Item], NEW it \in Item, listed \subseteq Uid, Constructible(it)
    PROVE  /\ Constructed(it) \in Item
           /\ Constructed(it).name = it.name
           /\ Constructed(it).ref = it.ref
<1>1. \A a \in Attrs : it.ref[a] # Nil => obj[it.ref[a]].depth + 1 \in Nat
  BY DEF Constructible, Item
<1>2. \E k \in Nat : Constructed(it) = [it EXCEPT !.depth = k]
  <2>1. {"distro", "parent", "profile", "image"} = Attrs /\ it.depth \in Nat
    BY DEF Attrs, Item
  <2> QED  BY <1>1, <2>1 DEF Constructed
<1> QED  BY <1>2 DEF Item

LEMMA NameIdxType ==
    ASSUME NEW idx \in [Kinds -> [Names \cup {NoName} -> Uid \cup {Nil}]],
           NEW u \in Uid, NEW n \in Names \cup {NoName}
    PROVE  /\ NamePut(idx, u, n) \in [Kinds -> [Names \cup {NoName} -> Uid \cup {Nil}]]
           /\ NamePop(idx, u, n) \in [Kinds -> [Names \cup {NoName} -> Uid \cup {Nil}]]
BY KindType DEF NamePut, NamePop

LEMMA RefIdxType ==
    ASSUME NEW idx \in [Attrs -> [Uid \cup {Nil} -> SUBSET Uid]],
           NEW u \in Uid, NEW it, NEW a \in Attrs, NEW s, NEW t
    PROVE  /\ RefsPut(idx, u, it) \in [Attrs -> [Uid \cup {Nil} -> SUBSET Uid]]
           /\ RefsDrop(idx, u, it) \in [Attrs -> [Uid \cup {Nil} -> SUBSET Uid]]
           /\ RefMove(idx, u, a, s, t) \in [Attrs -> [Uid \cup {Nil} -> SUBSET Uid]]
<1>1. RefsPut(idx, u, it) \in [Attrs -> [Uid \cup {Nil} -> SUBSET Uid]]
  BY DEF RefsPut
<1>2. RefsDrop(idx, u, it) \in [Attrs -> [Uid \cup {Nil} -> SUBSET Uid]]
  BY DEF RefsDrop
<1>3. RefMove(idx, u, a, s, t) \in [Attrs -> [Uid \cup {Nil} -> SUBSET Uid]]
  <2> DEFINE row == [r \in Uid \cup {Nil} |->
                       IF r = t THEN idx[a][r] \cup {u}
                       ELSE IF r = s THEN idx[a][r] \ {u} ELSE idx[a][r]]
  <2>1. row \in [Uid \cup {Nil} -> SUBSET Uid]  OBVIOUS
  <2>2. RefMove(idx, u, a, s, t) = IF u \in listed THEN [idx EXCEPT ![a] = row] ELSE idx
    BY DEF RefMove
  <2> HIDE DEF row
  <2> QED  BY <2>1, <2>2
<1> QED  BY <1>1, <1>2, <1>3

-----------------------------------------------------------------------------
(* What the operations on the indexes preserve                             *)

\* idx is the exact index of the items L in o, and names a sound one.
Exact(idx, o, L) ==
    \A a \in Attrs, t \in Uid \cup {Nil} :
        idx[a][t] = {u \in L \cap Owners(a) : o[u].ref[a] = t}

Sound(idx, o, L) ==
    \A k \in Kinds, n \in Names \cup {NoName} :
        LET u == idx[k][n]
        IN  u # Nil => u \in L /\ Kind(u) = k /\ o[u].name = n /\ n # NoName

LEMMA ExactSound ==
    /\ RefIndexExact <=> Exact(refIdx, obj, listed)
    /\ NameIndexSound <=> Sound(nameIdx, obj, listed)
BY DEF RefIndexExact, NameIndexSound, Exact, Sound

\* Setting one reference of an item moves it in the index of that attribute.
LEMMA MoveExact ==
    ASSUME NEW idx \in [Attrs -> [Uid \cup {Nil} -> SUBSET Uid]],
           NEW o, NEW o2, NEW u \in Uid, NEW b \in Attrs, u \in Owners(b),
           NEW t \in Uid \cup {Nil}, o[u].ref[b] \in Uid \cup {Nil},
           Exact(idx, o, listed),
           o2[u].ref[b] = t,
           \A v \in Uid, a \in Attrs : v # u \/ a # b => o2[v].ref[a] = o[v].ref[a],
           listed \subseteq Uid
    PROVE  Exact(RefMove(idx, u, b, o[u].ref[b], t), o2, listed)
<1> DEFINE new == RefMove(idx, u, b, o[u].ref[b], t)
<1> SUFFICES ASSUME NEW a \in Attrs, NEW r \in Uid \cup {Nil}
             PROVE  new[a][r] = {v \in listed \cap Owners(a) : o2[v].ref[a] = r}
  BY DEF Exact
<1>1. idx[a][r] = {v \in listed \cap Owners(a) : o[v].ref[a] = r}
  BY DEF Exact
<1>2. CASE u \notin listed
  <2>1. new = idx  BY <1>2 DEF RefMove
  <2> QED  BY <1>1, <1>2, <2>1
<1>3. CASE u \in listed /\ a # b
  <2>1. new[a] = idx[a]  BY <1>3 DEF RefMove
  <2> QED  BY <1>1, <1>3, <2>1
<1>4. CASE u \in listed /\ a = b
  <2>1. new[a][r] = IF r = t THEN idx[a][r] \cup {u}
                    ELSE IF r = o[u].ref[b] THEN idx[a][r] \ {u} ELSE idx[a][r]
    BY <1>4 DEF RefMove
  <2> QED  BY <1>1, <1>4, <2>1
<1> QED  BY <1>2, <1>3, <1>4

\* Adding an item enters it under each of its references.
LEMMA PutExact ==
    ASSUME NEW idx, NEW o, NEW o2, NEW L, NEW u \in Uid,
           Exact(idx, o, L),
           \A v \in L : o2[v].ref = o[v].ref
    PROVE  Exact(RefsPut(idx, u, o2[u]), o2, L \cup {u})
BY DEF Exact, RefsPut

\* Removing an item takes it out of the entry of each of its references.
LEMMA DropExact ==
    ASSUME NEW idx, NEW o, NEW o2, NEW L, NEW u \in Uid,
           Exact(idx, o, L),
           \A v \in L \ {u} : o2[v].ref = o[v].ref
    PROVE  Exact(RefsDrop(idx, u, o[u]), o2, L \ {u})
BY DEF Exact, RefsDrop

\* A name index stays sound when an item that it may return is entered under
\* the item's name, and when an item's name is taken out of it.
LEMMA PutSound ==
    ASSUME NEW idx \in [Kinds -> [Names \cup {NoName} -> Uid \cup {Nil}]],
           NEW o, NEW L, NEW u \in Uid, NEW n \in Names \cup {NoName},
           Sound(idx, o, L), o[u].name = n
    PROVE  Sound(NamePut(idx, u, n), o, L \cup {u})
BY KindType DEF Sound, NamePut

LEMMA PopSound ==
    ASSUME NEW idx \in [Kinds -> [Names \cup {NoName} -> Uid \cup {Nil}]],
           NEW o, NEW o2, NEW L, NEW u \in Uid, NEW n \in Names \cup {NoName},
           Sound(idx, o, L), o[u].name = n,
           \A v \in L \ {u} : o2[v].name = o[v].name
    PROVE  Sound(NamePop(idx, u, n), o2, L \ {u})
BY KindType DEF Sound, NamePop

\* An index is as sound for more items, and for changed items it cannot return.
LEMMA StillSound ==
    ASSUME NEW idx, NEW o, NEW o2, NEW L, NEW M,
           Sound(idx, o, L), L \subseteq M, \A v \in L : o2[v].name = o[v].name
    PROVE  Sound(idx, o2, M)
BY DEF Sound

-----------------------------------------------------------------------------
(* The inductive invariant: initially, and step by step                    *)

LEMMA InitIInv == Init => IInv
<1> SUFFICES ASSUME Init PROVE IInv  OBVIOUS
<1>1. TypeOK
  BY BlankType DEF Init, TypeOK, EmptyNameIdx, EmptyRefIdx
<1>2. RefsTyped
  BY BlankType DEF Init, RefsTyped, TypedRefs
<1>3. RefIndexExact /\ NameIndexSound
  BY DEF Init, RefIndexExact, NameIndexSound, EmptyNameIdx, EmptyRefIdx
<1>4. OneThingAtATime /\ CallsCover /\ ListsFollowReferences /\ RemovalFollowsReferences
  BY DEF Init, OneThingAtATime, CallsCover, ListsFollowReferences, RemovalFollowsReferences
<1> QED  BY <1>1, <1>2, <1>3, <1>4 DEF IInv

\* Nothing is claimed of the calls of a removal when there is none.
LEMMA NoRemoval ==
    ASSUME removing = <<>>
    PROVE  CallsCover /\ ListsFollowReferences /\ RemovalFollowsReferences
BY DEF CallsCover, ListsFollowReferences, RemovalFollowsReferences

LEMMA NoRemovalNext ==
    ASSUME removing' = <<>>
    PROVE  CallsCover' /\ ListsFollowReferences' /\ RemovalFollowsReferences'
BY DEF CallsCover, ListsFollowReferences, RemovalFollowsReferences

LEMMA NewItemIInv ==
    ASSUME IInv, NEW u \in Uid, NewItem(u)
    PROVE  IInv'
<1>1. removing' = <<>>  BY DEF NewItem, Up
<1>2. CallsCover' /\ ListsFollowReferences' /\ RemovalFollowsReferences'
  BY <1>1, NoRemovalNext
<1>3. TypeOK' /\ OneThingAtATime'
  BY DEF IInv, NewItem, files, TypeOK, OneThingAtATime
<1>4. RefsTyped' /\ RefIndexExact' /\ NameIndexSound'
  BY DEF IInv, NewItem, files, RefsTyped, TypedRefs, RefIndexExact, NameIndexSound
<1> QED  BY <1>2, <1>3, <1>4 DEF IInv

LEMMA SetNameIInv ==
    ASSUME IInv, NEW u \in Uid, NEW n \in Names, SetName(u, n)
    PROVE  IInv'
<1> DEFINE old == obj[u].name
<1>1. removing' = <<>>  BY DEF SetName, Up
<1>2. CallsCover' /\ ListsFollowReferences' /\ RemovalFollowsReferences'
  BY <1>1, NoRemovalNext
<1>3. /\ obj[u] \in Item /\ old \in Names \cup {NoName}
      /\ obj' = [obj EXCEPT ![u] = [obj[u] EXCEPT !.name = n]]
      /\ nameIdx \in [Kinds -> [Names \cup {NoName} -> Uid \cup {Nil}]]
  BY DEF IInv, TypeOK, SetName, Item
<1>4. \A v \in Uid : /\ obj'[v].ref = obj[v].ref
                     /\ v # u => obj'[v].name = obj[v].name
                     /\ v = u => obj'[v].name = n
  BY <1>3 DEF IInv, TypeOK, Item
<1>5. TypeOK'
  <2>1. obj' \in [Uid -> Item]
    BY <1>3, RenamedItem DEF IInv, TypeOK
  <2>2. nameIdx' \in [Kinds -> [Names \cup {NoName} -> Uid \cup {Nil}]]
    BY <1>3, NameIdxType DEF SetName
  <2> QED  BY <2>1, <2>2 DEF IInv, TypeOK, SetName, files
<1>6. RefsTyped' /\ OneThingAtATime' /\ RefIndexExact'
  BY <1>4 DEF IInv, TypeOK, SetName, files, RefsTyped, TypedRefs, OneThingAtATime, RefIndexExact
<1>7. NameIndexSound'
  <2>1. Sound(nameIdx, obj, listed) /\ listed \subseteq Uid /\ listed' = listed
    BY ExactSound DEF IInv, TypeOK, SetName
  <2>2. CASE u \notin listed
    <3>1. \A v \in listed : obj'[v].name = obj[v].name  BY <1>4, <2>1, <2>2
    <3>2. Sound(nameIdx, obj', listed)  BY <2>1, <3>1, StillSound
    <3>3. nameIdx' = nameIdx  BY <2>2 DEF SetName
    <3> QED  BY <2>1, <3>2, <3>3 DEF Sound, NameIndexSound
  <2>3. CASE u \in listed
    <3> DEFINE popped == NamePop(nameIdx, u, old)
    <3>1. Sound(popped, obj', listed \ {u})
      BY <1>3, <1>4, <2>1, PopSound
    <3>2. popped \in [Kinds -> [Names \cup {NoName} -> Uid \cup {Nil}]]
      BY <1>3, NameIdxType
    <3>3. Sound(NamePut(popped, u, n), obj', (listed \ {u}) \cup {u})
      <4> HIDE DEF popped
      <4> QED  BY <1>4, <3>1, <3>2, PutSound
    <3>4. nameIdx' = NamePut(popped, u, n) /\ (listed \ {u}) \cup {u} = listed
      BY <2>3 DEF SetName
    <3> QED  BY <2>1, <3>3, <3>4 DEF Sound, NameIndexSound
  <2> QED  BY <2>2, <2>3
<1> QED  BY <1>2, <1>5, <1>6, <1>7 DEF IInv

\* What an edit of references has to establish.
LEMMA EditIInv ==
    ASSUME IInv, Up,
           obj' \in [Uid -> Item],
           refIdx' \in [Attrs -> [Uid \cup {Nil} -> SUBSET Uid]],
           TypedRefs(obj)',
           \A v \in Uid : obj'[v].name = obj[v].name,
           Exact(refIdx', obj', listed),
           UNCHANGED <<listed, unsaved, nameIdx, files, removing, loading>>
    PROVE  IInv'
<1>1. CallsCover' /\ ListsFollowReferences' /\ RemovalFollowsReferences'
  BY NoRemovalNext DEF Up
<1>2. TypeOK'
  BY DEF IInv, TypeOK, files
<1>3. RefsTyped' /\ OneThingAtATime'
  BY DEF IInv, RefsTyped, TypedRefs, OneThingAtATime, files
<1>4. RefIndexExact'
  BY DEF Exact, RefIndexExact
<1>5. NameIndexSound'
  BY DEF IInv, TypeOK, NameIndexSound
<1> QED  BY <1>1, <1>2, <1>3, <1>4, <1>5 DEF IInv

\* Only the reference b of u has changed, to t, and with it its index.
LEMMA MovedRefIInv ==
    ASSUME IInv, Up, NEW u \in Uid, NEW b \in Attrs, u \in Owners(b),
           NEW t \in Uid \cup {Nil}, t # Nil => t \in Targets(b),
           obj' \in [Uid -> Item], obj'[u].ref[b] = t,
           \A v \in Uid, a \in Attrs : v # u \/ a # b => obj'[v].ref[a] = obj[v].ref[a],
           \A v \in Uid : obj'[v].name = obj[v].name,
           refIdx' = RefMove(refIdx, u, b, obj[u].ref[b], t),
           UNCHANGED <<listed, unsaved, nameIdx, files, removing, loading>>
    PROVE  IInv'
<1>1. /\ listed \subseteq Uid
      /\ refIdx \in [Attrs -> [Uid \cup {Nil} -> SUBSET Uid]]
      /\ obj[u].ref[b] \in Uid \cup {Nil}
      /\ Exact(refIdx, obj, listed)
  BY ItemFields, ExactSound DEF IInv, TypeOK
<1>2. TypedRefs(obj)'
  <2> SUFFICES ASSUME NEW v \in Uid, NEW c \in Attrs, obj'[v].ref[c] # Nil
               PROVE  v \in Owners(c) /\ obj'[v].ref[c] \in Targets(c)
    BY DEF TypedRefs
  <2>1. CASE v = u /\ c = b
    BY <2>1
  <2>2. CASE v # u \/ c # b
    <3>1. obj'[v].ref[c] = obj[v].ref[c]
      BY <2>2
    <3> QED  BY <3>1 DEF IInv, RefsTyped, TypedRefs
  <2> QED  BY <2>1, <2>2
<1>3. RefMove(refIdx, u, b, obj[u].ref[b], t) \in [Attrs -> [Uid \cup {Nil} -> SUBSET Uid]]
  BY <1>1, RefIdxType
<1>4. Exact(RefMove(refIdx, u, b, obj[u].ref[b], t), obj', listed)
  BY <1>1, MoveExact
<1> QED  BY <1>2, <1>3, <1>4, EditIInv

\* One reference b of u is set to t, and its depth to k.
LEMMA SetRefIInv ==
    ASSUME IInv, Up, NEW u \in Uid, NEW b \in Attrs, u \in Owners(b),
           NEW t \in Uid \cup {Nil}, t # Nil => t \in Targets(b), NEW k \in Nat,
           obj' = [obj EXCEPT ![u].ref[b] = t, ![u].depth = k],
           refIdx' = RefMove(refIdx, u, b, obj[u].ref[b], t),
           UNCHANGED <<listed, unsaved, nameIdx, files, removing, loading>>
    PROVE  IInv'
<1>1. obj \in [Uid -> Item] /\ obj[u] \in Item
  BY DEF IInv, TypeOK
<1>2. obj' = [obj EXCEPT ![u] = [obj[u] EXCEPT !.ref[b] = t, !.depth = k]]
  OBVIOUS
<1>3. obj' \in [Uid -> Item]
  <2>1. [obj[u] EXCEPT !.ref[b] = t, !.depth = k] \in Item
    BY <1>1, EditedItem
  <2> QED  BY <1>1, <1>2, <2>1
<1>4. /\ obj'[u].ref[b] = t
      /\ \A v \in Uid, a \in Attrs : v # u \/ a # b => obj'[v].ref[a] = obj[v].ref[a]
      /\ \A v \in Uid : obj'[v].name = obj[v].name
  BY <1>1, <1>2 DEF Item
<1> QED  BY <1>3, <1>4, MovedRefIInv

LEMMA SetDistroIInv ==
    ASSUME IInv, NEW u \in Uid, NEW t \in Distros \cup {Nil}, SetDistro(u, t)
    PROVE  IInv'
<1> DEFINE k == IF t = Nil THEN obj[u].depth ELSE obj[t].depth + 1
<1>1. /\ u \in Owners("distro") /\ "distro" \in Attrs
      /\ t \in Uid \cup {Nil} /\ (t # Nil => t \in Targets("distro"))
  BY DEF SetDistro, Owners, Targets, Attrs, Uid
<1>2. k \in Nat
  BY <1>1 DEF IInv, TypeOK, Item
<1>3. obj' = [obj EXCEPT ![u].ref["distro"] = t, ![u].depth = k]
  BY DEF SetDistro, IInv, TypeOK, Item
<1> HIDE DEF k
<1> QED  BY <1>1, <1>2, <1>3, SetRefIInv DEF SetDistro

LEMMA SetParentIInv ==
    ASSUME IInv, NEW u \in Uid, NEW t \in Profiles \cup {Nil}, SetParent(u, t)
    PROVE  IInv'
<1> DEFINE k == IF t = Nil THEN obj[u].depth ELSE obj[t].depth + 1
<1>1. /\ u \in Owners("parent") /\ "parent" \in Attrs
      /\ t \in Uid \cup {Nil} /\ (t # Nil => t \in Targets("parent"))
  BY DEF SetParent, Owners, Targets, Attrs, Uid
<1>2. k \in Nat
  BY <1>1 DEF IInv, TypeOK, Item
<1>3. obj' = [obj EXCEPT ![u].ref["parent"] = t, ![u].depth = k]
  BY DEF SetParent, IInv, TypeOK, Item
<1> HIDE DEF k
<1> QED  BY <1>1, <1>2, <1>3, SetRefIInv DEF SetParent

LEMMA SetSystemRefIInv ==
    ASSUME IInv, NEW u \in Uid, NEW a \in {"profile", "image"}, NEW b \in {"profile", "image"},
           a # b, NEW t \in Uid \cup {Nil}, SetSystemRef(u, a, b, t)
    PROVE  IInv'
<1>1. /\ u \in Owners(a) /\ u \in Owners(b) /\ a \in Attrs /\ b \in Attrs
      /\ (t # Nil => t \in Targets(a))
      /\ Up /\ UNCHANGED <<listed, unsaved, nameIdx, files, removing, loading>>
  BY DEF SetSystemRef, Owners, Targets, Attrs
<1>2. /\ obj \in [Uid -> Item] /\ obj[u] \in Item /\ listed \subseteq Uid
      /\ refIdx \in [Attrs -> [Uid \cup {Nil} -> SUBSET Uid]]
      /\ obj[u].ref[a] \in Uid \cup {Nil} /\ obj[u].ref[b] \in Uid \cup {Nil}
      /\ obj[u].depth \in Nat
      /\ Exact(refIdx, obj, listed)
  BY <1>1, ItemFields, ExactSound DEF IInv, TypeOK
<1>3. CASE t = Nil
  <2>1. obj' = [obj EXCEPT ![u].ref[a] = t, ![u].depth = obj[u].depth]
    BY <1>2, <1>3 DEF SetSystemRef, Item
  <2>2. refIdx' = RefMove(refIdx, u, a, obj[u].ref[a], t)
    BY <1>3 DEF SetSystemRef
  <2> QED  BY <1>1, <1>2, <2>1, <2>2, SetRefIInv
<1>4. CASE t # Nil
  <2> DEFINE mid == [obj EXCEPT ![u].ref[b] = Nil]
             idx == RefMove(refIdx, u, b, obj[u].ref[b], Nil)
             k == obj[t].depth + 1
  <2>1. /\ obj' = [obj EXCEPT ![u] = [obj[u] EXCEPT !.ref[b] = Nil, !.ref[a] = t, !.depth = k]]
        /\ refIdx' = RefMove(idx, u, a, obj[u].ref[a], t)
    BY <1>4 DEF SetSystemRef
  <2>2. k \in Nat  BY <1>2, <1>4, ItemFields
  <2>3. obj' \in [Uid -> Item]
    BY <1>1, <1>2, <2>1, <2>2, TwiceEditedItem
  <2>4. /\ mid[u].ref[b] = Nil /\ mid[u].ref[a] = obj[u].ref[a]
        /\ \A v \in Uid, c \in Attrs : v # u \/ c # b => mid[v].ref[c] = obj[v].ref[c]
    BY <1>1, <1>2 DEF Item
  <2>5. /\ obj'[u].ref[a] = t
        /\ \A v \in Uid, c \in Attrs : v # u \/ c # a => obj'[v].ref[c] = mid[v].ref[c]
        /\ \A v \in Uid : obj'[v].name = obj[v].name
    BY <1>1, <1>2, <2>1 DEF Item
  <2> HIDE DEF k, mid
  <2>6. idx \in [Attrs -> [Uid \cup {Nil} -> SUBSET Uid]] /\ Exact(idx, mid, listed)
    BY <1>1, <1>2, <2>4, MoveExact, RefIdxType
  <2> HIDE DEF idx
  <2>7. Exact(refIdx', obj', listed)
    <3>1. refIdx' = RefMove(idx, u, a, mid[u].ref[a], t)
      BY <2>1, <2>4
    <3>2. mid[u].ref[a] \in Uid \cup {Nil}
      BY <1>2, <2>4
    <3>3. Exact(RefMove(idx, u, a, mid[u].ref[a], t), obj', listed)
      BY <1>1, <1>2, <2>5, <2>6, <3>2, MoveExact
    <3> QED  BY <3>1, <3>3
  <2>8. refIdx' \in [Attrs -> [Uid \cup {Nil} -> SUBSET Uid]]
    BY <1>1, <2>1, <2>6, RefIdxType
  <2>9. TypedRefs(obj)'
    <3> SUFFICES ASSUME NEW v \in Uid, NEW c \in Attrs, obj'[v].ref[c] # Nil
                 PROVE  v \in Owners(c) /\ obj'[v].ref[c] \in Targets(c)
      BY DEF TypedRefs
    <3>1. CASE v = u /\ c = a
      BY <3>1, <1>1, <1>4, <2>5
    <3>2. CASE v = u /\ c = b
      BY <3>2, <1>1, <2>4, <2>5
    <3>3. CASE v # u \/ (c # a /\ c # b)
      <4>1. obj'[v].ref[c] = obj[v].ref[c]
        BY <3>3, <2>4, <2>5
      <4> QED  BY <4>1 DEF IInv, RefsTyped, TypedRefs
    <3> QED  BY <3>1, <3>2, <3>3
  <2> QED  BY <1>1, <2>3, <2>5, <2>7, <2>8, <2>9, EditIInv
<1> QED  BY <1>3, <1>4

\* What a request that stores an item has to establish.
LEMMA PublishIInv ==
    ASSUME IInv, Up, NEW u \in Uid,
           obj' \in [Uid -> Item], unsaved' \in SUBSET Uid,
           TypedRefs(obj)',
           \A v \in listed : obj'[v].ref = obj[v].ref /\ obj'[v].name = obj[v].name,
           Publish(u, obj'[u]),
           UNCHANGED <<removing, loading>>
    PROVE  IInv'
<1>1. CallsCover' /\ ListsFollowReferences' /\ RemovalFollowsReferences'
  BY NoRemovalNext DEF Up
<1>2. /\ obj'[u] \in Item /\ obj'[u].name \in Names \cup {NoName}
      /\ listed' = listed \cup {u} /\ listed \subseteq Uid
      /\ nameIdx' = NamePut(nameIdx, u, obj'[u].name)
      /\ refIdx' = RefsPut(refIdx, u, obj'[u])
      /\ nameIdx \in [Kinds -> [Names \cup {NoName} -> Uid \cup {Nil}]]
      /\ refIdx \in [Attrs -> [Uid \cup {Nil} -> SUBSET Uid]]
      /\ Exact(refIdx, obj, listed) /\ Sound(nameIdx, obj, listed)
  BY ExactSound, ItemFields DEF IInv, TypeOK, Publish
<1>3. TypeOK'
  <2>1. nameIdx' \in [Kinds -> [Names \cup {NoName} -> Uid \cup {Nil}]]
    BY <1>2, NameIdxType
  <2>2. refIdx' \in [Attrs -> [Uid \cup {Nil} -> SUBSET Uid]]
    BY <1>2 DEF RefsPut
  <2>3. saved' \in SUBSET Uid /\ disk' \in [Uid -> Item]
    BY <1>2 DEF IInv, TypeOK, Publish
  <2> QED  BY <1>2, <2>1, <2>2, <2>3 DEF IInv, TypeOK
<1>4. RefsTyped' /\ OneThingAtATime'
  BY DEF IInv, TypeOK, RefsTyped, TypedRefs, OneThingAtATime, Publish, Up
<1>5. RefIndexExact'
  <2>1. Exact(RefsPut(refIdx, u, obj'[u]), obj', listed \cup {u})
    BY <1>2, PutExact
  <2> QED  BY <1>2, <2>1 DEF Exact, RefIndexExact
<1>6. NameIndexSound'
  <2>1. Sound(nameIdx, obj', listed)
    BY <1>2, StillSound
  <2>2. Sound(NamePut(nameIdx, u, obj'[u].name), obj', listed \cup {u})
    BY <1>2, <2>1, PutSound
  <2> QED  BY <1>2, <2>2 DEF Sound, NameIndexSound
<1> QED  BY <1>1, <1>3, <1>4, <1>5, <1>6 DEF IInv

LEMMA SaveIInv ==
    ASSUME IInv, NEW u \in Uid, NEW m \in {"new", "bypass"}, NEW raises \in BOOLEAN,
           Save(u, m, raises)
    PROVE  IInv'
<1>1. /\ Up /\ obj' = obj /\ Publish(u, obj'[u])
      /\ UNCHANGED <<removing, loading>>
  BY DEF Save
<1>2. obj' \in [Uid -> Item] /\ unsaved' \in SUBSET Uid /\ TypedRefs(obj)'
  BY <1>1 DEF IInv, TypeOK, RefsTyped, TypedRefs, Save
<1> QED  BY <1>1, <1>2, PublishIInv

LEMMA CopyIInv ==
    ASSUME IInv, NEW u \in Uid, NEW v \in Uid, NEW n \in Names, Copy(u, v, n)
    PROVE  IInv'
<1> DEFINE clone == [Constructed(obj[u]) EXCEPT !.name = n]
<1>1. obj \in [Uid -> Item] /\ obj[u] \in Item /\ listed \subseteq Uid
  BY DEF IInv, TypeOK
<1>2. clone \in Item /\ clone.ref = obj[u].ref
  <2>1. /\ Constructed(obj[u]) \in Item
        /\ Constructed(obj[u]).ref = obj[u].ref
    BY <1>1, ConstructedType DEF Copy
  <2> QED  BY <2>1, RenamedItem
<1>3. /\ Up /\ obj' = [obj EXCEPT ![v] = clone] /\ Publish(v, clone) /\ v \notin listed
      /\ Kind(v) = Kind(u) /\ UNCHANGED <<unsaved, removing, loading>>
  BY DEF Copy, Fresh, Handles
<1> HIDE DEF clone
<1>4. obj' \in [Uid -> Item] /\ unsaved' \in SUBSET Uid /\ obj'[v] = clone
  BY <1>1, <1>2, <1>3 DEF IInv, TypeOK
<1>5. \A w \in Uid : w # v => obj'[w] = obj[w]
  BY <1>1, <1>3
<1>6. \A a \in Attrs : u \in Owners(a) => v \in Owners(a)
  BY <1>3, ConstantsAssumption DEF Kind, Owners, Uid
<1>7. TypedRefs(obj)'
  BY <1>2, <1>4, <1>5, <1>6 DEF IInv, RefsTyped, TypedRefs
<1> QED  BY <1>1, <1>3, <1>4, <1>5, <1>7, PublishIInv

LEMMA RenameIInv ==
    ASSUME IInv, NEW u \in Uid, NEW n \in Names, Rename(u, n)
    PROVE  IInv'
<1> DEFINE it == [obj[u] EXCEPT !.name = n]
           old == obj[u].name
           popped == NamePop(nameIdx, u, old)
<1>1. CallsCover' /\ ListsFollowReferences' /\ RemovalFollowsReferences'
  BY NoRemovalNext DEF Rename, Up
<1>2. /\ obj \in [Uid -> Item] /\ obj[u] \in Item /\ old \in Names \cup {NoName}
      /\ u \in listed /\ listed \subseteq Uid /\ listed' = listed
      /\ nameIdx \in [Kinds -> [Names \cup {NoName} -> Uid \cup {Nil}]]
      /\ Sound(nameIdx, obj, listed)
  BY ItemFields, ExactSound DEF IInv, TypeOK, Rename
<1>3. it \in Item /\ it.ref = obj[u].ref /\ it.name = n
  BY <1>2, RenamedItem DEF Item
<1>4. /\ obj' = [obj EXCEPT ![u] = it] /\ disk' = [disk EXCEPT ![u] = it]
      /\ saved' = saved \cup {u}
      /\ UNCHANGED <<listed, unsaved, refIdx, removing, loading>>
  BY DEF Rename
<1>5. nameIdx' = NamePut(popped, u, n)
  BY DEF Rename
<1> HIDE DEF it
<1>6. /\ \A v \in Uid : obj'[v].ref = obj[v].ref
      /\ \A v \in listed \ {u} : obj'[v].name = obj[v].name
      /\ obj'[u].name = n
  BY <1>2, <1>3, <1>4
<1>7. popped \in [Kinds -> [Names \cup {NoName} -> Uid \cup {Nil}]]
  BY <1>2, NameIdxType
<1>8. TypeOK'
  <2>1. nameIdx' \in [Kinds -> [Names \cup {NoName} -> Uid \cup {Nil}]]
    BY <1>5, <1>7, NameIdxType
  <2>2. obj' \in [Uid -> Item] /\ disk' \in [Uid -> Item] /\ saved' \in SUBSET Uid
    BY <1>2, <1>3, <1>4 DEF IInv, TypeOK
  <2> QED  BY <1>4, <2>1, <2>2 DEF IInv, TypeOK
<1>9. RefsTyped' /\ OneThingAtATime'
  <2>1. TypedRefs(obj)'
    BY <1>6 DEF IInv, RefsTyped, TypedRefs
  <2>2. \A v \in Uid : disk'[v] = disk[v] \/ disk'[v].ref = obj[v].ref
    BY <1>3, <1>4 DEF IInv, TypeOK
  <2>3. TypedRefs(disk)'
    BY <2>2 DEF IInv, RefsTyped, TypedRefs
  <2> QED  BY <2>1, <2>3 DEF IInv, RefsTyped, OneThingAtATime, Rename
<1>10. RefIndexExact'
  BY <1>2, <1>6 DEF IInv, RefIndexExact, Rename
<1>11. NameIndexSound'
  <2>1. Sound(popped, obj', listed \ {u})
    BY <1>2, <1>6, PopSound
  <2> HIDE DEF popped
  <2>2. Sound(NamePut(popped, u, n), obj', (listed \ {u}) \cup {u})
    <3>1. n \in Names \cup {NoName} /\ obj'[u].name = n  BY <1>6
    <3> QED  BY <1>7, <2>1, <3>1, PutSound
  <2>3. (listed \ {u}) \cup {u} = listed
    BY <1>2
  <2> QED  BY <1>2, <1>5, <2>2, <2>3 DEF Sound, NameIndexSound
<1> QED  BY <1>1, <1>8, <1>9, <1>10, <1>11 DEF IInv

\* Taking an item out of the pool of unsaved items touches no listed item.
LEMMA ForgetIInv ==
    ASSUME IInv, Up, NEW u \in Uid,
           unsaved' = unsaved \ {u}, obj' = Forget(u, u \in listed),
           UNCHANGED <<listed, nameIdx, refIdx, files, removing, loading>>
    PROVE  IInv'
<1>1. CallsCover' /\ ListsFollowReferences' /\ RemovalFollowsReferences'
  BY NoRemovalNext DEF Up
<1>2. /\ obj' \in [Uid -> Item]
      /\ \A v \in Uid : obj'[v] = obj[v] \/ obj'[v] = Blank
      /\ \A v \in listed : obj'[v] = obj[v]
  BY BlankType DEF IInv, TypeOK, Forget
<1>3. TypeOK' /\ OneThingAtATime'
  BY <1>2 DEF IInv, TypeOK, OneThingAtATime, files
<1>4. RefsTyped'
  BY <1>2, BlankType DEF IInv, RefsTyped, TypedRefs, files
<1>5. RefIndexExact' /\ NameIndexSound'
  BY <1>2 DEF IInv, RefIndexExact, NameIndexSound
<1> QED  BY <1>1, <1>3, <1>4, <1>5 DEF IInv

LEMMA DropUnsavedIInv ==
    ASSUME IInv, NEW u \in Uid, DropUnsaved(u)
    PROVE  IInv'
BY ForgetIInv DEF DropUnsaved

LEMMA ExpireUnsavedIInv ==
    ASSUME IInv, NEW u \in Uid, ExpireUnsaved(u)
    PROVE  IInv'
BY ForgetIInv DEF ExpireUnsaved

\* The deletion of one item, by whichever request.
LEMMA DeleteKeeps ==
    ASSUME IInv, NEW u \in Uid, Delete(u), removing' \in Seq(Frame),
           UNCHANGED <<unsaved, loading>>
    PROVE  /\ TypeOK' /\ RefsTyped' /\ RefIndexExact' /\ NameIndexSound'
           /\ listed' = listed \ {u}
           /\ \A v \in listed' : obj'[v] = obj[v]
           /\ \A a \in Attrs, t \in Uid : refIdx'[a][t] \subseteq refIdx[a][t] \ {u}
<1>1. /\ obj \in [Uid -> Item] /\ obj[u] \in Item /\ listed \subseteq Uid
      /\ obj[u].name \in Names \cup {NoName}
      /\ nameIdx \in [Kinds -> [Names \cup {NoName} -> Uid \cup {Nil}]]
      /\ refIdx \in [Attrs -> [Uid \cup {Nil} -> SUBSET Uid]]
      /\ Exact(refIdx, obj, listed) /\ Sound(nameIdx, obj, listed)
  BY ItemFields, ExactSound DEF IInv, TypeOK
<1>2. /\ listed' = listed \ {u}
      /\ nameIdx' = NamePop(nameIdx, u, obj[u].name)
      /\ refIdx' = RefsDrop(refIdx, u, obj[u])
      /\ saved' = saved \ {u} /\ disk' = [disk EXCEPT ![u] = Blank]
  BY DEF Delete
<1>3. /\ obj' \in [Uid -> Item]
      /\ \A v \in Uid : obj'[v] = obj[v] \/ obj'[v] = Blank
      /\ \A v \in Uid \ {u} : obj'[v] = obj[v]
  BY <1>1, BlankType DEF Delete, Forget
<1>4. TypeOK'
  <2>1. nameIdx' \in [Kinds -> [Names \cup {NoName} -> Uid \cup {Nil}]]
    BY <1>1, <1>2, NameIdxType
  <2>2. refIdx' \in [Attrs -> [Uid \cup {Nil} -> SUBSET Uid]]
    BY <1>1, <1>2 DEF RefsDrop
  <2>3. disk' \in [Uid -> Item]
    BY <1>2, BlankType DEF IInv, TypeOK
  <2> QED  BY <1>2, <1>3, <2>1, <2>2, <2>3 DEF IInv, TypeOK
<1>5. RefsTyped'
  BY <1>2, <1>3, BlankType DEF IInv, TypeOK, RefsTyped, TypedRefs
<1>6. Exact(refIdx', obj', listed')
  <2>1. \A v \in listed \ {u} : obj'[v].ref = obj[v].ref
    BY <1>1, <1>3
  <2> QED  BY <1>1, <1>2, <2>1, DropExact
<1>7. Sound(nameIdx', obj', listed')
  <2>1. \A v \in listed \ {u} : obj'[v].name = obj[v].name
    BY <1>1, <1>3
  <2> QED  BY <1>1, <1>2, <2>1, PopSound
<1>8. \A a \in Attrs, t \in Uid : refIdx'[a][t] \subseteq refIdx[a][t] \ {u}
  BY <1>1, <1>2, <1>3, <1>6 DEF Exact
<1> QED  BY <1>1, <1>2, <1>3, <1>4, <1>5, <1>6, <1>7, <1>8
         DEF Exact, RefIndexExact, Sound, NameIndexSound

LEMMA RemoveIInv ==
    ASSUME IInv, NEW u \in Uid, Remove(u)
    PROVE  IInv'
<1>1. /\ Delete(u) /\ removing' = <<>> /\ UNCHANGED <<unsaved, removing, loading>>
      /\ removing' \in Seq(Frame)
  BY DEF Remove, Up, IInv, TypeOK
<1>2. CallsCover' /\ ListsFollowReferences' /\ RemovalFollowsReferences'
  BY <1>1, NoRemovalNext
<1>3. /\ TypeOK' /\ RefsTyped' /\ RefIndexExact' /\ NameIndexSound'
      /\ listed' = listed \ {u}
  BY <1>1, DeleteKeeps
<1>4. OneThingAtATime'
  BY <1>1, <1>3 DEF IInv, OneThingAtATime
<1> QED  BY <1>2, <1>3, <1>4 DEF IInv

-----------------------------------------------------------------------------
(* The steps of a recursive removal                                        *)

LEMMA CallOnType == \A u \in Uid : CallOn(u) \in Frame
BY DEF CallOn, Frame, AttrsTo

\* The call stack with another frame on top.
LEMMA StackTop ==
    ASSUME removing \in Seq(Frame), removing # <<>>, NEW frame \in Frame
    PROVE  /\ Len(removing) \in Nat \ {0}
           /\ Top \in Frame /\ Top = removing[Len(removing)]
           /\ WithTop(frame) \in Seq(Frame)
           /\ Len(WithTop(frame)) = Len(removing)
           /\ \A i \in 1 .. Len(removing) :
                  WithTop(frame)[i] = IF i = Len(removing) THEN frame ELSE removing[i]
<1>1. Len(removing) \in Nat \ {0} /\ removing \in [1 .. Len(removing) -> Frame]
  BY EmptySeq, LenProperties
<1>2. WithTop(frame) \in [1 .. Len(removing) -> Frame]
  BY <1>1 DEF WithTop
<1>3. WithTop(frame) \in Seq(Frame) /\ Len(WithTop(frame)) = Len(removing)
  BY <1>1, <1>2
<1> QED  BY <1>1, <1>3 DEF Top, WithTop

LEMMA RemoveRecursiveIInv ==
    ASSUME IInv, NEW u \in Uid, RemoveRecursive(u)
    PROVE  IInv'
<1>1. /\ removing' = <<CallOn(u)>> /\ UNCHANGED <<memory, files, loading>> /\ loading = {}
  BY DEF RemoveRecursive, Up
<1>2. /\ removing' \in Seq(Frame) /\ Len(removing') = 1 /\ removing'[1] = CallOn(u)
  BY <1>1, CallOnType
<1>3. TypeOK' /\ OneThingAtATime'
  BY <1>1, <1>2 DEF IInv, TypeOK, OneThingAtATime, memory, files
<1>4. RefsTyped' /\ RefIndexExact' /\ NameIndexSound'
  BY <1>1 DEF IInv, RefsTyped, TypedRefs, RefIndexExact, NameIndexSound, memory, files
<1>5. CallsCover' /\ ListsFollowReferences' /\ RemovalFollowsReferences'
  BY <1>2 DEF CallsCover, ListsFollowReferences, RemovalFollowsReferences, CallOn
<1> QED  BY <1>3, <1>4, <1>5 DEF IInv

LEMMA RemoveLookUpIInv ==
    ASSUME IInv, RemoveLookUp
    PROVE  IInv'
<1> DEFINE L == Len(removing)
<1>1. PICK a \in Top.ahead :
          removing' = WithTop([Top EXCEPT !.ahead = @ \ {a}, !.todo = refIdx[a][Top.item]])
  BY DEF RemoveLookUp
<1> DEFINE frame == [Top EXCEPT !.ahead = @ \ {a}, !.todo = refIdx[a][Top.item]]
<1>2. /\ removing \in Seq(Frame) /\ removing # <<>> /\ Top.todo = {}
      /\ UNCHANGED <<memory, files, loading>>
  BY DEF RemoveLookUp, IInv, TypeOK
<1>3. Top \in Frame /\ L \in Nat \ {0} /\ Top = removing[L]
  <2>1. \E f \in Frame : TRUE
    BY <1>2, EmptySeq, LenProperties
  <2> QED  BY <1>2, <2>1, StackTop
<1>4. a \in Attrs /\ Top.item \in Uid /\ refIdx[a][Top.item] \in SUBSET Uid
  BY <1>3 DEF IInv, TypeOK, Frame
<1>5. /\ frame \in Frame /\ frame.item = Top.item
      /\ frame.ahead = Top.ahead \ {a} /\ frame.todo = refIdx[a][Top.item]
  BY <1>3, <1>4 DEF Frame
<1> HIDE DEF frame
<1>6. /\ removing' \in Seq(Frame) /\ Len(removing') = L
      /\ \A i \in 1 .. L : removing'[i] = IF i = L THEN frame ELSE removing[i]
  BY <1>1, <1>2, <1>5, StackTop DEF frame
<1>7. \A i \in 1 .. L : removing'[i].item = removing[i].item
  BY <1>3, <1>5, <1>6
<1>8. TypeOK' /\ OneThingAtATime'
  BY <1>2, <1>6 DEF IInv, TypeOK, OneThingAtATime, memory, files
<1>9. RefsTyped' /\ RefIndexExact' /\ NameIndexSound'
  BY <1>2 DEF IInv, RefsTyped, TypedRefs, RefIndexExact, NameIndexSound, memory, files
<1>10. CallsCover'
  <2> SUFFICES ASSUME NEW i \in 1 .. L, NEW b \in AttrsTo(removing'[i].item) \ removing'[i].ahead
               PROVE  refIdx[b][removing'[i].item] \subseteq removing'[i].todo \cup HandedOn(i)'
    BY <1>2, <1>6 DEF CallsCover, memory
  <2>1. CASE i # L
    <3>1. i < L /\ i + 1 \in 1 .. L /\ i < Len(removing')
      BY <1>3, <1>6, <2>1
    <3>2. HandedOn(i)' = {removing[i+1].item} /\ HandedOn(i) = {removing[i+1].item}
      BY <1>7, <3>1 DEF HandedOn
    <3>3. removing'[i] = removing[i]
      BY <1>6, <2>1
    <3> QED  BY <3>2, <3>3 DEF IInv, CallsCover
  <2>2. CASE i = L
    <3>1. removing'[i] = frame /\ b \in AttrsTo(Top.item)
      BY <1>3, <1>5, <1>6, <2>2
    <3>2. CASE b = a
      BY <1>5, <3>1, <3>2
    <3>3. CASE b # a
      <4>1. b \in AttrsTo(removing[L].item) \ removing[L].ahead
        BY <1>3, <1>5, <3>1, <3>3
      <4>2. refIdx[b][Top.item] \subseteq Top.todo \cup HandedOn(L)
        BY <1>3, <4>1 DEF IInv, CallsCover
      <4>3. refIdx[b][Top.item] = {}
        BY <1>2, <4>2 DEF HandedOn
      <4> QED  BY <1>5, <3>1, <4>3
    <3> QED  BY <3>2, <3>3
  <2> QED  BY <2>1, <2>2
<1>11. ListsFollowReferences'
  <2> SUFFICES ASSUME NEW i \in 1 .. L, NEW d \in removing'[i].todo, d \in listed
               PROVE  \E b \in Attrs : obj[d].ref[b] = removing'[i].item
    BY <1>2, <1>6 DEF ListsFollowReferences, memory
  <2>1. CASE i # L
    BY <1>6, <2>1 DEF IInv, ListsFollowReferences
  <2>2. CASE i = L
    <3>1. d \in refIdx[a][Top.item]
      BY <1>3, <1>5, <1>6, <2>2
    <3>2. obj[d].ref[a] = Top.item
      BY <1>4, <3>1 DEF IInv, RefIndexExact
    <3> QED  BY <1>3, <1>4, <1>7, <2>2, <3>2
  <2> QED  BY <2>1, <2>2
<1>12. RemovalFollowsReferences'
  <2> SUFFICES ASSUME NEW i \in 1 .. L - 1, removing'[i+1].item \in listed
               PROVE  \E b \in Attrs : obj[removing'[i+1].item].ref[b] = removing'[i].item
    BY <1>2, <1>6 DEF RemovalFollowsReferences, memory
  <2>1. i \in 1 .. L /\ i + 1 \in 1 .. L
    BY <1>3
  <2> QED  BY <1>7, <2>1 DEF IInv, RemovalFollowsReferences
<1> QED  BY <1>8, <1>9, <1>10, <1>11, <1>12 DEF IInv

LEMMA RemoveDescendIInv ==
    ASSUME IInv, RemoveDescend
    PROVE  IInv'
<1> DEFINE L == Len(removing)
<1>1. PICK d \in Top.todo :
          removing' = Append(WithTop([Top EXCEPT !.todo = @ \ {d}]), CallOn(d))
  BY DEF RemoveDescend
<1> DEFINE frame == [Top EXCEPT !.todo = @ \ {d}]
<1>2. /\ removing \in Seq(Frame) /\ removing # <<>>
      /\ UNCHANGED <<memory, files, loading>>
  BY DEF RemoveDescend, IInv, TypeOK
<1>3. Top \in Frame /\ L \in Nat \ {0} /\ Top = removing[L]
  <2>1. \E f \in Frame : TRUE
    BY <1>2, EmptySeq, LenProperties
  <2> QED  BY <1>2, <2>1, StackTop
<1>4. d \in Uid /\ Top.item \in Uid
  BY <1>3 DEF Frame
<1>5. /\ frame \in Frame /\ frame.item = Top.item
      /\ frame.ahead = Top.ahead /\ frame.todo = Top.todo \ {d}
  BY <1>3 DEF Frame
<1> HIDE DEF frame
<1>6. /\ removing' \in Seq(Frame) /\ Len(removing') = L + 1
      /\ removing'[L + 1] = CallOn(d)
      /\ \A i \in 1 .. L : removing'[i] = IF i = L THEN frame ELSE removing[i]
  <2> DEFINE base == WithTop(frame)
  <2>1. /\ base \in Seq(Frame) /\ Len(base) = L
        /\ \A i \in 1 .. L : base[i] = IF i = L THEN frame ELSE removing[i]
    BY <1>2, <1>5, StackTop
  <2>2. removing' = Append(base, CallOn(d)) /\ CallOn(d) \in Frame
    BY <1>1, <1>4, CallOnType DEF frame
  <2> HIDE DEF base
  <2> QED  BY <1>3, <2>1, <2>2, AppendProperties
<1>7. /\ \A i \in 1 .. L : removing'[i].item = removing[i].item
      /\ removing'[L + 1].item = d /\ removing'[L + 1].todo = {}
      /\ removing'[L + 1].ahead = AttrsTo(d)
  BY <1>3, <1>5, <1>6 DEF CallOn
<1>8. TypeOK' /\ OneThingAtATime'
  BY <1>2, <1>6 DEF IInv, TypeOK, OneThingAtATime, memory, files
<1>9. RefsTyped' /\ RefIndexExact' /\ NameIndexSound'
  BY <1>2 DEF IInv, RefsTyped, TypedRefs, RefIndexExact, NameIndexSound, memory, files
<1>10. CallsCover'
  <2> SUFFICES ASSUME NEW i \in 1 .. L + 1,
                      NEW b \in AttrsTo(removing'[i].item) \ removing'[i].ahead
               PROVE  refIdx[b][removing'[i].item] \subseteq removing'[i].todo \cup HandedOn(i)'
    BY <1>2, <1>6 DEF CallsCover, memory
  <2>1. CASE i < L
    <3>1. i + 1 \in 1 .. L /\ i < Len(removing') /\ i \in 1 .. L
      BY <1>3, <1>6, <2>1
    <3>2. HandedOn(i)' = {removing[i+1].item} /\ HandedOn(i) = {removing[i+1].item}
      BY <1>7, <2>1, <3>1 DEF HandedOn
    <3>3. removing'[i] = removing[i]
      BY <1>3, <1>6, <2>1, <3>1
    <3> QED  BY <3>1, <3>2, <3>3 DEF IInv, CallsCover
  <2>2. CASE i = L
    <3>1. HandedOn(i)' = {d}
      BY <1>3, <1>6, <1>7, <2>2 DEF HandedOn
    <3>2. /\ removing'[i] = frame /\ L \in 1 .. L
          /\ b \in AttrsTo(removing[L].item) \ removing[L].ahead
      BY <1>3, <1>5, <1>6, <2>2
    <3>3. refIdx[b][Top.item] \subseteq Top.todo \cup HandedOn(L)
      BY <1>3, <3>2 DEF IInv, CallsCover
    <3>4. HandedOn(L) = {}
      BY <1>3 DEF HandedOn
    <3> QED  BY <1>5, <3>1, <3>2, <3>3, <3>4
  <2>3. CASE i = L + 1
    BY <1>7, <2>3
  <2> QED  BY <1>3, <2>1, <2>2, <2>3
<1>11. ListsFollowReferences'
  <2> SUFFICES ASSUME NEW i \in 1 .. L + 1, NEW e \in removing'[i].todo, e \in listed
               PROVE  \E b \in Attrs : obj[e].ref[b] = removing'[i].item
    BY <1>2, <1>6 DEF ListsFollowReferences, memory
  <2>1. i \in 1 .. L /\ e \in removing[i].todo
    <3>1. i # L + 1  BY <1>7
    <3> QED  BY <1>3, <1>5, <1>6, <3>1
  <2> QED  BY <1>7, <2>1 DEF IInv, ListsFollowReferences
<1>12. RemovalFollowsReferences'
  <2> SUFFICES ASSUME NEW i \in 1 .. L, removing'[i+1].item \in listed
               PROVE  \E b \in Attrs : obj[removing'[i+1].item].ref[b] = removing'[i].item
    BY <1>2, <1>3, <1>6 DEF RemovalFollowsReferences, memory
  <2>1. CASE i = L
    BY <1>3, <1>7, <2>1 DEF IInv, ListsFollowReferences
  <2>2. CASE i # L
    <3>1. i \in 1 .. L - 1 /\ i + 1 \in 1 .. L
      BY <1>3, <2>2
    <3> QED  BY <1>7, <3>1 DEF IInv, RemovalFollowsReferences
  <2> QED  BY <2>1, <2>2
<1> QED  BY <1>8, <1>9, <1>10, <1>11, <1>12 DEF IInv

LEMMA RemoveReturnIInv ==
    ASSUME IInv, RemoveReturn
    PROVE  IInv'
<1> DEFINE L == Len(removing)
           u == removing[L].item
<1>1. /\ removing \in Seq(Frame) /\ removing # <<>>
      /\ Delete(u) /\ removing' = SubSeq(removing, 1, L - 1)
      /\ UNCHANGED <<unsaved, loading>>
  <2>1. removing \in Seq(Frame)  BY DEF IInv, TypeOK
  <2> QED  BY <2>1 DEF RemoveReturn, CallDone, Top
<1>2. L \in Nat \ {0} /\ removing[L] \in Frame /\ u \in Uid
  <2>1. L \in Nat \ {0}
    BY <1>1, EmptySeq, LenProperties
  <2>2. removing[L] \in Frame
    BY <1>1, <2>1, ElementOfSeq
  <2> QED  BY <2>1, <2>2 DEF Frame
<1>3. /\ removing' \in Seq(Frame) /\ Len(removing') = L - 1
      /\ \A i \in 1 .. L - 1 : removing'[i] = removing[i]
  <2>1. /\ 1 \in 1 .. L + 1 /\ L - 1 \in 0 .. L /\ L - 1 - 1 + 1 = L - 1
        /\ 1 .. L - 1 \subseteq 1 .. L
    BY <1>2
  <2>2. \A i \in 1 .. L - 1 : removing[i] \in Frame
    BY <1>1, <2>1, ElementOfSeq
  <2>3. removing' = [i \in 1 .. L - 1 |-> removing[i]]
    BY <1>1, <1>2
  <2> QED  BY <1>2, <2>2, <2>3
<1> HIDE DEF u
<1>4. /\ TypeOK' /\ RefsTyped' /\ RefIndexExact' /\ NameIndexSound'
      /\ listed' = listed \ {u}
      /\ \A v \in listed' : obj'[v] = obj[v]
      /\ \A a \in Attrs, t \in Uid : refIdx'[a][t] \subseteq refIdx[a][t] \ {u}
  BY <1>1, <1>2, <1>3, DeleteKeeps
<1>5. OneThingAtATime'
  BY <1>1, <1>4 DEF IInv, OneThingAtATime
<1>6. CallsCover'
  <2> SUFFICES ASSUME NEW i \in 1 .. L - 1, NEW b \in AttrsTo(removing[i].item) \ removing[i].ahead
               PROVE  refIdx'[b][removing[i].item] \subseteq removing[i].todo \cup HandedOn(i)'
    BY <1>3 DEF CallsCover
  <2>1. /\ i \in 1 .. L /\ i + 1 \in 1 .. L /\ i < L
        /\ removing[i].item \in Uid /\ b \in Attrs
    <3>1. i \in 1 .. L /\ i + 1 \in 1 .. L /\ i < L
      BY <1>2
    <3>2. removing[i] \in Frame
      BY <1>1, <3>1, ElementOfSeq
    <3> QED  BY <3>1, <3>2 DEF Frame, AttrsTo
  <2>2. refIdx[b][removing[i].item] \subseteq removing[i].todo \cup {removing[i+1].item}
    BY <2>1 DEF IInv, CallsCover, HandedOn
  <2>3. refIdx'[b][removing[i].item] \subseteq refIdx[b][removing[i].item] \ {u}
    BY <1>4, <2>1
  <2>4. CASE i = L - 1
    BY <1>2, <2>2, <2>3, <2>4 DEF u
  <2>5. CASE i # L - 1
    <3>1. HandedOn(i)' = {removing[i+1].item}
      BY <1>2, <1>3, <2>5 DEF HandedOn
    <3> QED  BY <2>2, <2>3, <3>1
  <2> QED  BY <2>4, <2>5
<1>7. ListsFollowReferences'
  BY <1>2, <1>3, <1>4 DEF IInv, ListsFollowReferences
<1>8. RemovalFollowsReferences'
  <2> SUFFICES ASSUME NEW i \in 1 .. L - 2, removing[i+1].item \in listed'
               PROVE  \E b \in Attrs : obj'[removing[i+1].item].ref[b] = removing[i].item
    BY <1>2, <1>3 DEF RemovalFollowsReferences
  <2>1. i \in 1 .. L - 1  BY <1>2
  <2> QED  BY <1>4, <2>1 DEF IInv, RemovalFollowsReferences
<1> QED  BY <1>4, <1>5, <1>6, <1>7, <1>8 DEF IInv

\* The three ways in which a removal is broken off.
LEMMA RemovalBrokenOffIInv ==
    ASSUME IInv, RemoveKeyError \/ RemoveOverflow \/ RemoveTriggerFails
    PROVE  IInv'
<1>1. removing' = <<>> /\ UNCHANGED <<memory, files, loading>>
  BY DEF RemoveKeyError, RemoveOverflow, RemoveTriggerFails
<1>2. CallsCover' /\ ListsFollowReferences' /\ RemovalFollowsReferences'
  BY <1>1, NoRemovalNext
<1>3. TypeOK' /\ OneThingAtATime'
  <2>1. removing' \in Seq(Frame)
    BY <1>1, EmptySeq
  <2> QED  BY <1>1, <2>1 DEF IInv, TypeOK, OneThingAtATime, memory, files
<1>4. RefsTyped' /\ RefIndexExact' /\ NameIndexSound'
  BY <1>1 DEF IInv, RefsTyped, TypedRefs, RefIndexExact, NameIndexSound, memory, files
<1> QED  BY <1>2, <1>3, <1>4 DEF IInv

LEMMA RestartIInv ==
    ASSUME IInv, Restart
    PROVE  IInv'
<1>1. /\ obj' = [u \in Uid |-> Blank] /\ listed' = {} /\ unsaved' = {}
      /\ nameIdx' = EmptyNameIdx /\ refIdx' = EmptyRefIdx
      /\ removing' = <<>> /\ loading' = saved /\ UNCHANGED files
  BY DEF Restart
<1>2. CallsCover' /\ ListsFollowReferences' /\ RemovalFollowsReferences'
  BY <1>1, NoRemovalNext
<1>3. TypeOK'
  <2>1. removing' \in Seq(Frame)
    BY <1>1, EmptySeq
  <2> QED  BY <1>1, <2>1, BlankType DEF IInv, TypeOK, EmptyNameIdx, EmptyRefIdx, files
<1>4. RefsTyped' /\ OneThingAtATime'
  BY <1>1, BlankType DEF IInv, RefsTyped, TypedRefs, OneThingAtATime, files
<1>5. RefIndexExact' /\ NameIndexSound'
  BY <1>1 DEF RefIndexExact, NameIndexSound, EmptyNameIdx, EmptyRefIdx
<1> QED  BY <1>2, <1>3, <1>4, <1>5 DEF IInv

LEMMA LoadItemIInv ==
    ASSUME IInv, NEW u \in loading, LoadItem(u)
    PROVE  IInv'
<1> DEFINE it == Constructed(disk[u])
<1>1. /\ loading' = loading \ {u} /\ removing = <<>> /\ removing' = <<>>
      /\ u \in Uid /\ u \notin listed /\ UNCHANGED <<unsaved, files, removing>>
  BY DEF LoadItem, IInv, TypeOK, OneThingAtATime
<1>2. CallsCover' /\ ListsFollowReferences' /\ RemovalFollowsReferences'
  BY <1>1, NoRemovalNext
<1>3. /\ obj \in [Uid -> Item] /\ disk[u] \in Item /\ listed \subseteq Uid
      /\ nameIdx \in [Kinds -> [Names \cup {NoName} -> Uid \cup {Nil}]]
      /\ refIdx \in [Attrs -> [Uid \cup {Nil} -> SUBSET Uid]]
      /\ Exact(refIdx, obj, listed) /\ Sound(nameIdx, obj, listed)
  BY <1>1, ExactSound DEF IInv, TypeOK
<1>4. CASE UNCHANGED <<obj, listed, nameIdx, refIdx>>
  <2>1. TypeOK' /\ OneThingAtATime'
    BY <1>1, <1>4 DEF IInv, TypeOK, OneThingAtATime, files
  <2>2. RefsTyped' /\ RefIndexExact' /\ NameIndexSound'
    BY <1>1, <1>4 DEF IInv, RefsTyped, TypedRefs, RefIndexExact, NameIndexSound, files
  <2> QED  BY <1>2, <2>1, <2>2 DEF IInv
<1>5. CASE /\ Constructible(disk[u])
           /\ obj' = [obj EXCEPT ![u] = it]
           /\ listed' = listed \cup {u}
           /\ nameIdx' = NamePut(nameIdx, u, it.name)
           /\ refIdx' = RefsPut(refIdx, u, it)
  <2>1. it \in Item /\ it.ref = disk[u].ref /\ it.name \in Names \cup {NoName}
    BY <1>3, <1>5, ConstructedType, ItemFields
  <2> HIDE DEF it
  <2>2. /\ obj' \in [Uid -> Item] /\ obj'[u] = it
        /\ \A v \in listed : obj'[v] = obj[v]
        /\ \A v \in Uid \ {u} : obj'[v] = obj[v]
    BY <1>1, <1>3, <1>5, <2>1
  <2>3. TypeOK'
    <3>1. nameIdx' \in [Kinds -> [Names \cup {NoName} -> Uid \cup {Nil}]]
      BY <1>1, <1>3, <1>5, <2>1, NameIdxType
    <3>2. refIdx' \in [Attrs -> [Uid \cup {Nil} -> SUBSET Uid]]
      BY <1>1, <1>3, <1>5 DEF RefsPut
    <3>3. listed' \in SUBSET Uid /\ loading' \in SUBSET Uid
      BY <1>1, <1>5 DEF IInv, TypeOK
    <3> QED  BY <1>1, <2>2, <3>1, <3>2, <3>3 DEF IInv, TypeOK, files
  <2>4. RefsTyped'
    BY <1>1, <2>1, <2>2 DEF IInv, RefsTyped, TypedRefs, files
  <2>5. OneThingAtATime'
    BY <1>1, <1>5 DEF IInv, OneThingAtATime
  <2>6. RefIndexExact'
    <3>1. Exact(RefsPut(refIdx, u, obj'[u]), obj', listed \cup {u})
      BY <1>1, <1>3, <2>2, PutExact
    <3> QED  BY <1>5, <2>2, <3>1 DEF Exact, RefIndexExact
  <2>7. NameIndexSound'
    <3>1. Sound(nameIdx, obj', listed)
      BY <1>3, <2>2, StillSound
    <3>2. Sound(NamePut(nameIdx, u, it.name), obj', listed \cup {u})
      BY <1>1, <1>3, <2>1, <2>2, <3>1, PutSound
    <3> QED  BY <1>5, <3>2 DEF Sound, NameIndexSound
  <2> QED  BY <1>2, <2>3, <2>4, <2>5, <2>6, <2>7 DEF IInv
<1> QED  BY <1>4, <1>5 DEF LoadItem

-----------------------------------------------------------------------------
(* The theorems                                                            *)

LEMMA StutterIInv ==
    ASSUME IInv, UNCHANGED vars
    PROVE  IInv'
<1>1. TypeOK' /\ OneThingAtATime'
  BY DEF vars, IInv, TypeOK, OneThingAtATime
<1>2. RefsTyped' /\ RefIndexExact' /\ NameIndexSound'
  BY DEF vars, IInv, RefsTyped, TypedRefs, RefIndexExact, NameIndexSound
<1>3. CallsCover' /\ ListsFollowReferences' /\ RemovalFollowsReferences'
  BY DEF vars, IInv, CallsCover, HandedOn, ListsFollowReferences, RemovalFollowsReferences
<1> QED  BY <1>1, <1>2, <1>3 DEF IInv

LEMMA EditStepIInv ==
    ASSUME IInv, Edit
    PROVE  IInv'
<1>1. PICK u \in Uid :
        \/ \E n \in NameChoices[u] : SetName(u, n)
        \/ \E t \in Distros \cup {Nil} : SetDistro(u, t)
        \/ \E t \in Profiles \cup {Nil} : SetParent(u, t)
        \/ \E t \in Profiles \cup {Nil} : SetProfile(u, t)
        \/ \E t \in Images \cup {Nil} : SetImage(u, t)
  BY DEF Edit
<1>2. CASE \E n \in NameChoices[u] : SetName(u, n)
  BY <1>2, SetNameIInv, ConstantsAssumption
<1>3. CASE \E t \in Distros \cup {Nil} : SetDistro(u, t)
  BY <1>3, SetDistroIInv
<1>4. CASE \E t \in Profiles \cup {Nil} : SetParent(u, t)
  BY <1>4, SetParentIInv
<1>5. CASE \E t \in Profiles \cup {Nil} : SetProfile(u, t)
  BY <1>5, SetSystemRefIInv DEF SetProfile, Uid
<1>6. CASE \E t \in Images \cup {Nil} : SetImage(u, t)
  BY <1>6, SetSystemRefIInv DEF SetImage, Uid
<1> QED  BY <1>1, <1>2, <1>3, <1>4, <1>5, <1>6

LEMMA RequestStepIInv ==
    ASSUME IInv, Request
    PROVE  IInv'
<1>1. PICK u \in Uid :
        \/ NewItem(u)
        \/ \E m \in {"new", "bypass"}, raises \in BOOLEAN : Save(u, m, raises)
        \/ \E v \in Uid : \E n \in NameChoices[v] : Copy(u, v, n)
        \/ \E n \in NameChoices[u] : Rename(u, n)
        \/ DropUnsaved(u)
        \/ ExpireUnsaved(u)
        \/ Remove(u)
        \/ RemoveRecursive(u)
  BY DEF Request
<1>2. CASE \E m \in {"new", "bypass"}, raises \in BOOLEAN : Save(u, m, raises)
  BY <1>2, SaveIInv
<1>3. CASE \E v \in Uid : \E n \in NameChoices[v] : Copy(u, v, n)
  BY <1>3, CopyIInv, ConstantsAssumption
<1>4. CASE \E n \in NameChoices[u] : Rename(u, n)
  BY <1>4, RenameIInv, ConstantsAssumption
<1> QED  BY <1>1, <1>2, <1>3, <1>4, NewItemIInv, DropUnsavedIInv, ExpireUnsavedIInv,
            RemoveIInv, RemoveRecursiveIInv

LEMMA NextIInv == IInv /\ [Next]_vars => IInv'
<1> SUFFICES ASSUME IInv, [Next]_vars PROVE IInv'  OBVIOUS
<1>1. CASE RemovalStep
  BY <1>1, RemoveLookUpIInv, RemoveDescendIInv, RemoveReturnIInv, RemovalBrokenOffIInv
     DEF RemovalStep
<1>2. CASE Load
  BY <1>2, LoadItemIInv DEF Load
<1> QED  BY <1>1, <1>2, EditStepIInv, RequestStepIInv, RemovalBrokenOffIInv, RestartIInv,
            StutterIInv DEF Next

\* The invariant holds of every behaviour of the item store.
THEOREM Invariant == Spec => []IInv
BY InitIInv, NextIInv, PTL DEF Spec

\* The state is always of its type: no request, removal, crash or start-up puts
\* anything but an item's uid into a collection, an index or the pool.
THEOREM TypeCorrect == Spec => []TypeOK
<1>1. IInv => TypeOK  BY DEF IInv
<1> QED  BY <1>1, Invariant, PTL

\* The reference indexes of Collection equal a scan of the listing, always.
THEOREM RefIndexCorrect == Spec => []RefIndexExact
<1>1. IInv => RefIndexExact  BY DEF IInv
<1> QED  BY <1>1, Invariant, PTL

\* A name index never returns an item that is not there or has another name.
THEOREM NameIndexCorrect == Spec => []NameIndexSound
<1>1. IInv => NameIndexSound  BY DEF IInv
<1> QED  BY <1>1, Invariant, PTL

\* A recursive removal takes along only items that refer, directly or through
\* other removed items, to the one that was to be removed.
THEOREM RemovalConfined == Spec => []RemovalFollowsReferences
<1>1. IInv => RemovalFollowsReferences  BY DEF IInv
<1> QED  BY <1>1, Invariant, PTL

-----------------------------------------------------------------------------
(* Removal orphans no listed item                                          *)

\* When the indexes show no dependant of an item, no listed item refers to it.
LEMMA NoDependants ==
    ASSUME IInv, NEW u \in Uid, Dependants(u) = {}
    PROVE  \A v \in listed, a \in Attrs : obj[v].ref[a] # u
<1> SUFFICES ASSUME NEW v \in listed, NEW a \in Attrs, obj[v].ref[a] = u PROVE FALSE
  OBVIOUS
<1>1. v \in Uid /\ u # Nil
  BY ConstantsAssumption DEF IInv, TypeOK
<1>2. v \in Owners(a) /\ u \in Targets(a)
  BY <1>1 DEF IInv, RefsTyped, TypedRefs
<1>3. v \in refIdx[a][u]
  BY <1>2 DEF IInv, RefIndexExact
<1>4. a \in AttrsTo(u)
  BY <1>2 DEF AttrsTo
<1> QED  BY <1>3, <1>4 DEF Dependants

\* A call that is done with its lists has no dependant left.
LEMMA CallDoneNoDependants ==
    ASSUME IInv, CallDone
    PROVE  Top.item \in Uid /\ Dependants(Top.item) = {}
<1> DEFINE L == Len(removing)
<1>1. removing \in Seq(Frame) /\ removing # <<>>
  BY DEF IInv, TypeOK, CallDone
<1>2. L \in Nat \ {0} /\ L \in 1 .. L
  BY <1>1, EmptySeq, LenProperties
<1>3. removing[L] \in Frame
  BY <1>1, <1>2, ElementOfSeq
<1>4. HandedOn(L) = {}
  BY <1>2 DEF HandedOn
<1>5. \A a \in AttrsTo(Top.item) : refIdx[a][Top.item] = {}
  BY <1>2, <1>4 DEF IInv, CallsCover, CallDone, Top
<1> QED  BY <1>3, <1>5 DEF Frame, Dependants, Top

LEMMA RemovalStepOrphansNone ==
    ASSUME IInv, [Next]_vars
    PROVE  \A u \in listed \ listed' : \A v \in listed', a \in Attrs : obj'[v].ref[a] # u
<1> DEFINE Goal == \A u \in listed \ listed' : \A v \in listed', a \in Attrs : obj'[v].ref[a] # u
<1>1. ASSUME NEW u \in Uid, Delete(u), Dependants(u) = {}
      PROVE  Goal
  <2>1. listed' = listed \ {u} /\ \A v \in listed' : obj'[v] = obj[v]
    BY <1>1 DEF Delete, Forget, IInv, TypeOK
  <2>2. \A v \in listed, a \in Attrs : obj[v].ref[a] # u
    BY <1>1, NoDependants
  <2> QED  BY <2>1, <2>2
<1>2. CASE Restart
  BY <1>2 DEF Restart
<1>3. CASE RemoveReturn
  <2>1. CallDone /\ Delete(Top.item)  BY <1>3 DEF RemoveReturn
  <2> QED  BY <1>1, <2>1, CallDoneNoDependants
<1>4. CASE \E u \in Uid : Remove(u)
  BY <1>1, <1>4 DEF Remove
<1>5. CASE Load
  <2>1. listed \subseteq listed'  BY <1>5 DEF Load, LoadItem
  <2> QED  BY <2>1
<1>6. CASE Edit
  <2> SUFFICES listed' = listed  OBVIOUS
  <2>1. PICK u \in Uid : \/ \E n \in NameChoices[u] : SetName(u, n)
                         \/ \E t \in Distros \cup {Nil} : SetDistro(u, t)
                         \/ \E t \in Profiles \cup {Nil} : SetParent(u, t)
                         \/ \E t \in Profiles \cup {Nil} : SetProfile(u, t)
                         \/ \E t \in Images \cup {Nil} : SetImage(u, t)
    BY <1>6 DEF Edit
  <2>2. CASE \E n \in NameChoices[u] : SetName(u, n)
    BY <2>2 DEF SetName
  <2>3. CASE \E t \in Distros \cup {Nil} : SetDistro(u, t)
    BY <2>3 DEF SetDistro
  <2>4. CASE \E t \in Profiles \cup {Nil} : SetParent(u, t)
    BY <2>4 DEF SetParent
  <2>5. CASE \E t \in Profiles \cup {Nil} : SetProfile(u, t)
    BY <2>5 DEF SetProfile, SetSystemRef
  <2>6. CASE \E t \in Images \cup {Nil} : SetImage(u, t)
    BY <2>6 DEF SetImage, SetSystemRef
  <2> QED  BY <2>1, <2>2, <2>3, <2>4, <2>5, <2>6
<1>7. CASE Request /\ ~\E u \in Uid : Remove(u)
  <2> SUFFICES listed \subseteq listed'  OBVIOUS
  <2>1. PICK u \in Uid :
            \/ NewItem(u) \/ DropUnsaved(u) \/ ExpireUnsaved(u) \/ RemoveRecursive(u)
            \/ \E m \in {"new", "bypass"}, raises \in BOOLEAN : Save(u, m, raises)
            \/ \E v \in Uid : \E n \in NameChoices[v] : Copy(u, v, n)
            \/ \E n \in NameChoices[u] : Rename(u, n)
    BY <1>7 DEF Request
  <2>2. CASE NewItem(u) \/ DropUnsaved(u) \/ ExpireUnsaved(u) \/ RemoveRecursive(u)
    BY <2>2 DEF NewItem, DropUnsaved, ExpireUnsaved, RemoveRecursive, memory
  <2>3. CASE \E m \in {"new", "bypass"}, raises \in BOOLEAN : Save(u, m, raises)
    BY <2>3 DEF Save, Publish
  <2>4. CASE \E v \in Uid : \E n \in NameChoices[v] : Copy(u, v, n)
    BY <2>4 DEF Copy, Publish
  <2>5. CASE \E n \in NameChoices[u] : Rename(u, n)
    BY <2>5 DEF Rename
  <2> QED  BY <2>1, <2>2, <2>3, <2>4, <2>5
<1>8. CASE RemoveLookUp \/ RemoveDescend \/ RemoveKeyError \/ RemoveOverflow
           \/ RemoveTriggerFails \/ UNCHANGED vars
  <2>1. listed' = listed
    BY <1>8 DEF RemoveLookUp, RemoveDescend, RemoveKeyError, RemoveOverflow,
                RemoveTriggerFails, memory, vars
  <2> QED  BY <2>1
<1> QED  BY <1>2, <1>3, <1>4, <1>5, <1>6, <1>7, <1>8 DEF Next, RemovalStep

\* "removal would orphan": whatever is removed, by a plain removal or a recursive
\* one that is cut short, no item that stays listed refers to it.
THEOREM RemovalSafe == Spec => RemovalOrphansNoListedItem
BY RemovalStepOrphansNone, Invariant, PTL DEF Spec, RemovalOrphansNoListedItem

-----------------------------------------------------------------------------
(***************************************************************************)
(* A start-up skips no item of consistent files, for any number of items   *)
(* and any tree of profiles.  The chain of parents of an item is climbed   *)
(* by a recursive function; induction over it is by sets of numbers.       *)
(***************************************************************************)

LEMMA EveryNumber ==
    ASSUME NEW T \in SUBSET Nat, 0 \in T, \A n \in T : n + 1 \in T
    PROVE  T = Nat
<1> SUFFICES ASSUME Nat \ T # {} PROVE FALSE
  OBVIOUS
<1> DEFINE R == OpToRel(<, Nat)
<1>1. IsWellFoundedOn(R, Nat)
  BY NatLessThanWellFounded
<1>2. \A m, n \in Nat : <<m, n>> \in R <=> m < n
  BY DEF OpToRel
<1> HIDE DEF R
<1>3. PICK n \in Nat \ T : \A m \in Nat \ T : <<m, n>> \notin R
  BY <1>1, WFMin, Nat \ T \subseteq Nat
<1>4. n # 0 /\ n - 1 \in Nat /\ n - 1 < n /\ n = (n - 1) + 1
  BY <1>3
<1>5. n - 1 \in T
  BY <1>2, <1>3, <1>4
<1> QED
  BY <1>3, <1>4, <1>5

\* A step from every member of a set can be taken again and again.
Iterated(C, s, u) == \E g \in [Nat -> C] : g[0] = u /\ \A n \in Nat : g[n + 1] = s[g[n]]

LEMMA Iterates ==
    ASSUME NEW C, NEW s \in [C -> C], NEW u \in C
    PROVE  Iterated(C, s, u)
<1> DEFINE H(n) == {h \in [0..n -> C] : h[0] = u /\ \A i \in 0..(n - 1) : h[i + 1] = s[h[i]]}
           T == {n \in Nat : H(n) # {}}
<1>1. T = Nat
  <2>1. 0 \in T
    <3>1. [i \in 0..0 |-> u] \in H(0)
      OBVIOUS
    <3> QED  BY <3>1
  <2>2. ASSUME NEW n \in T PROVE n + 1 \in T
    <3>1. PICK h \in H(n) : TRUE
      BY <2>2
    <3> DEFINE k == [i \in 0..(n + 1) |-> IF i <= n THEN h[i] ELSE s[h[n]]]
    <3>2. n \in Nat /\ h \in [0..n -> C] /\ n \in 0..n
      OBVIOUS
    <3>3. k \in [0..(n + 1) -> C]
      BY <3>2
    <3>4. k[0] = u
      BY <3>1, <3>2
    <3>5. ASSUME NEW i \in 0..n PROVE k[i + 1] = s[k[i]]
      <4>1. CASE i < n
        BY <3>1, <3>2, <4>1
      <4>2. CASE i = n
        BY <3>1, <3>2, <4>2
      <4> QED  BY <3>2, <4>1, <4>2
    <3>6. k \in H(n + 1)
      BY <3>2, <3>3, <3>4, <3>5
    <3> HIDE DEF H
    <3> QED  BY <3>2, <3>6
  <2> HIDE DEF T
  <2>3. T \in SUBSET Nat
    BY DEF T
  <2> QED  BY <2>1, <2>2, <2>3, EveryNumber
<1>2. ASSUME NEW n \in Nat, NEW m \in Nat, NEW h \in H(n), NEW k \in H(m),
             NEW i \in Nat, i <= n, i <= m
      PROVE  h[i] = k[i]
  <2> DEFINE E == {j \in Nat : j <= n /\ j <= m => h[j] = k[j]}
  <2>1. 0 \in E
    OBVIOUS
  <2>2. ASSUME NEW j \in E PROVE j + 1 \in E
    <3>1. j \in Nat /\ (j + 1 <= n /\ j + 1 <= m => j \in 0..(n - 1) /\ j \in 0..(m - 1))
      OBVIOUS
    <3>2. j + 1 <= n /\ j + 1 <= m => h[j] = k[j] /\ h[j + 1] = s[h[j]] /\ k[j + 1] = s[k[j]]
      BY <2>2, <3>1
    <3> QED  BY <3>1, <3>2
  <2>3. E \in SUBSET Nat
    OBVIOUS
  <2>4. E = Nat
    <3> HIDE DEF E
    <3> QED  BY <2>1, <2>2, <2>3, EveryNumber
  <2> QED  BY <1>2, <2>4
<1> DEFINE G(n) == CHOOSE h : h \in H(n)
           g == [n \in Nat |-> G(n)[n]]
<1>3. \A n \in Nat : G(n) \in H(n)
  BY <1>1
<1>4. ASSUME NEW n \in Nat PROVE G(n)[n] \in C
  <2>1. G(n) \in H(n)
    BY <1>3
  <2> HIDE DEF G
  <2> QED  BY <2>1
<1>5. G(0)[0] = u
  <2>1. G(0) \in H(0)
    BY <1>3
  <2> HIDE DEF G
  <2> QED  BY <2>1
<1>6. ASSUME NEW n \in Nat PROVE G(n + 1)[n + 1] = s[G(n)[n]]
  <2>1. G(n) \in H(n) /\ G(n + 1) \in H(n + 1)
    <3>1. n + 1 \in Nat
      OBVIOUS
    <3> HIDE DEF G, H
    <3> QED  BY <1>3, <3>1
  <2> HIDE DEF G
  <2>2. G(n + 1)[n] = G(n)[n]
    <3>1. n <= n /\ n <= n + 1 /\ n + 1 \in Nat
      OBVIOUS
    <3> HIDE DEF H
    <3> QED  BY <1>2, <2>1, <3>1
  <2>3. n \in 0..((n + 1) - 1)
    OBVIOUS
  <2>4. G(n + 1)[n + 1] = s[G(n + 1)[n]]
    BY <2>1, <2>3
  <2> QED  BY <2>2, <2>4
<1> HIDE DEF G
<1>7. g \in [Nat -> C] /\ g[0] = u
  BY <1>4, <1>5
<1>8. \A n \in Nat : g[n + 1] = s[g[n]]
  BY <1>6
<1> QED  BY <1>7, <1>8 DEF Iterated

-----------------------------------------------------------------------------
\* A profile's parent, or the profile itself at the end of the chain.
Above(o, L, v) == IF ParentOf(o, L, v) = Nil THEN v ELSE ParentOf(o, L, v)

LEMMA AncestorIs ==
    ASSUME NEW o, NEW L, NEW C, NEW u \in C, NEW g \in [Nat -> C],
           g[0] = u, \A n \in Nat : g[n + 1] = Above(o, L, g[n])
    PROVE  Ancestor(o, L, u) = g[Cardinality(Profiles)]
<1> DEFINE Climb(f) == [n \in Nat |-> IF n = 0 THEN u ELSE Above(o, L, f[n - 1])]
<1>1. ASSUME NEW f, f = Climb(f) PROVE f = g
  <2> DEFINE T == {n \in Nat : f[n] = g[n]}
  <2>1. f[0] = u /\ \A n \in Nat : f[n + 1] = Above(o, L, f[n])
    <3>1. \A n \in Nat : n + 1 \in Nat /\ n + 1 # 0 /\ (n + 1) - 1 = n
      OBVIOUS
    <3>2. \A n \in Nat : f[n] = IF n = 0 THEN u ELSE Above(o, L, f[n - 1])
      BY <1>1
    <3> QED  BY <3>1, <3>2
  <2>2. 0 \in T /\ (\A n \in T : n + 1 \in T) /\ T \in SUBSET Nat
    BY <2>1
  <2>3. T = Nat
    <3> HIDE DEF T
    <3> QED  BY <2>2, EveryNumber
  <2>4. f = [n \in Nat |-> f[n]]
    BY <1>1
  <2> QED  BY <2>3, <2>4
<1>2. g = Climb(g)
  <2>1. ASSUME NEW n \in Nat \ {0} PROVE g[n] = Above(o, L, g[n - 1])
    <3>1. n - 1 \in Nat /\ (n - 1) + 1 = n
      OBVIOUS
    <3> QED  BY <3>1
  <2> QED  BY <2>1
<1>3. \A f : f = Climb(f) <=> f = g
  BY <1>1, <1>2
<1> QED  BY <1>3 DEF Ancestor, Above

\* Two databases that agree on the parents in a set that is closed under them.
Agree(o, L, p, M, C) == \A v \in C : Above(o, L, v) \in C /\ Above(p, M, v) = Above(o, L, v)

LEMMA SameAncestor ==
    ASSUME NEW o, NEW L, NEW p, NEW M, NEW C, NEW u \in C, Cardinality(Profiles) \in Nat,
           Agree(o, L, p, M, C)
    PROVE  Ancestor(o, L, u) = Ancestor(p, M, u) /\ Ancestor(o, L, u) \in C
<1>1. PICK s \in [C -> C] : \A v \in C : s[v] = Above(o, L, v)
  <2>1. [v \in C |-> Above(o, L, v)] \in [C -> C]
    BY DEF Agree
  <2> QED  BY <2>1
<1>2. PICK g \in [Nat -> C] : g[0] = u /\ \A n \in Nat : g[n + 1] = s[g[n]]
  <2>1. Iterated(C, s, u)
    BY Iterates
  <2> QED  BY <2>1 DEF Iterated
<1>3. \A n \in Nat : g[n + 1] = Above(o, L, g[n]) /\ g[n + 1] = Above(p, M, g[n])
  BY <1>1, <1>2 DEF Agree
<1> QED  BY <1>2, <1>3, AncestorIs

-----------------------------------------------------------------------------
\* What a start-up has loaded so far: items of the files, as they stand there, with all they
\* refer to; and if the files are consistent, all that it has met.
Consistent == FilesClosed /\ FilesValid /\ FilesByDepth
StartupInv ==
    loading # {} =>
        /\ loading \cup listed \subseteq saved
        /\ \A v \in listed : obj[v].name = disk[v].name /\ obj[v].ref = disk[v].ref
        /\ \A v \in listed, a \in Attrs : obj[v].ref[a] \in listed \cup {Nil}
        /\ Consistent => saved \subseteq loading \cup listed

\* The depths and the order of the collections put what an item refers to before it.
LEMMA ReferencesLoaded ==
    ASSUME IInv, StartupInv, Consistent, NEW u \in loading,
           \A v \in loading : ~LoadsBefore(v, u)
    PROVE  Constructible(disk[u])
<1> SUFFICES ASSUME NEW a \in Attrs, disk[u].ref[a] # Nil
             PROVE  disk[u].ref[a] \in listed
  BY DEF Constructible
<1>1. u \in saved /\ u \in Uid
  BY DEF StartupInv, IInv, TypeOK
<1>2. PICK t \in Uid : t = disk[u].ref[a]
  BY <1>1 DEF IInv, TypeOK, Item
<1>3. t \in saved /\ t \in loading \cup listed
  BY <1>1, <1>2 DEF Consistent, FilesClosed, StartupInv
<1>4. u \in Owners(a) /\ t \in Targets(a)
  BY <1>1, <1>2 DEF IInv, RefsTyped, TypedRefs
<1>5. disk[t].depth \in Nat /\ disk[u].depth \in Nat
  BY <1>1 DEF IInv, TypeOK, Item
<1>6. LoadsBefore(t, u)
  <2>1. CASE a = "distro"
    <3>1. u \in Profiles /\ t \in Distros
      BY <1>4, <2>1 DEF Owners, Targets
    <3> QED  BY <3>1, ConstantsAssumption DEF LoadsBefore, LoadRank
  <2>2. CASE a = "parent"
    <3>1. u \in Profiles /\ t \in Profiles
      BY <1>4, <2>2 DEF Owners, Targets
    <3>2. disk[t].depth < disk[u].depth
      BY <1>1, <1>2, <1>3, <2>2 DEF Consistent, FilesByDepth
    <3> QED  BY <3>1, <3>2 DEF LoadsBefore
  <2>3. CASE a = "profile"
    <3>1. u \in Systems /\ t \in Profiles
      BY <1>4, <2>3 DEF Owners, Targets
    <3> QED  BY <3>1, ConstantsAssumption DEF LoadsBefore, LoadRank
  <2>4. CASE a = "image"
    <3>1. u \in Systems /\ t \in Images
      BY <1>4, <2>4 DEF Owners, Targets
    <3> QED  BY <3>1, ConstantsAssumption DEF LoadsBefore, LoadRank
  <2> QED  BY <2>1, <2>2, <2>3, <2>4 DEF Attrs
<1> QED  BY <1>2, <1>3, <1>6

\* What its file says is valid among all files is so among the items loaded before it.
LEMMA StillValid ==
    ASSUME IInv, StartupInv, Consistent, NEW u \in loading, Constructible(disk[u]),
           Cardinality(Profiles) \in Nat,
           NEW o, o = [obj EXCEPT ![u] = Constructed(disk[u])]
    PROVE  Valid(o, listed, u)
<1>1. u \in saved /\ u \in Uid /\ u \notin listed /\ listed \subseteq saved /\ saved \subseteq Uid
  BY DEF StartupInv, IInv, TypeOK, OneThingAtATime
<1>2. disk[u] \in Item /\ Constructed(disk[u]).name = disk[u].name
      /\ Constructed(disk[u]).ref = disk[u].ref
  BY <1>1 DEF IInv, TypeOK, Item, Constructed
<1>3. \A w \in listed \cup {u} : o[w].ref = disk[w].ref
  BY <1>1, <1>2 DEF IInv, TypeOK, StartupInv
<1>4. o[u].name = disk[u].name
  BY <1>1, <1>2 DEF IInv, TypeOK
<1>5. \A w \in listed \cup {u}, a \in Attrs : disk[w].ref[a] \in listed \cup {Nil}
  BY <1>1 DEF Constructible, StartupInv
<1>6. Nil \notin saved /\ Nil \notin listed
  BY <1>1, ConstantsAssumption
<1>7. \A w \in listed \cup {u} : ParentOf(o, listed, w) = ParentOf(disk, saved, w)
                                 /\ ParentOf(o, listed, w) \in listed \cup {Nil}
  BY <1>1, <1>3, <1>5, <1>6 DEF ParentOf, Attrs
<1>8. /\ Ancestor(o, listed, u) = Ancestor(disk, saved, u)
      /\ Ancestor(o, listed, u) \in listed \cup {u}
  <2>1. \A w \in listed \cup {u} : /\ Above(o, listed, w) \in listed \cup {u}
                                   /\ Above(disk, saved, w) = Above(o, listed, w)
    BY <1>6, <1>7 DEF Above
  <2>2. PICK C, L, p, M : C = listed \cup {u} /\ L = listed /\ p = disk /\ M = saved
    OBVIOUS
  <2>3. u \in C /\ Agree(o, L, p, M, C)
    BY <2>1, <2>2 DEF Agree
  <2>4. Ancestor(o, L, u) = Ancestor(p, M, u) /\ Ancestor(o, L, u) \in C
    BY <2>3, SameAncestor
  <2> QED  BY <2>2, <2>4
<1>9. Valid(disk, saved, u)
  BY <1>1 DEF Consistent, FilesValid
<1>10. u \in Profiles => /\ ~Cyclic(o, listed, u)
                         /\ o[Ancestor(o, listed, u)].ref["distro"] \in listed
  <2> SUFFICES ASSUME u \in Profiles
               PROVE  /\ ~Cyclic(o, listed, u)
                      /\ o[Ancestor(o, listed, u)].ref["distro"] \in listed
    OBVIOUS
  <2>1. ~Cyclic(o, listed, u)
    BY <1>7, <1>8, <1>9 DEF Valid, Cyclic
  <2>2. disk[Ancestor(disk, saved, u)].ref["distro"] \in saved
    BY <1>9 DEF Valid
  <2> QED  BY <1>3, <1>5, <1>6, <1>8, <2>1, <2>2 DEF Attrs
<1> QED  BY <1>1, <1>3, <1>4, <1>9, <1>10 DEF Valid

LEMMA ConsistentLoads ==
    ASSUME IInv, StartupInv, Consistent, NEW u \in loading, LoadItem(u),
           Cardinality(Profiles) \in Nat
    PROVE  u \in listed'
<1>1. PICK o : o = [obj EXCEPT ![u] = Constructed(disk[u])]
  OBVIOUS
<1>2. Constructible(disk[u])
  BY ReferencesLoaded DEF LoadItem
<1>3. Valid(o, listed, u)
  BY <1>1, <1>2, StillValid
<1> QED  BY <1>1, <1>2, <1>3 DEF LoadItem

-----------------------------------------------------------------------------

LEMMA LoadItemStartup ==
    ASSUME IInv, StartupInv, NEW u \in loading, LoadItem(u), Cardinality(Profiles) \in Nat
    PROVE  StartupInv'
<1>1. /\ UNCHANGED <<saved, disk>> /\ loading' = loading \ {u} /\ u \notin listed
      /\ u \in saved /\ u \in Uid
  BY DEF LoadItem, files, IInv, OneThingAtATime, StartupInv, TypeOK
<1>2. Consistent' <=> Consistent
  BY <1>1 DEF Consistent, FilesClosed, FilesValid, FilesByDepth
<1>3. CASE UNCHANGED <<obj, listed>>
  <2>1. Consistent => FALSE
    BY <1>1, <1>3, ConsistentLoads
  <2> QED  BY <1>1, <1>2, <1>3, <2>1 DEF StartupInv
<1>4. CASE /\ Constructible(disk[u])
           /\ obj' = [obj EXCEPT ![u] = Constructed(disk[u])] /\ listed' = listed \cup {u}
  <2>1. disk[u] \in Item /\ Constructed(disk[u]).name = disk[u].name
        /\ Constructed(disk[u]).ref = disk[u].ref
    BY <1>1 DEF IInv, TypeOK, Item, Constructed
  <2>2. /\ obj'[u] = Constructed(disk[u]) /\ \A v \in listed : obj'[v] = obj[v]
    BY <1>1, <1>4 DEF IInv, TypeOK
  <2>3. \A a \in Attrs : obj'[u].ref[a] \in listed \cup {Nil}
    BY <1>4, <2>1, <2>2 DEF Constructible
  <2> QED  BY <1>1, <1>2, <1>4, <2>1, <2>2, <2>3 DEF StartupInv
<1> QED  BY <1>3, <1>4 DEF LoadItem

LEMMA NextStartup ==
    ASSUME IInv, StartupInv, [Next]_vars, Cardinality(Profiles) \in Nat
    PROVE  StartupInv'
<1>1. CASE Load
  BY <1>1, LoadItemStartup DEF Load
<1>2. CASE Restart
  BY <1>2 DEF Restart, StartupInv, files
<1>3. CASE UNCHANGED vars
  <2>1. Consistent' <=> Consistent
    BY <1>3 DEF vars, Consistent, FilesClosed, FilesValid, FilesByDepth
  <2> QED  BY <1>3, <2>1 DEF vars, StartupInv
<1>4. CASE Edit \/ Request \/ RemovalStep \/ RemoveTriggerFails
  <2>1. loading' = {}
    <3>1. CASE Edit
      BY <3>1 DEF Edit, SetName, SetDistro, SetParent, SetProfile, SetImage, SetSystemRef, Up
    <3>2. CASE Request
      BY <3>2 DEF Request, NewItem, Save, Copy, Rename, DropUnsaved, ExpireUnsaved, Remove,
                  RemoveRecursive, Up
    <3>3. CASE RemovalStep \/ RemoveTriggerFails
      BY <3>3 DEF RemovalStep, RemoveLookUp, RemoveDescend, RemoveReturn, RemoveKeyError,
                  RemoveOverflow, RemoveTriggerFails, CallDone, IInv, OneThingAtATime
    <3> QED  BY <1>4, <3>1, <3>2, <3>3
  <2> QED  BY <2>1 DEF StartupInv
<1> QED  BY <1>1, <1>2, <1>3, <1>4 DEF Next

\* serializer.py sorts the files by depth "to ensure properly ordered object loading": from
\* files that contradict neither each other nor the checks, and whose depths order parents
\* before children, a start-up loads every item, in whatever order the directory has them.
THEOREM StartupRestores ==
    ASSUME IsFiniteSet(Profiles)
    PROVE  Spec => StartupRestoresOrdered
<1>1. Cardinality(Profiles) \in Nat
  BY FS_CardinalityType
<1>2. Init => StartupInv
  BY DEF Init, StartupInv
<1>3. IInv /\ StartupInv /\ [Next]_vars => StartupInv'
  BY <1>1, NextStartup
<1>4. IInv /\ StartupInv /\ [Next]_vars
      => [(\E u \in Uid : Skips(u)) => ~(FilesClosed /\ FilesValid /\ FilesByDepth)]_vars
  <2> SUFFICES ASSUME IInv, StartupInv, [Next]_vars, NEW u \in Uid, Skips(u), Consistent
               PROVE  FALSE
    BY DEF Consistent
  <2>1. u \in loading /\ u \notin loading' /\ u \notin listed'
    BY DEF Skips
  <2>2. CASE Load
    <3>1. PICK v \in loading : LoadItem(v)
      BY <2>2 DEF Load
    <3>2. v = u
      BY <2>1, <3>1 DEF LoadItem
    <3> QED  BY <1>1, <2>1, <3>1, <3>2, ConsistentLoads
  <2>3. CASE Restart
    BY <2>1, <2>3 DEF Restart, StartupInv
  <2>4. CASE UNCHANGED vars
    BY <2>1, <2>4 DEF vars
  <2>5. CASE Edit
    BY <2>1, <2>5 DEF Edit, SetName, SetDistro, SetParent, SetProfile, SetImage, SetSystemRef, Up
  <2>6. CASE Request
    BY <2>1, <2>6 DEF Request, NewItem, Save, Copy, Rename, DropUnsaved, ExpireUnsaved, Remove,
                      RemoveRecursive, Up
  <2>7. CASE RemovalStep \/ RemoveTriggerFails
    BY <2>1, <2>7 DEF RemovalStep, RemoveLookUp, RemoveDescend, RemoveReturn, RemoveKeyError,
                      RemoveOverflow, RemoveTriggerFails, CallDone, IInv, OneThingAtATime
  <2> QED  BY <2>2, <2>3, <2>4, <2>5, <2>6, <2>7 DEF Next
<1> QED
  BY <1>2, <1>3, <1>4, Invariant, PTL DEF Spec, StartupRestoresOrdered

-----------------------------------------------------------------------------
(***************************************************************************)
(* ItemStore implements Catalogue: each of its steps is a step of the      *)
(* catalogue on the published items, or leaves the catalogue as it is.     *)
(***************************************************************************)

CatalogueStep == [Abstract!CNext]_(Abstract!cvars)

\* How an item of the catalogue looks after a step, from the object it has.
LEMMA PublishedItem ==
    ASSUME IInv
    PROVE  /\ \A u \in listed : Published[u] = obj[u]
           /\ \A u \in Uid \ listed : Published[u] = Blank
BY DEF IInv, TypeOK, Published

\* An edit of an item that is not listed does not show, one of a listed item is
\* an edit in the catalogue.
LEMMA EditRefines ==
    ASSUME IInv, IInv', NEW u \in Uid, loading = {},
           \A v \in Uid \ {u} : obj'[v] = obj[v],
           UNCHANGED <<listed, files, loading>>
    PROVE  CatalogueStep
<1>1. /\ obj \in [Uid -> Item] /\ obj' \in [Uid -> Item] /\ listed \subseteq Uid
      /\ Published = [v \in Uid |-> IF v \in listed THEN obj[v] ELSE Blank]
      /\ Published' = [v \in Uid |-> IF v \in listed' THEN obj'[v] ELSE Blank]
  BY DEF IInv, TypeOK, Published
<1>2. CASE u \notin listed
  <2>1. Published' = Published
    BY <1>1, <1>2
  <2> QED  BY <2>1 DEF CatalogueStep, Abstract!cvars, files
<1>3. CASE u \in listed
  <2>1. Published'[u] \in Item
    BY <1>1, <1>3
  <2>2. \A v \in Uid \ {u} : Published'[v] = Published[v]
    BY <1>1
  <2>3. Abstract!CEdit(u)
    BY <1>3, <2>1, <2>2 DEF Abstract!CEdit, Abstract!ChangesOnly, files
  <2> QED  BY <2>3 DEF CatalogueStep, Abstract!CNext
<1> QED  BY <1>2, <1>3

\* What stores an item, listed before or not, is a store in the catalogue.
LEMMA StoreRefines ==
    ASSUME IInv, IInv', NEW u \in Uid, loading = {},
           \A v \in listed \ {u} : obj'[v] = obj[v],
           listed' = listed \cup {u}, saved' = saved \cup {u},
           disk' = [disk EXCEPT ![u] = obj'[u]],
           UNCHANGED loading
    PROVE  CatalogueStep
<1>1. /\ obj \in [Uid -> Item] /\ obj' \in [Uid -> Item] /\ listed \subseteq Uid
      /\ Published = [v \in Uid |-> IF v \in listed THEN obj[v] ELSE Blank]
      /\ Published' = [v \in Uid |-> IF v \in listed' THEN obj'[v] ELSE Blank]
  BY DEF IInv, TypeOK, Published
<1>2. Published'[u] = obj'[u] /\ obj'[u] \in Item
  BY <1>1
<1>3. \A v \in Uid \ {u} : Published'[v] = Published[v]
  BY <1>1
<1>4. Abstract!CStore(u)
  BY <1>2, <1>3 DEF Abstract!CStore, Abstract!ChangesOnly
<1> QED  BY <1>4 DEF CatalogueStep, Abstract!CNext

\* What deletes a listed item without dependants is a removal in the catalogue.
LEMMA DeleteRefines ==
    ASSUME IInv, IInv', NEW u \in listed, loading = {},
           Delete(u), Dependants(u) = {}, UNCHANGED loading
    PROVE  CatalogueStep
<1>1. /\ obj \in [Uid -> Item] /\ listed \subseteq Uid
      /\ Published = [v \in Uid |-> IF v \in listed THEN obj[v] ELSE Blank]
      /\ Published' = [v \in Uid |-> IF v \in listed' THEN obj'[v] ELSE Blank]
  BY DEF IInv, TypeOK, Published
<1>2. /\ listed' = listed \ {u} /\ saved' = saved \ {u}
      /\ disk' = [disk EXCEPT ![u] = Blank]
      /\ \A v \in listed \ {u} : obj'[v] = obj[v]
  BY <1>1 DEF Delete, Forget
<1>3. \A v \in listed, a \in Attrs : Published[v].ref[a] # u
  BY <1>1, NoDependants
<1>4. Published' = [Published EXCEPT ![u] = Blank]
  BY <1>1, <1>2
<1>5. Abstract!CRemove(u)
  BY <1>2, <1>3, <1>4 DEF Abstract!CRemove
<1> QED  BY <1>1, <1>5 DEF CatalogueStep, Abstract!CNext

LEMMA RestartRefines ==
    ASSUME IInv, Restart
    PROVE  CatalogueStep
<1>1. Published' = [u \in Uid |-> Blank]
  BY DEF Restart, Published
<1>2. Abstract!CCrash
  BY <1>1 DEF Restart, Abstract!CCrash, files
<1> QED  BY <1>2 DEF CatalogueStep, Abstract!CNext

LEMMA LoadRefines ==
    ASSUME IInv, IInv', NEW u \in loading, LoadItem(u)
    PROVE  CatalogueStep
<1> DEFINE it == Constructed(disk[u])
<1>1. /\ obj \in [Uid -> Item] /\ obj' \in [Uid -> Item] /\ listed \subseteq Uid
      /\ u \in Uid /\ u \notin listed /\ disk[u] \in Item
      /\ Published = [v \in Uid |-> IF v \in listed THEN obj[v] ELSE Blank]
      /\ Published' = [v \in Uid |-> IF v \in listed' THEN obj'[v] ELSE Blank]
  BY DEF IInv, TypeOK, OneThingAtATime, Published
<1>2. loading' = loading \ {u} /\ UNCHANGED <<saved, disk>>
  BY DEF LoadItem, files
<1>3. CASE UNCHANGED <<obj, listed>>
  <2>1. Published' = Published
    BY <1>1, <1>3
  <2>2. Abstract!CLoad(u)
    BY <1>2, <1>3, <2>1 DEF Abstract!CLoad
  <2> QED  BY <1>1, <2>2 DEF CatalogueStep, Abstract!CNext
<1>4. CASE /\ Constructible(disk[u])
           /\ obj' = [obj EXCEPT ![u] = it]
           /\ listed' = listed \cup {u}
  <2>1. it \in Item /\ it.name = disk[u].name /\ it.ref = disk[u].ref
    BY <1>1, <1>4, ConstructedType
  <2> HIDE DEF it
  <2>2. Published'[u] = it /\ \A v \in Uid \ {u} : Published'[v] = Published[v]
    BY <1>1, <1>4, <2>1
  <2>3. \A a \in Attrs : disk[u].ref[a] \in listed \cup {Nil}
    BY <1>4 DEF Constructible
  <2>4. Abstract!CLoad(u)
    BY <1>2, <1>4, <2>1, <2>2, <2>3 DEF Abstract!CLoad, Abstract!ChangesOnly
  <2> QED  BY <1>1, <2>4 DEF CatalogueStep, Abstract!CNext
<1> QED  BY <1>3, <1>4 DEF LoadItem

\* A step that leaves the objects of listed items and the files alone.
LEMMA UnseenRefines ==
    ASSUME IInv, UNCHANGED <<listed, files, loading>>,
           \A v \in listed : obj'[v] = obj[v]
    PROVE  CatalogueStep
<1>1. Published' = Published
  BY DEF Published
<1> QED  BY <1>1 DEF CatalogueStep, Abstract!cvars, files

LEMMA EditStepRefines ==
    ASSUME IInv, IInv', Edit
    PROVE  CatalogueStep
<1>1. PICK u \in Uid :
        \/ \E n \in NameChoices[u] : SetName(u, n)
        \/ \E t \in Distros \cup {Nil} : SetDistro(u, t)
        \/ \E t \in Profiles \cup {Nil} : SetParent(u, t)
        \/ \E t \in Profiles \cup {Nil} : SetProfile(u, t)
        \/ \E t \in Images \cup {Nil} : SetImage(u, t)
  BY DEF Edit
<1>2. obj \in [Uid -> Item]
  BY DEF IInv, TypeOK
<1>3. loading = {} /\ UNCHANGED <<listed, files, loading>>
  BY <1>1 DEF SetName, SetDistro, SetParent, SetProfile, SetImage, SetSystemRef, Up
<1>4. \A v \in Uid \ {u} : obj'[v] = obj[v]
  <2>1. CASE \E n \in NameChoices[u] : SetName(u, n)
    BY <1>2, <2>1 DEF SetName
  <2>2. CASE \E t \in Distros \cup {Nil} : SetDistro(u, t)
    BY <1>2, <2>2 DEF SetDistro
  <2>3. CASE \E t \in Profiles \cup {Nil} : SetParent(u, t)
    BY <1>2, <2>3 DEF SetParent
  <2>4. CASE \E t \in Profiles \cup {Nil} : SetProfile(u, t)
    BY <1>2, <2>4 DEF SetProfile, SetSystemRef
  <2>5. CASE \E t \in Images \cup {Nil} : SetImage(u, t)
    BY <1>2, <2>5 DEF SetImage, SetSystemRef
  <2> QED  BY <1>1, <2>1, <2>2, <2>3, <2>4, <2>5
<1> QED  BY <1>3, <1>4, EditRefines

LEMMA RequestStepRefines ==
    ASSUME IInv, IInv', Request
    PROVE  CatalogueStep
<1>1. PICK u \in Uid :
        \/ NewItem(u)
        \/ \E m \in {"new", "bypass"}, raises \in BOOLEAN : Save(u, m, raises)
        \/ \E v \in Uid : \E n \in NameChoices[v] : Copy(u, v, n)
        \/ \E n \in NameChoices[u] : Rename(u, n)
        \/ DropUnsaved(u)
        \/ ExpireUnsaved(u)
        \/ Remove(u)
        \/ RemoveRecursive(u)
  BY DEF Request
<1>2. obj \in [Uid -> Item] /\ listed \subseteq Uid
  BY DEF IInv, TypeOK
<1>3. CASE NewItem(u) \/ RemoveRecursive(u)
  BY <1>3, UnseenRefines DEF NewItem, RemoveRecursive, memory
<1>4. CASE DropUnsaved(u) \/ ExpireUnsaved(u)
  <2>1. \A v \in listed : obj'[v] = obj[v]
    BY <1>2, <1>4 DEF DropUnsaved, ExpireUnsaved, Forget
  <2> QED  BY <1>4, <2>1, UnseenRefines DEF DropUnsaved, ExpireUnsaved
<1>5. CASE \E m \in {"new", "bypass"}, raises \in BOOLEAN : Save(u, m, raises)
  <2>1. /\ loading = {} /\ UNCHANGED <<obj, loading>>
        /\ listed' = listed \cup {u} /\ saved' = saved \cup {u}
        /\ disk' = [disk EXCEPT ![u] = obj'[u]]
    BY <1>5 DEF Save, Publish, Up
  <2> QED  BY <2>1, StoreRefines
<1>6. CASE \E v \in Uid : \E n \in NameChoices[v] : Copy(u, v, n)
  <2>1. PICK v \in Uid : \E n \in NameChoices[v] : Copy(u, v, n)
    BY <1>6
  <2>2. PICK clone : /\ obj' = [obj EXCEPT ![v] = clone] /\ Publish(v, clone)
                     /\ loading = {} /\ UNCHANGED loading
    BY <2>1 DEF Copy, Up
  <2>3. /\ obj'[v] = clone /\ \A w \in listed \ {v} : obj'[w] = obj[w]
        /\ listed' = listed \cup {v} /\ saved' = saved \cup {v}
        /\ disk' = [disk EXCEPT ![v] = obj'[v]]
    BY <1>2, <2>2 DEF Publish
  <2> QED  BY <2>2, <2>3, StoreRefines
<1>7. CASE \E n \in NameChoices[u] : Rename(u, n)
  <2>1. PICK it : /\ obj' = [obj EXCEPT ![u] = it] /\ disk' = [disk EXCEPT ![u] = it]
                  /\ saved' = saved \cup {u} /\ u \in listed /\ listed' = listed
                  /\ loading = {} /\ UNCHANGED loading
    BY <1>7 DEF Rename, Up
  <2>2. /\ obj'[u] = it /\ \A v \in listed \ {u} : obj'[v] = obj[v]
        /\ listed' = listed \cup {u}
    BY <1>2, <2>1
  <2> QED  BY <2>1, <2>2, StoreRefines
<1>8. CASE Remove(u)
  <2>1. u \in listed
    <3>1. PICK n \in Names : nameIdx[Kind(u)][n] = u
      BY <1>8 DEF Remove
    <3>2. u # Nil  BY ConstantsAssumption
    <3> QED  BY <3>1, <3>2, KindType DEF IInv, NameIndexSound
  <2> QED  BY <1>8, <2>1, DeleteRefines DEF Remove, Up
<1> QED  BY <1>1, <1>3, <1>4, <1>5, <1>6, <1>7, <1>8

LEMMA StepRefines ==
    ASSUME IInv, IInv', [Next]_vars
    PROVE  CatalogueStep
<1>1. CASE RemoveReturn
  <2>1. /\ CallDone /\ Top.item \in listed /\ Delete(Top.item) /\ UNCHANGED loading
    BY <1>1 DEF RemoveReturn
  <2>2. loading = {}
    BY <2>1 DEF CallDone, IInv, OneThingAtATime
  <2> QED  BY <2>1, <2>2, CallDoneNoDependants, DeleteRefines
<1>2. CASE RemoveLookUp \/ RemoveDescend \/ RemoveKeyError \/ RemoveOverflow
           \/ RemoveTriggerFails \/ UNCHANGED vars
  BY <1>2, UnseenRefines DEF RemoveLookUp, RemoveDescend, RemoveKeyError, RemoveOverflow,
     RemoveTriggerFails, memory, files, vars
<1>3. CASE Load
  BY <1>3, LoadRefines DEF Load
<1> QED  BY <1>1, <1>2, <1>3, EditStepRefines, RequestStepRefines, RestartRefines
         DEF Next, RemovalStep

LEMMA InitRefines == Init => Abstract!CInit
BY DEF Init, Abstract!CInit, Published

\* The item store, with its indexes, its live edits, its recursion and its
\* crashes, does to its published items only what the catalogue allows.
THEOREM Implementation == Spec => ImplementsCatalogue
<1>1. Init => Abstract!CInit
  BY InitRefines
<1>2. IInv /\ IInv' /\ [Next]_vars => [Abstract!CNext]_(Abstract!cvars)
  BY StepRefines DEF CatalogueStep
<1>3. Spec => Abstract!CSpec
  BY <1>1, <1>2, Invariant, PTL DEF Spec, Abstract!CSpec
<1> QED  BY <1>3 DEF ImplementsCatalogue

=============================================================================
