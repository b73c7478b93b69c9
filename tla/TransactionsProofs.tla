-------------------------- MODULE TransactionsProofs --------------------------
(***************************************************************************)
(* Proofs about Transactions, for all sets of items, names and clients:    *)
(* types, no lost save, and complete commits.                              *)
(*                                                                         *)
(* A commit compares the modification times of the originals once, and     *)
(* then overwrites them one by one.  The invariant says why that is        *)
(* enough: what is still to be overwritten has the time that was compared  *)
(* (StillUnchanged), and a new item of one transaction is in no other and  *)
(* not in the store (NewApart, NewUnlisted).                               *)
(***************************************************************************)
EXTENDS Transactions, ItemStoreProofs

Op(t, u) == entry[t][u].op

\* An item that a transaction has made, and that is not in the store yet.
New(t, u) == Op(t, u) = "keep" /\ ~entry[t][u].base
Committed(t, u) == commit.token = t /\ (commit.phase # "add" \/ u \notin commit.todo)

\* Removals are of originals.
GoneHaveBase == \A t \in Tokens, u \in Uid : Op(t, u) = "delete" => entry[t][u].base
NewApart ==
    \A t, s \in Tokens, u \in Uid : New(t, u) /\ s # t => Op(s, u) # "keep"
NewUnlisted ==
    \A t \in Tokens, u \in Uid : New(t, u) /\ ~Committed(t, u) => u \notin listed

\* What a commit has yet to add and to remove.
Pending == CASE commit.phase = "add" -> commit.todo \cup Gone(commit.token)
             [] commit.phase = "index" -> Gone(commit.token)
             [] OTHER -> commit.todo

Running == commit # Idle
CommitShape ==
    Running =>
        /\ commit.token \in Tokens /\ commit.phase \in {"add", "index", "remove"}
        /\ commit.phase = "add" => commit.todo \subseteq Kept(commit.token)
        /\ commit.phase = "remove" => commit.todo \subseteq Gone(commit.token)
StillUnchanged ==
    Running => \A u \in Pending :
        LET e == entry[commit.token][u] IN e.base => e.mtime = mtime[u]

\* What a commit has already done.
Added == IF commit.phase = "add" THEN Kept(commit.token) \ commit.todo ELSE Kept(commit.token)
Removed == IF commit.phase = "remove" THEN Gone(commit.token) \ commit.todo ELSE {}
DoneSoFar ==
    Running =>
        /\ \A u \in Added : u \in listed /\ obj[u] = entry[commit.token][u].item
        /\ \A u \in Removed : u \notin listed

Entries == GoneHaveBase /\ NewApart /\ NewUnlisted
Commits == CommitShape /\ StillUnchanged /\ DoneSoFar
TxInv == TxTypeOK /\ Entries /\ Commits

-----------------------------------------------------------------------------
(* Types                                                                   *)

LEMMA NoEntryType == NoEntry \in Entry /\ NoEntry.op = "none" /\ ~NoEntry.base
BY BlankType DEF NoEntry, Entry, Ops

LEMMA EntryFields ==
    ASSUME NEW e \in Entry
    PROVE  /\ e.op \in Ops /\ e.item \in Item /\ e.base \in BOOLEAN /\ e.mtime \in Nat
           /\ e.log \in Seq(Change)
BY DEF Entry

LEMMA CreatedType ==
    ASSUME NEW it \in Item
    PROVE  Created(it) \in Entry /\ Created(it).op = "keep" /\ ~Created(it).base
BY NoEntryType DEF Created, Entry, Ops

LEMMA DeletedType ==
    ASSUME mtime \in [Uid -> Nat], NEW u \in Uid
    PROVE  Deleted(u) \in Entry /\ Deleted(u).op = "delete" /\ Deleted(u).base
BY NoEntryType DEF Deleted, Entry, Ops

LEMMA EditableType ==
    ASSUME TxTypeOK, NEW t \in Tokens, NEW u \in Uid,
           Sees(t, u), Op(t, u) = "none" => Constructible(obj[u])
    PROVE  /\ Editable(t, u) \in Entry /\ Editable(t, u).op = "keep"
           /\ Op(t, u) = "keep" => Editable(t, u).base = entry[t][u].base
           /\ Op(t, u) # "keep" => Editable(t, u).base /\ u \in listed
<1>1. entry[t][u] \in Entry
  BY DEF TxTypeOK
<1>2. CASE Op(t, u) = "keep"
  BY <1>1, <1>2 DEF Editable, Op
<1>3. CASE Op(t, u) # "keep"
  <2>1. Op(t, u) = "none" /\ u \in listed
    BY <1>3 DEF Sees, Op
  <2>2. Constructed(obj[u]) \in Item
    BY <2>1, ConstructedType DEF TxTypeOK, TypeOK
  <2>3. Copied(u) \in Entry /\ Copied(u).op = "keep" /\ Copied(u).base
    BY <2>2 DEF Copied, Entry, Ops, TxTypeOK
  <2> QED
    BY <1>3, <2>1, <2>3 DEF Editable, Op
<1> QED
  BY <1>2, <1>3

LEMMA LoggedType ==
    ASSUME NEW e \in Entry, NEW a \in Attrs \cup {"name"},
           NEW old \in Uid \cup Names \cup {Nil, NoName}, NEW new \in Uid \cup Names \cup {Nil},
           NEW it \in Item
    PROVE  LET l == [Logged(e, a, old, new) EXCEPT !.item = it]
           IN  l \in Entry /\ l.op = e.op /\ l.base = e.base
<1> DEFINE c == [attr |-> a, old |-> old, new |-> new]
<1>1. c \in Change
  BY DEF Change
<1> HIDE DEF c
<1>2. Append(e.log, c) \in Seq(Change)
  BY <1>1, EntryFields
<1>3. [Logged(e, a, old, new) EXCEPT !.item = it]
        = [e EXCEPT !.log = Append(e.log, c), !.item = it]
  BY DEF Logged, Entry, c
<1> QED
  BY <1>2, <1>3 DEF Entry

LEMMA ChoicesType ==
    ASSUME NEW u \in Uid
    PROVE  /\ NameChoices[u] \subseteq Names
           /\ \A r \in RefChoices[u] : /\ r[1] \in Attrs /\ r[2] \in Uid \cup {Nil}
                                       /\ r[2] \in Targets(r[1]) \cup {Nil}
BY ConstantsAssumption, TransactionAssumption

LEMMA SetRefType ==
    ASSUME TxTypeOK, NEW t \in Tokens, NEW it \in Item, NEW a \in Attrs, NEW v \in Uid \cup {Nil}
    PROVE  SetRef(t, it, a, v) \in Item
<1> DEFINE other == IF a = "profile" THEN "image" ELSE "profile"
           target == IF CreatedInTx(t, a, v) THEN entry[t][v].item ELSE obj[v]
<1>1. other \in Attrs /\ Nil \in Uid \cup {Nil}
  BY DEF Attrs
<1>2. CASE v = Nil
  <2>1. SetRef(t, it, a, v) = [it EXCEPT !.ref[a] = Nil]
    BY <1>2 DEF SetRef
  <2> QED
    BY <1>1, <2>1 DEF Item
<1>3. CASE v # Nil
  <2>1. target \in Item
    BY <1>3 DEF TxTypeOK, TypeOK, Entry
  <2>2. target.depth + 1 \in Nat
    BY <2>1, ItemFields
  <2>3. SetRef(t, it, a, v) \in
          {it, [it EXCEPT !.ref[other] = Nil, !.ref[a] = v, !.depth = target.depth + 1],
               [it EXCEPT !.ref[a] = v, !.depth = target.depth + 1]}
    BY <1>3 DEF SetRef
  <2> HIDE DEF target, other
  <2>4. [it EXCEPT !.ref[other] = Nil, !.ref[a] = v, !.depth = target.depth + 1] \in Item
    BY <1>1, <2>2, TwiceEditedItem
  <2>5. [it EXCEPT !.ref[a] = v, !.depth = target.depth + 1] \in Item
    BY <2>2, EditedItem
  <2> QED
    BY <2>3, <2>4, <2>5
<1> QED
  BY <1>2, <1>3

-----------------------------------------------------------------------------
(* Requests of a client with a transaction                                 *)

\* What such a request may put for an item into its transaction.
Harmless(t, u, e) ==
    /\ e.op = "delete" => e.base
    /\ e.op = "keep" => \A s \in Tokens \ {t} : ~New(s, u)
    /\ e.op = "keep" /\ ~e.base => u \notin listed /\ \A s \in Tokens \ {t} : Op(s, u) # "keep"

LEMMA TxEdit ==
    ASSUME TxInv, Ready, NEW t \in Tokens, NEW es \in [Uid -> Entry],
           entry' = [entry EXCEPT ![t] = es],
           open' \subseteq Tokens, doomed' \subseteq Tokens,
           UNCHANGED <<vars, mtime, flagged, commit>>,
           \A u \in Uid : es[u] = entry[t][u] \/ Harmless(t, u, es[u])
    PROVE  TxInv'
<1>1. /\ entry' \in [Tokens -> [Uid -> Entry]]
      /\ entry'[t] = es /\ \A s \in Tokens \ {t} : entry'[s] = entry[s]
  BY DEF TxInv, TxTypeOK
<1>2. TypeOK'
  BY DEF TxInv, TxTypeOK, TypeOK, vars
<1>3. TxTypeOK'
  BY <1>1, <1>2 DEF TxInv, TxTypeOK
<1>4. listed' = listed /\ commit' = commit /\ ~Running
  BY DEF vars, Ready, Running
<1>5. GoneHaveBase'
  BY <1>1 DEF TxInv, Entries, GoneHaveBase, Op, Harmless
<1>6. NewApart'
  <2> SUFFICES ASSUME NEW r \in Tokens, NEW s \in Tokens, NEW u \in Uid, New(r, u)', s # r
               PROVE  entry'[s][u].op # "keep"
    BY DEF NewApart, Op
  <2>1. CASE r # t /\ s # t
    BY <1>1, <2>1 DEF TxInv, Entries, NewApart, New, Op
  <2>2. CASE r = t
    <3>1. entry'[s] = entry[s] /\ entry'[r][u] = es[u]
      BY <1>1, <2>2
    <3> QED
      BY <2>2, <3>1 DEF TxInv, Entries, NewApart, New, Op, Harmless
  <2>3. CASE s = t
    <3>1. entry'[r] = entry[r] /\ entry'[s][u] = es[u]
      BY <1>1, <2>3
    <3> QED
      BY <2>3, <3>1 DEF TxInv, Entries, NewApart, New, Op, Harmless
  <2> QED
    BY <2>1, <2>2, <2>3
<1>7. NewUnlisted'
  <2> SUFFICES ASSUME NEW s \in Tokens, NEW u \in Uid, New(s, u)'
               PROVE  u \notin listed
    BY <1>4 DEF NewUnlisted
  <2>1. \A r \in Tokens : commit.token # r
    BY TransactionAssumption DEF Ready, Idle
  <2>2. New(s, u) => u \notin listed
    BY <2>1 DEF TxInv, Entries, NewUnlisted, Committed
  <2> QED
    BY <1>1, <2>2 DEF New, Op, Harmless
<1>8. Commits'
  BY <1>4 DEF Commits, CommitShape, StillUnchanged, DoneSoFar, Running
<1> QED
  BY <1>3, <1>5, <1>6, <1>7, <1>8 DEF TxInv, Entries

\* Between two commits no new item is in the store.
LEMMA NewOnes ==
    ASSUME TxInv, Ready, NEW t \in Tokens, NEW u \in Uid, New(t, u)
    PROVE  u \notin listed /\ \A s \in Tokens \ {t} : Op(s, u) # "keep"
<1>1. commit.token # t
  BY TransactionAssumption DEF Ready, Idle
<1> QED
  BY <1>1 DEF TxInv, Entries, NewUnlisted, NewApart, Committed

\* An edit of what the transaction sees is harmless, and so is a new item.
LEMMA EditHarmless ==
    ASSUME TxInv, Ready, NEW t \in Tokens, NEW u \in Uid, Sees(t, u),
           Op(t, u) = "none" => Constructible(obj[u]),
           NEW e, e.op = "keep", e.base = Editable(t, u).base
    PROVE  Harmless(t, u, e)
<1>1. /\ Op(t, u) = "keep" => Editable(t, u).base = entry[t][u].base
      /\ Op(t, u) # "keep" => Editable(t, u).base /\ u \in listed
  BY EditableType DEF TxInv
<1>2. CASE Op(t, u) = "keep"
  <2>1. \A s \in Tokens \ {t} : ~New(s, u)
    BY <1>2, NewOnes
  <2>2. ~e.base => New(t, u)
    BY <1>1, <1>2 DEF New
  <2> QED
    BY <2>1, <2>2, NewOnes DEF Harmless
<1>3. CASE Op(t, u) # "keep"
  <2>1. e.base /\ \A s \in Tokens \ {t} : ~New(s, u)
    BY <1>1, <1>3, NewOnes
  <2> QED
    BY <2>1 DEF Harmless
<1> QED
  BY <1>2, <1>3

LEMMA CreatedHarmless ==
    ASSUME NEW t \in Tokens, NEW u \in Uid, Unused(u), NEW it \in Item
    PROVE  Harmless(t, u, Created(it))
BY CreatedType DEF Harmless, Unused, Fresh, Handles, New, Op

LEMMA ForgettingHarmless ==
    ASSUME mtime \in [Uid -> Nat], NEW t \in Tokens, NEW u \in Uid
    PROVE  Harmless(t, u, Deleted(u)) /\ Harmless(t, u, NoEntry)
BY DeletedType, NoEntryType DEF Harmless

\* One item of a transaction is given another entry.
LEMMA OneEntry ==
    ASSUME TxInv, Ready, NEW t \in Tokens, NEW u \in Uid, NEW e \in Entry, Harmless(t, u, e),
           entry' = [entry EXCEPT ![t][u] = e],
           UNCHANGED <<vars, open, doomed, mtime, flagged, commit>>
    PROVE  TxInv'
<1> DEFINE es == [entry[t] EXCEPT ![u] = e]
<1>1. entry[t] \in [Uid -> Entry] /\ open \subseteq Tokens /\ doomed \subseteq Tokens
  BY DEF TxInv, TxTypeOK
<1>2. es \in [Uid -> Entry] /\ \A v \in Uid : es[v] = IF v = u THEN e ELSE entry[t][v]
  BY <1>1
<1>3. entry' = [entry EXCEPT ![t] = es]
  BY DEF TxInv, TxTypeOK
<1> HIDE DEF es
<1>4. \A v \in Uid : es[v] = entry[t][v] \/ Harmless(t, v, es[v])
  BY <1>2
<1>5. open' \subseteq Tokens /\ doomed' \subseteq Tokens
      /\ UNCHANGED <<vars, mtime, flagged, commit>>
  BY <1>1
<1> QED
  BY <1>2, <1>3, <1>4, <1>5, TxEdit

LEMMA NewInTxInv ==
    ASSUME TxInv, NEW t \in Tokens, NEW u \in Uid, NewInTx(t, u)
    PROVE  TxInv'
BY BlankType, CreatedType, CreatedHarmless, OneEntry DEF NewInTx

LEMMA NameInTxInv ==
    ASSUME TxInv, NEW t \in Tokens, NEW u \in Uid, NEW n \in NameChoices[u], NameInTx(t, u, n)
    PROVE  TxInv'
<1> DEFINE e == Editable(t, u)
           it == [e.item EXCEPT !.name = n]
           l == [Logged(e, "name", e.item.name, n) EXCEPT !.item = it]
<1>1. e \in Entry /\ e.op = "keep"
  BY EditableType DEF NameInTx, TxInv, Op
<1>2. e.item \in Item /\ e.item.name \in Names \cup {NoName} /\ n \in Names
  BY <1>1, EntryFields, ItemFields, ChoicesType
<1>3. it \in Item
  BY <1>2, RenamedItem
<1>4. l \in Entry /\ l.op = e.op /\ l.base = e.base
  <2> HIDE DEF e, it
  <2> QED
    BY <1>1, <1>2, <1>3, LoggedType
<1>5. l = [Logged(e, "name", e.item.name, n) EXCEPT !.item.name = n]
  <2> HIDE DEF e
  <2> QED
    BY <1>1 DEF Logged, Entry
<1>6. Harmless(t, u, l)
  <2> HIDE DEF l
  <2> QED
    BY <1>1, <1>4, EditHarmless DEF NameInTx, Op
<1>7. entry' = [entry EXCEPT ![t][u] = l] /\ Ready
  BY <1>5 DEF NameInTx
<1> HIDE DEF l
<1> QED
  BY <1>4, <1>6, <1>7, OneEntry DEF NameInTx

LEMMA RefInTxInv ==
    ASSUME TxInv, NEW t \in Tokens, NEW u \in Uid, NEW r \in RefChoices[u],
           RefInTx(t, u, r[1], r[2])
    PROVE  TxInv'
<1> DEFINE e == Editable(t, u)
           a == r[1]
           v == r[2]
           it == SetRef(t, e.item, a, v)
           l == [Logged(e, a, e.item.ref[a], v) EXCEPT !.item = it]
<1>1. e \in Entry /\ e.op = "keep"
  BY EditableType DEF RefInTx, TxInv, Op
<1>2. /\ a \in Attrs /\ v \in Uid \cup {Nil}
      /\ e.item \in Item /\ e.item.ref[a] \in Uid \cup {Nil}
  BY <1>1, EntryFields, ItemFields, ChoicesType
<1> HIDE DEF a, v
<1>3. it \in Item
  BY <1>2, SetRefType DEF TxInv
<1>4. l \in Entry /\ l.op = e.op /\ l.base = e.base
  <2> DEFINE old == e.item.ref[a]
  <2>1. /\ e \in Entry /\ a \in Attrs \cup {"name"} /\ it \in Item
        /\ old \in Uid \cup Names \cup {Nil, NoName}
        /\ v \in Uid \cup Names \cup {Nil}
    BY <1>1, <1>2, <1>3
  <2> HIDE DEF e, it, old
  <2> QED
    BY <2>1, LoggedType DEF old
<1>5. Harmless(t, u, l)
  <2>1. Ready /\ Sees(t, u) /\ (entry[t][u].op = "none" => Constructible(obj[u]))
    <3> HIDE DEF e, it, l
    <3> QED
      BY DEF RefInTx
  <2>2. l.op = "keep" /\ l.base = Editable(t, u).base
    BY <1>1, <1>4
  <2> HIDE DEF e, l
  <2> QED
    BY <2>1, <2>2, EditHarmless DEF Op
<1>6. entry' = [entry EXCEPT ![t][u] = l] /\ Ready
  BY DEF RefInTx, a, v
<1> HIDE DEF l
<1> QED
  BY <1>4, <1>5, <1>6, OneEntry DEF RefInTx

\* The clone that copy and rename make.
LEMMA CloneType ==
    ASSUME TxTypeOK, NEW t \in Tokens, NEW u \in Uid, NEW n \in Names, Constructible(View(t, u))
    PROVE  [Constructed(View(t, u)) EXCEPT !.name = n] \in Item
<1>1. View(t, u) \in Item
  BY DEF TxTypeOK, TypeOK, View, Entry
<1>2. Constructed(View(t, u)) \in Item
  BY <1>1, ConstructedType DEF TxTypeOK, TypeOK
<1> QED
  BY <1>2, RenamedItem

LEMMA CopyInTxInv ==
    ASSUME TxInv, NEW t \in Tokens, NEW u \in Uid, NEW v \in Uid, NEW n \in NameChoices[v],
           CopyInTx(t, u, v, n)
    PROVE  TxInv'
<1> DEFINE clone == [Constructed(View(t, u)) EXCEPT !.name = n]
<1>1. clone \in Item
  BY CloneType, ChoicesType DEF CopyInTx, TxInv
<1>2. entry' = [entry EXCEPT ![t][v] = Created(clone)] /\ Unused(v)
  BY DEF CopyInTx
<1> HIDE DEF clone
<1> QED
  BY <1>1, <1>2, CreatedType, CreatedHarmless, OneEntry DEF CopyInTx

LEMMA RenameInTxInv ==
    ASSUME TxInv, NEW t \in Tokens, NEW u \in Uid, NEW v \in Uid, NEW n \in NameChoices[v],
           RenameInTx(t, u, v, n)
    PROVE  TxInv'
<1> DEFINE clone == [Constructed(View(t, u)) EXCEPT !.name = n]
           c == Created(clone)
           d == IF u \in listed THEN Deleted(u) ELSE NoEntry
           es == [entry[t] EXCEPT ![v] = c, ![u] = d]
<1>1. clone \in Item
  BY CloneType, ChoicesType DEF RenameInTx, TxInv
<1>2. entry' = [entry EXCEPT ![t][v] = c, ![t][u] = d] /\ Unused(v) /\ Ready
  BY DEF RenameInTx
<1>3. c \in Entry /\ Harmless(t, v, c)
  <2> HIDE DEF clone
  <2> QED
    BY <1>1, <1>2, CreatedType, CreatedHarmless
<1>4. d \in Entry /\ Harmless(t, u, d)
  BY DeletedType, NoEntryType, ForgettingHarmless DEF TxInv, TxTypeOK
<1> HIDE DEF c, d
<1>5. entry[t] \in [Uid -> Entry] /\ open \subseteq Tokens /\ doomed \subseteq Tokens
  BY DEF TxInv, TxTypeOK
<1>6. /\ es \in [Uid -> Entry]
      /\ \A w \in Uid : es[w] = IF w = u THEN d ELSE IF w = v THEN c ELSE entry[t][w]
  BY <1>3, <1>4, <1>5
<1>7. entry' = [entry EXCEPT ![t] = es]
  BY <1>2 DEF TxInv, TxTypeOK
<1> HIDE DEF es
<1>8. \A w \in Uid : es[w] = entry[t][w] \/ Harmless(t, w, es[w])
  BY <1>3, <1>4, <1>6
<1> QED
  BY <1>2, <1>5, <1>6, <1>7, <1>8, TxEdit DEF RenameInTx

LEMMA RemoveInTxInv ==
    ASSUME TxInv, NEW t \in Tokens, NEW u \in Uid, NEW recursive \in BOOLEAN,
           RemoveInTx(t, u, recursive)
    PROVE  TxInv'
<1>1. PICK gone : entry' = [entry EXCEPT ![t] =
                        [v \in Uid |-> IF v \in gone THEN Deleted(v) ELSE @[v]]]
  BY DEF RemoveInTx
<1> DEFINE es == [v \in Uid |-> IF v \in gone THEN Deleted(v) ELSE entry[t][v]]
<1>2. es \in [Uid -> Entry]
  BY DeletedType DEF TxInv, TxTypeOK
<1>3. \A v \in Uid : es[v] = entry[t][v] \/ Harmless(t, v, es[v])
  BY ForgettingHarmless DEF TxInv, TxTypeOK
<1>4. entry' = [entry EXCEPT ![t] = es]
  BY <1>1
<1>5. open' \subseteq Tokens /\ doomed' \subseteq Tokens
  BY DEF RemoveInTx, TxInv, TxTypeOK
<1> HIDE DEF es
<1> QED
  BY <1>2, <1>3, <1>4, <1>5, TxEdit DEF RemoveInTx

\* A transaction that is opened, given up or refused is empty.
LEMMA EmptiedInv ==
    ASSUME TxInv, Ready, NEW t \in Tokens,
           entry' = [entry EXCEPT ![t] = NoEntries],
           open' \in {open \cup {t}, open \ {t}}, doomed' = doomed \ {t},
           UNCHANGED <<vars, mtime, flagged, commit>>
    PROVE  TxInv'
<1>1. NoEntries \in [Uid -> Entry] /\ \A u \in Uid : Harmless(t, u, NoEntries[u])
  BY NoEntryType, ForgettingHarmless DEF NoEntries, TxInv, TxTypeOK
<1>2. open' \subseteq Tokens /\ doomed' \subseteq Tokens
  BY DEF TxInv, TxTypeOK
<1> QED
  BY <1>1, <1>2, TxEdit

-----------------------------------------------------------------------------
(* The store under a commit and under other requests                       *)

Nothing == UNCHANGED <<obj, listed, nameIdx, refIdx, saved, disk, mtime, flagged>>

\* Adding an item to the store, and what is known of it afterwards.
LEMMA InstallDoes ==
    ASSUME TxTypeOK, commit.token \in Tokens, NEW u \in Uid, Install(u),
           UNCHANGED <<unsaved, removing, loading>>
    PROVE  /\ TypeOK' /\ mtime' \in [Uid -> Nat] /\ flagged' \subseteq Uid
           /\ listed' = listed \cup {u}
           /\ \A v \in Uid \ {u} : obj'[v] = obj[v] /\ mtime'[v] = mtime[v]
           /\ obj'[u] = entry[commit.token][u].item
<1> DEFINE it == entry[commit.token][u].item
<1>1. it \in Item /\ it.name \in Names \cup {NoName}
  BY ItemFields, EntryFields DEF TxTypeOK
<1>2. /\ obj' = [obj EXCEPT ![u] = it]
      /\ listed' = listed \cup {u}
      /\ nameIdx' = NamePut(nameIdx, u, it.name)
      /\ refIdx' = RefsPut(refIdx, u, it)
      /\ saved' = saved \cup {u}
      /\ disk' = [disk EXCEPT ![u] = it]
      /\ mtime' = [mtime EXCEPT ![u] = @ + 1]
      /\ flagged' \in {flagged \cup {u}, flagged \ {u}}
  BY DEF Install, Publish, Touched
<1> HIDE DEF it
<1>3. nameIdx' \in [Kinds -> [Names \cup {NoName} -> Uid \cup {Nil}]]
  BY <1>1, <1>2, NameIdxType DEF TxTypeOK, TypeOK
<1>4. refIdx' \in [Attrs -> [Uid \cup {Nil} -> SUBSET Uid]]
  BY <1>2 DEF RefsPut, TxTypeOK, TypeOK
<1>5. TypeOK'
  BY <1>1, <1>2, <1>3, <1>4 DEF TxTypeOK, TypeOK
<1>6. mtime' \in [Uid -> Nat] /\ flagged' \subseteq Uid
  BY <1>2 DEF TxTypeOK
<1> QED
  BY <1>2, <1>5, <1>6 DEF TxTypeOK, TypeOK, it

\* Taking an item out of the store.
LEMMA DeleteDoes ==
    ASSUME TypeOK, NEW u \in Uid, Delete(u), UNCHANGED <<unsaved, removing, loading>>
    PROVE  /\ TypeOK' /\ listed' = listed \ {u}
           /\ \A v \in Uid \ {u} : obj'[v] = obj[v]
<1>1. obj \in [Uid -> Item] /\ obj[u].name \in Names \cup {NoName}
  BY ItemFields DEF TypeOK
<1>2. obj' \in [Uid -> Item] /\ \A v \in Uid \ {u} : obj'[v] = obj[v]
  BY <1>1, BlankType DEF Delete, Forget
<1>3. nameIdx' \in [Kinds -> [Names \cup {NoName} -> Uid \cup {Nil}]]
  BY <1>1, NameIdxType DEF Delete, TypeOK
<1>4. refIdx' \in [Attrs -> [Uid \cup {Nil} -> SUBSET Uid]]
  BY DEF Delete, RefsDrop, TypeOK
<1>5. saved' \subseteq Uid /\ disk' \in [Uid -> Item]
  BY BlankType DEF Delete, TypeOK
<1> QED
  BY <1>2, <1>3, <1>4, <1>5 DEF Delete, TypeOK

LEMMA DiscardDoes ==
    ASSUME TxTypeOK, NEW u \in Uid, Discard(u), UNCHANGED <<unsaved, removing, loading>>
    PROVE  /\ TypeOK' /\ mtime' \in [Uid -> Nat] /\ flagged' \subseteq Uid
           /\ listed' = listed \ {u}
           /\ \A v \in Uid \ {u} : obj'[v] = obj[v] /\ mtime'[v] = mtime[v]
<1>1. TypeOK' /\ listed' = listed \ {u} /\ \A v \in Uid \ {u} : obj'[v] = obj[v]
  BY DeleteDoes DEF TxTypeOK, Discard
<1>2. mtime' \in [Uid -> Nat] /\ \A v \in Uid \ {u} : mtime'[v] = mtime[v]
  BY DEF Discard, TxTypeOK
<1> QED
  BY <1>1, <1>2 DEF Discard, TxTypeOK

\* A request without a transaction changes items that are in the store, and
\* puts no other into it.
LEMMA LiveStep ==
    ASSUME TxInv, Ready, TypeOK', mtime' \in [Uid -> Nat], flagged' \subseteq Uid,
           listed' \subseteq listed, UNCHANGED <<txvars, commit>>
    PROVE  TxInv'
<1>1. UNCHANGED <<open, entry, doomed, commit>> /\ ~Running
  BY DEF txvars, Ready, Running
<1>2. TxTypeOK'
  BY <1>1 DEF TxInv, TxTypeOK
<1>3. GoneHaveBase' /\ NewApart'
  BY <1>1 DEF TxInv, Entries, GoneHaveBase, NewApart, New, Op
<1>4. NewUnlisted'
  BY <1>1 DEF TxInv, Entries, NewUnlisted, New, Op, Committed
<1>5. Commits'
  BY <1>1 DEF Commits, CommitShape, StillUnchanged, DoneSoFar, Running
<1> QED
  BY <1>2, <1>3, <1>4, <1>5 DEF TxInv, Entries

LEMMA LiveSaveInv ==
    ASSUME TxInv, NEW u \in Uid, LiveSave(u)
    PROVE  TxInv'
<1>1. /\ u \in listed /\ Publish(u, obj[u]) /\ unsaved' \in {unsaved, unsaved \ {u}}
      /\ UNCHANGED <<obj, removing, loading>>
  BY DEF LiveSave, Save
<1>2. obj[u] \in Item /\ obj[u].name \in Names \cup {NoName} /\ TypeOK
  BY ItemFields DEF TxInv, TxTypeOK, TypeOK
<1>3. nameIdx' \in [Kinds -> [Names \cup {NoName} -> Uid \cup {Nil}]]
  BY <1>1, <1>2, NameIdxType DEF Publish, TypeOK
<1>4. refIdx' \in [Attrs -> [Uid \cup {Nil} -> SUBSET Uid]]
  BY <1>1, <1>2 DEF Publish, RefsPut, TypeOK
<1>5. TypeOK' /\ listed' = listed
  BY <1>1, <1>2, <1>3, <1>4 DEF Publish, TypeOK
<1>6. mtime' \in [Uid -> Nat] /\ flagged' \subseteq Uid
  BY DEF LiveSave, Touched, TxInv, TxTypeOK
<1> QED
  BY <1>5, <1>6, LiveStep DEF LiveSave

LEMMA LiveRenameInv ==
    ASSUME TxInv, NEW u \in Uid, NEW n \in NameChoices[u], LiveRename(u, n)
    PROVE  TxInv'
<1> DEFINE it == [obj[u] EXCEPT !.name = n]
           popped == NamePop(nameIdx, u, obj[u].name)
<1>1. /\ TypeOK /\ obj[u] \in Item /\ obj[u].name \in Names \cup {NoName} /\ n \in Names
  BY ItemFields, ChoicesType DEF TxInv, TxTypeOK, TypeOK
<1>2. it \in Item
  BY <1>1, RenamedItem
<1>3. popped \in [Kinds -> [Names \cup {NoName} -> Uid \cup {Nil}]]
  BY <1>1, NameIdxType DEF TypeOK
<1>4. /\ obj' = [obj EXCEPT ![u] = it] /\ disk' = [disk EXCEPT ![u] = it]
      /\ nameIdx' = nameIdx \/ nameIdx' = NamePut(popped, u, n)
      /\ UNCHANGED <<listed, unsaved, refIdx, saved, removing, loading>>
  BY DEF LiveRename
<1> HIDE DEF popped, it
<1>5. nameIdx' \in [Kinds -> [Names \cup {NoName} -> Uid \cup {Nil}]]
  <2>1. NamePut(popped, u, n) \in [Kinds -> [Names \cup {NoName} -> Uid \cup {Nil}]]
    BY <1>1, <1>3, NameIdxType
  <2> QED
    BY <1>1, <1>4, <2>1 DEF TypeOK
<1>6. TypeOK'
  <2>1. obj' \in [Uid -> Item] /\ disk' \in [Uid -> Item]
    BY <1>1, <1>2, <1>4 DEF TypeOK
  <2> QED
    BY <1>1, <1>4, <1>5, <2>1 DEF TypeOK
<1>7. mtime' \in [Uid -> Nat] /\ flagged' \subseteq Uid
  BY DEF LiveRename, TxInv, TxTypeOK
<1> QED
  BY <1>6, <1>7, LiveStep DEF LiveRename

LEMMA LiveRemoveInv ==
    ASSUME TxInv, NEW u \in Uid, LiveRemove(u)
    PROVE  TxInv'
<1>1. TypeOK' /\ listed' = listed \ {u}
  BY DeleteDoes DEF LiveRemove, Remove, TxInv, TxTypeOK
<1>2. mtime' \in [Uid -> Nat] /\ flagged' \subseteq Uid
  BY DEF LiveRemove, TxInv, TxTypeOK
<1> QED
  BY <1>1, <1>2, LiveStep DEF LiveRemove

-----------------------------------------------------------------------------
(* The steps of a commit                                                   *)

\* A commit that has ended, well or not: its transaction is empty, and the others
\* have new items that are not in the store.
LEMMA EndStep ==
    ASSUME TxInv, Running, commit' = Idle, Close(commit.token),
           TypeOK', mtime' \in [Uid -> Nat], flagged' \subseteq Uid,
           \A u \in listed' \ listed : Op(commit.token, u) = "keep"
    PROVE  TxInv'
<1> DEFINE t == commit.token
<1>1. t \in Tokens
  BY DEF TxInv, Commits, CommitShape
<1>2. /\ entry' = [entry EXCEPT ![t] = NoEntries] /\ open' \subseteq Tokens /\ doomed' \subseteq Tokens
  BY DEF Close, TxInv, TxTypeOK
<1>3. /\ entry' \in [Tokens -> [Uid -> Entry]]
      /\ entry'[t] = NoEntries /\ \A s \in Tokens \ {t} : entry'[s] = entry[s]
      /\ \A u \in Uid : NoEntries[u] = NoEntry
  BY <1>1, <1>2, NoEntryType DEF TxInv, TxTypeOK, NoEntries
<1>4. TxTypeOK'
  BY <1>2, <1>3 DEF TxInv, TxTypeOK, Idle, Phases
<1>5. GoneHaveBase' /\ NewApart'
  <2>1. \A u \in Uid : entry'[t][u].op = "none"
    BY <1>3, NoEntryType
  <2>2. GoneHaveBase'
    BY <1>1, <1>3, <2>1 DEF TxInv, Entries, GoneHaveBase, Op
  <2>3. NewApart'
    BY <1>1, <1>3, <2>1 DEF TxInv, Entries, NewApart, New, Op
  <2> QED
    BY <2>2, <2>3
<1>6. NewUnlisted'
  <2> SUFFICES ASSUME NEW s \in Tokens, NEW u \in Uid, New(s, u)', u \in listed'
               PROVE  FALSE
    BY DEF NewUnlisted
  <2>1. s # t /\ New(s, u)
    BY <1>3, NoEntryType DEF New, Op
  <2>2. u \notin listed
    BY <2>1 DEF TxInv, Entries, NewUnlisted, Committed
  <2>3. Op(t, u) # "keep"
    BY <1>1, <2>1 DEF TxInv, Entries, NewApart
  <2> QED
    BY <2>2, <2>3
<1>7. Commits'
  BY DEF Commits, CommitShape, StillUnchanged, DoneSoFar, Running
<1> QED
  BY <1>4, <1>5, <1>6, <1>7 DEF TxInv, Entries

\* A commit that goes on, to c, with its entries as they are.
LEMMA GoOn ==
    ASSUME TxInv, Running, NEW c \in [token : {commit.token}, phase : {"add", "index", "remove"},
                                      todo : SUBSET Uid],
           commit' = c, UNCHANGED txvars,
           TypeOK', mtime' \in [Uid -> Nat], flagged' \subseteq Uid,
           \A u \in listed' \ listed : Op(commit.token, u) = "keep" /\ Committed(commit.token, u)',
           \A u \in Uid : Committed(commit.token, u) => Committed(commit.token, u)'
    PROVE  TxTypeOK' /\ Entries'
<1> DEFINE t == commit.token
<1>1. t \in Tokens /\ commit'.token = t /\ UNCHANGED <<open, entry, doomed>>
  BY DEF TxInv, Commits, CommitShape, txvars
<1>2. TxTypeOK'
  BY <1>1 DEF TxInv, TxTypeOK, Phases
<1>3. GoneHaveBase' /\ NewApart'
  BY <1>1 DEF TxInv, Entries, GoneHaveBase, NewApart, New, Op
<1>4. NewUnlisted'
  <2> SUFFICES ASSUME NEW s \in Tokens, NEW u \in Uid, New(s, u), ~Committed(s, u)', u \in listed'
               PROVE  FALSE
    BY <1>1 DEF NewUnlisted, New, Op
  <2>1. ~Committed(s, u)
    BY <1>1 DEF Committed
  <2>2. u \notin listed
    BY <2>1 DEF TxInv, Entries, NewUnlisted
  <2>3. Op(t, u) = "keep" /\ Committed(t, u)'
    BY <2>2
  <2>4. s # t
    BY <2>3
  <2> QED
    BY <1>1, <2>3, <2>4 DEF TxInv, Entries, NewApart
<1> QED
  BY <1>2, <1>3, <1>4 DEF Entries

LEMMA CommitBeginInv ==
    ASSUME TxInv, NEW t \in Tokens, CommitBegin(t)
    PROVE  TxInv'
<1>1. /\ Ready /\ ~Conflict(t)
      /\ commit' = [token |-> t, phase |-> "add", todo |-> Kept(t)]
      /\ UNCHANGED <<vars, open, entry, doomed, mtime, flagged>>
  BY DEF CommitBegin, txvars
<1>2. /\ commit'.token = t /\ commit'.phase = "add" /\ commit'.todo = Kept(t)
      /\ Kept(t) \subseteq Uid /\ UNCHANGED <<obj, listed>>
  BY <1>1 DEF Kept, vars
<1>3. TypeOK'
  BY <1>1 DEF TxInv, TxTypeOK, TypeOK, vars
<1>4. TxTypeOK'
  BY <1>1, <1>2, <1>3 DEF TxInv, TxTypeOK, Phases
<1>5. GoneHaveBase' /\ NewApart'
  BY <1>1 DEF TxInv, Entries, GoneHaveBase, NewApart, New, Op
<1>6. NewUnlisted'
  <2> SUFFICES ASSUME NEW s \in Tokens, NEW u \in Uid, New(s, u) PROVE u \notin listed
    BY <1>1, <1>2 DEF NewUnlisted, New, Op
  <2> QED
    BY <1>1, NewOnes
<1>7. CommitShape'
  BY <1>1, <1>2 DEF CommitShape, Kept
<1>8. StillUnchanged'
  <2> SUFFICES ASSUME NEW u \in Uid, entry[t][u].base PROVE entry[t][u].mtime = mtime[u]
    BY <1>1, <1>2 DEF StillUnchanged, Pending, Gone, Kept
  <2> QED
    BY <1>1 DEF Conflict
<1>9. DoneSoFar'
  BY <1>1, <1>2 DEF DoneSoFar, Added, Removed, Kept
<1> QED
  BY <1>4, <1>5, <1>6, <1>7, <1>8, <1>9 DEF TxInv, Entries, Commits

LEMMA CommitAddInv ==
    ASSUME TxInv, CommitAdd
    PROVE  TxInv'
<1> DEFINE t == commit.token
<1>1. PICK u \in Uid :
        /\ NextToAdd(u) /\ Install(u)
        /\ commit' = [commit EXCEPT !.todo = @ \ {u}]
        /\ UNCHANGED <<unsaved, removing, loading, txvars>>
  BY DEF CommitAdd
<1>2. commit.phase = "add" /\ u \in commit.todo /\ Running
  BY <1>1 DEF NextToAdd, Running, Idle
<1>3. /\ t \in Tokens /\ commit.todo \subseteq Kept(t) /\ commit.todo \subseteq Uid
      /\ TxTypeOK /\ commit \in [token: Tokens \cup {NoToken}, phase: Phases, todo: SUBSET Uid]
  BY <1>2 DEF TxInv, TxTypeOK, Commits, CommitShape
<1>4. /\ commit'.token = t /\ commit'.phase = "add" /\ commit'.todo = commit.todo \ {u}
      /\ commit' \in [token : {t}, phase : {"add", "index", "remove"}, todo : SUBSET Uid]
      /\ entry' = entry
  BY <1>1, <1>2, <1>3 DEF txvars
<1>5. /\ TypeOK' /\ mtime' \in [Uid -> Nat] /\ flagged' \subseteq Uid
      /\ listed' = listed \cup {u}
      /\ \A v \in Uid \ {u} : obj'[v] = obj[v] /\ mtime'[v] = mtime[v]
      /\ obj'[u] = entry[t][u].item
  BY <1>1, <1>3, InstallDoes
<1>6. Op(t, u) = "keep"
  BY <1>2, <1>3 DEF Kept, Op
<1>7. TxTypeOK' /\ Entries'
  <2>1. \A v \in Uid : Committed(t, v) => Committed(t, v)'
    BY <1>2, <1>4 DEF Committed
  <2>2. Committed(t, u)'
    BY <1>4 DEF Committed
  <2> QED
    BY <1>1, <1>2, <1>4, <1>5, <1>6, <2>1, <2>2, GoOn
<1>8. CommitShape'
  BY <1>3, <1>4 DEF CommitShape, Kept
<1>9. StillUnchanged'
  <2>1. Pending' \subseteq Pending \ {u} /\ Pending \subseteq Uid
    BY <1>2, <1>3, <1>4, <1>6 DEF Pending, Gone, Op
  <2> QED
    BY <1>2, <1>4, <1>5, <2>1 DEF TxInv, Commits, StillUnchanged
<1>10. DoneSoFar'
  <2>1. Added' \subseteq Added \cup {u} /\ Added \subseteq Uid /\ Removed' = {}
    BY <1>2, <1>4 DEF Added, Removed, Kept
  <2> QED
    BY <1>2, <1>4, <1>5, <2>1 DEF TxInv, Commits, DoneSoFar
<1> QED
  BY <1>7, <1>8, <1>9, <1>10 DEF TxInv, Commits

LEMMA CommitAddFailsInv ==
    ASSUME TxInv, CommitAddFails
    PROVE  TxInv'
<1>1. PICK u \in Uid :
        /\ NextToAdd(u) /\ (Nothing \/ Install(u))
        /\ commit' = Idle /\ Close(commit.token)
        /\ UNCHANGED <<unsaved, removing, loading>>
  BY DEF CommitAddFails, Nothing
<1>2. commit.phase = "add" /\ u \in commit.todo /\ Running
  BY <1>1 DEF NextToAdd, Running, Idle
<1>3. commit.token \in Tokens /\ Op(commit.token, u) = "keep" /\ TxTypeOK
  BY <1>2 DEF TxInv, Commits, CommitShape, Kept, Op
<1>4. CASE Nothing
  BY <1>1, <1>2, <1>4, EndStep DEF Nothing, TxInv, TxTypeOK, TypeOK
<1>5. CASE Install(u)
  BY <1>1, <1>2, <1>3, <1>5, InstallDoes, EndStep
<1> QED
  BY <1>1, <1>4, <1>5

\* A step that leaves the items alone, and what is done and what is not.
LEMMA NextPhaseInv ==
    ASSUME TxInv, Running, NEW c \in [token : {commit.token}, phase : {"index", "remove"},
                                      todo : SUBSET Uid],
           commit' = c, UNCHANGED <<obj, listed, mtime, txvars>>, TypeOK', flagged' \subseteq Uid,
           Pending' \subseteq Pending, Added' \subseteq Added, Removed' \subseteq Removed,
           c.phase = "remove" => c.todo \subseteq Gone(commit.token)
    PROVE  TxInv'
<1> DEFINE t == commit.token
<1>1. commit'.token = t /\ commit'.phase # "add" /\ t \in Tokens /\ entry' = entry
  BY DEF TxInv, Commits, CommitShape, txvars
<1>2. \A u \in Uid : Committed(t, u)'
  BY <1>1 DEF Committed
<1>3. TxTypeOK' /\ Entries'
  BY <1>2, GoOn DEF TxInv, TxTypeOK
<1>4. CommitShape'
  BY <1>1 DEF CommitShape, Gone
<1>5. StillUnchanged' /\ DoneSoFar'
  BY <1>1 DEF TxInv, Commits, StillUnchanged, DoneSoFar
<1> QED
  BY <1>3, <1>4, <1>5 DEF TxInv, Commits

LEMMA CommitAddedInv ==
    ASSUME TxInv, CommitAdded
    PROVE  TxInv'
<1> DEFINE t == commit.token
           c == [token |-> t, phase |-> "index", todo |-> Kept(t)]
<1>1. /\ commit.phase = "add" /\ commit.todo = {} /\ Running
      /\ commit' = [commit EXCEPT !.phase = "index", !.todo = Kept(t)]
      /\ UNCHANGED <<obj, listed, mtime, txvars, flagged>> /\ UNCHANGED vars /\ entry' = entry
  BY DEF CommitAdded, Running, Idle, vars, txvars
<1>2. commit' = c /\ c \in [token : {t}, phase : {"index", "remove"}, todo : SUBSET Uid]
  BY <1>1 DEF TxInv, TxTypeOK, Kept
<1>3. commit'.phase = "index" /\ commit'.token = t /\ c.phase # "remove"
  BY <1>2
<1>4. TypeOK' /\ flagged' \subseteq Uid
  BY <1>1 DEF TxInv, TxTypeOK, TypeOK, vars
<1>5. Pending' \subseteq Pending /\ Added' \subseteq Added /\ Removed' \subseteq Removed
  BY <1>1, <1>3 DEF Pending, Added, Removed, Gone, Kept
<1> HIDE DEF c
<1> QED
  BY <1>1, <1>2, <1>3, <1>4, <1>5, NextPhaseInv

LEMMA CommitIndexedInv ==
    ASSUME TxInv, CommitIndexed
    PROVE  TxInv'
<1> DEFINE t == commit.token
           c == [token |-> t, phase |-> "remove", todo |-> Gone(t)]
<1>1. /\ commit.phase = "index" /\ commit.todo = {} /\ Running
      /\ commit' = [commit EXCEPT !.phase = "remove", !.todo = Gone(t)]
      /\ UNCHANGED <<obj, listed, mtime, txvars, flagged>> /\ UNCHANGED vars /\ entry' = entry
  BY DEF CommitIndexed, Running, Idle, vars, txvars
<1>2. commit' = c /\ c \in [token : {t}, phase : {"index", "remove"}, todo : SUBSET Uid]
  BY <1>1 DEF TxInv, TxTypeOK, Gone
<1>3. commit'.phase = "remove" /\ commit'.token = t /\ commit'.todo = Gone(t) /\ c.todo = Gone(t)
  BY <1>2
<1>4. TypeOK' /\ flagged' \subseteq Uid
  BY <1>1 DEF TxInv, TxTypeOK, TypeOK, vars
<1>5. Pending' \subseteq Pending /\ Added' \subseteq Added /\ Removed' \subseteq Removed
  BY <1>1, <1>3 DEF Pending, Added, Removed, Gone, Kept
<1> HIDE DEF c
<1> QED
  BY <1>1, <1>2, <1>3, <1>4, <1>5, NextPhaseInv

\* The replay of the changes on the indexes keeps their types.
LEMMA CommitIndexInv ==
    ASSUME TxInv, CommitIndex
    PROVE  TxInv'
<1> DEFINE t == commit.token
<1>1. PICK u \in commit.todo :
        /\ commit.phase = "index"
        /\ flagged' = flagged \ {u}
        /\ commit' = [commit EXCEPT !.todo = @ \ {u}]
        /\ UNCHANGED <<obj, listed, unsaved, files, removing, loading, txvars, mtime>>
        /\ LET log == entry[commit.token][u].log
           IN  /\ refIdx' = [a \in Attrs |-> [v \in Uid \cup {Nil} |->
                     IF Concerns(log, a, v) = {} THEN refIdx[a][v]
                     ELSE IF Last(log, a, v).new = v THEN refIdx[a][v] \cup {u}
                     ELSE refIdx[a][v] \ {u}]]
               /\ nameIdx' = [nameIdx EXCEPT ![Kind(u)] = [n \in Names \cup {NoName} |->
                     IF Concerns(log, "name", n) = {} THEN @[n]
                     ELSE IF Last(log, "name", n).new = n THEN u ELSE Nil]]
  BY DEF CommitIndex
<1>2. /\ TypeOK /\ commit \in [token: Tokens \cup {NoToken}, phase: Phases, todo: SUBSET Uid]
      /\ u \in Uid /\ Running /\ flagged' \subseteq Uid
  BY <1>1 DEF TxInv, TxTypeOK, Running, Idle
<1>3. refIdx' \in [Attrs -> [Uid \cup {Nil} -> SUBSET Uid]]
  <2> DEFINE log == entry[commit.token][u].log
             new(a, v) == IF Concerns(log, a, v) = {} THEN refIdx[a][v]
                          ELSE IF Last(log, a, v).new = v THEN refIdx[a][v] \cup {u}
                          ELSE refIdx[a][v] \ {u}
  <2>1. refIdx' = [a \in Attrs |-> [v \in Uid \cup {Nil} |-> new(a, v)]]
    BY <1>1
  <2>2. \A a \in Attrs, v \in Uid \cup {Nil} : new(a, v) \in SUBSET Uid
    BY <1>2 DEF TypeOK
  <2> HIDE DEF new
  <2> QED
    BY <2>1, <2>2
<1>4. nameIdx' \in [Kinds -> [Names \cup {NoName} -> Uid \cup {Nil}]]
  <2> DEFINE log == entry[commit.token][u].log
             new(n) == IF Concerns(log, "name", n) = {} THEN nameIdx[Kind(u)][n]
                       ELSE IF Last(log, "name", n).new = n THEN u ELSE Nil
  <2>1. nameIdx' = [nameIdx EXCEPT ![Kind(u)] = [n \in Names \cup {NoName} |-> new(n)]]
    BY <1>1
  <2>2. \A n \in Names \cup {NoName} : new(n) \in Uid \cup {Nil}
    BY <1>2, KindType DEF TypeOK
  <2> HIDE DEF new
  <2>3. [n \in Names \cup {NoName} |-> new(n)] \in [Names \cup {NoName} -> Uid \cup {Nil}]
    BY <2>2
  <2> QED
    BY <1>2, <2>1, <2>3 DEF TypeOK
<1>5. TypeOK'
  BY <1>1, <1>2, <1>3, <1>4 DEF TypeOK, files
<1>6. /\ commit' \in [token : {t}, phase : {"index", "remove"}, todo : SUBSET Uid]
      /\ commit'.phase = "index" /\ commit'.token = t
  BY <1>1, <1>2
<1>7. Pending' \subseteq Pending /\ Added' \subseteq Added /\ Removed' \subseteq Removed
  BY <1>1, <1>6 DEF Pending, Added, Removed, Gone, Kept, txvars
<1>8. UNCHANGED <<obj, listed, mtime, txvars>>
  BY <1>1
<1> QED
  BY <1>2, <1>5, <1>6, <1>7, <1>8, NextPhaseInv

LEMMA CommitRemoveInv ==
    ASSUME TxInv, CommitRemove
    PROVE  TxInv'
<1> DEFINE t == commit.token
<1>1. PICK u \in Uid :
        /\ NextToRemove(u) /\ Discard(u)
        /\ commit' = [commit EXCEPT !.todo = @ \ {u}]
        /\ UNCHANGED <<unsaved, removing, loading, txvars>>
  BY DEF CommitRemove
<1>2. commit.phase = "remove" /\ u \in commit.todo /\ Running
  BY <1>1 DEF NextToRemove, Running, Idle
<1>3. /\ t \in Tokens /\ commit.todo \subseteq Gone(t) /\ Gone(t) \subseteq Uid /\ TxTypeOK
      /\ commit \in [token: Tokens \cup {NoToken}, phase: Phases, todo: SUBSET Uid]
  BY <1>2 DEF TxInv, TxTypeOK, Commits, CommitShape, Gone
<1>4. /\ commit'.token = t /\ commit'.phase = "remove" /\ commit'.todo = commit.todo \ {u}
      /\ commit' \in [token : {t}, phase : {"add", "index", "remove"}, todo : SUBSET Uid]
      /\ entry' = entry
  BY <1>1, <1>2, <1>3 DEF txvars
<1>5. /\ TypeOK' /\ mtime' \in [Uid -> Nat] /\ flagged' \subseteq Uid
      /\ listed' = listed \ {u}
      /\ \A v \in Uid \ {u} : obj'[v] = obj[v] /\ mtime'[v] = mtime[v]
  BY <1>1, <1>3, DiscardDoes
<1>6. TxTypeOK' /\ Entries'
  <2>1. \A v \in Uid : Committed(t, v)'
    BY <1>4 DEF Committed
  <2> QED
    BY <1>1, <1>2, <1>4, <1>5, <2>1, GoOn
<1>7. CommitShape'
  BY <1>3, <1>4 DEF CommitShape, Gone
<1>8. StillUnchanged'
  BY <1>2, <1>3, <1>4, <1>5 DEF TxInv, Commits, StillUnchanged, Pending
<1>9. DoneSoFar'
  <2>1. u \notin Kept(t) /\ Kept(t) \subseteq Uid
    BY <1>2, <1>3 DEF Kept, Gone
  <2>2. Added' = Kept(t) /\ Added = Kept(t) /\ Removed' \subseteq Removed \cup {u}
    BY <1>2, <1>4 DEF Added, Removed, Kept, Gone
  <2>3. /\ \A v \in Kept(t) : v \in listed /\ obj[v] = entry[t][v].item
        /\ \A v \in Removed : v \notin listed
    BY <1>2, <2>2 DEF TxInv, Commits, DoneSoFar
  <2> QED
    BY <1>4, <1>5, <2>1, <2>2, <2>3 DEF DoneSoFar
<1> QED
  BY <1>6, <1>7, <1>8, <1>9 DEF TxInv, Commits

LEMMA CommitRemoveFailsInv ==
    ASSUME TxInv, CommitRemoveFails
    PROVE  TxInv'
<1>1. PICK u \in Uid :
        /\ NextToRemove(u) /\ (Nothing \/ Discard(u))
        /\ commit' = Idle /\ Close(commit.token)
        /\ UNCHANGED <<unsaved, removing, loading>>
  BY DEF CommitRemoveFails, Nothing
<1>2. Running
  BY <1>1 DEF NextToRemove, Running, Idle
<1>3. CASE Nothing
  BY <1>1, <1>2, <1>3, EndStep DEF Nothing, TxInv, TxTypeOK, TypeOK
<1>4. CASE Discard(u)
  <2>1. TxTypeOK
    BY DEF TxInv
  <2>2. /\ TypeOK' /\ mtime' \in [Uid -> Nat] /\ flagged' \subseteq Uid
        /\ listed' = listed \ {u}
    BY <1>1, <1>4, <2>1, DiscardDoes
  <2> QED
    BY <1>1, <1>2, <2>2, EndStep
<1> QED
  BY <1>1, <1>3, <1>4

LEMMA CommitDoneInv ==
    ASSUME TxInv, CommitDone
    PROVE  TxInv'
<1>1. Running /\ UNCHANGED <<vars, mtime, flagged>>
  BY DEF CommitDone, Running, Idle
<1>2. TypeOK' /\ mtime' \in [Uid -> Nat] /\ flagged' \subseteq Uid /\ listed' = listed
  BY <1>1 DEF TxInv, TxTypeOK, TypeOK, vars
<1> QED
  BY <1>1, <1>2, EndStep DEF CommitDone

-----------------------------------------------------------------------------
(* The invariant                                                           *)

LEMMA InitTxInv == TInit => TxInv
<1> SUFFICES ASSUME TInit PROVE TxInv
  OBVIOUS
<1>1. TypeOK
  <2>1. nameIdx \in [Kinds -> [Names \cup {NoName} -> Uid \cup {Nil}]]
    <3> DEFINE hit(k, n) == IF \E u \in InitialItems : Kind(u) = k /\ InitialObj[u].name = n
                            THEN CHOOSE u \in InitialItems : Kind(u) = k /\ InitialObj[u].name = n
                            ELSE Nil
    <3>1. \A k \in Kinds, n \in Names \cup {NoName} : hit(k, n) \in Uid \cup {Nil}
      BY TransactionAssumption
    <3>2. nameIdx = [k \in Kinds |-> [n \in Names \cup {NoName} |-> hit(k, n)]]
      BY DEF TInit
    <3> HIDE DEF hit
    <3> QED
      BY <3>1, <3>2
  <2>2. refIdx \in [Attrs -> [Uid \cup {Nil} -> SUBSET Uid]]
    BY TransactionAssumption DEF TInit
  <2> QED
    BY <2>1, <2>2, TransactionAssumption DEF TInit, TypeOK
<1>2. /\ entry \in [Tokens -> [Uid -> Entry]]
      /\ \A t \in Tokens, u \in Uid : entry[t][u] = NoEntry
  BY NoEntryType DEF TInit, NoEntries
<1>3. TxTypeOK
  BY <1>1, <1>2 DEF TInit, TxTypeOK, Idle, Phases
<1>4. Entries
  BY <1>2, NoEntryType DEF Entries, GoneHaveBase, NewApart, NewUnlisted, New, Op
<1>5. Commits
  BY DEF TInit, Commits, CommitShape, StillUnchanged, DoneSoFar, Running
<1> QED
  BY <1>3, <1>4, <1>5 DEF TxInv

LEMMA StutterTxInv == ASSUME TxInv, UNCHANGED tvars PROVE TxInv'
<1>1. /\ UNCHANGED <<obj, listed, unsaved, nameIdx, refIdx, saved, disk, removing, loading>>
      /\ UNCHANGED <<open, entry, doomed, mtime, flagged, commit>>
  BY DEF tvars, vars, txvars
<1>2. TxTypeOK'
  BY <1>1 DEF TxInv, TxTypeOK, TypeOK
<1>3. Entries'
  BY <1>1 DEF TxInv, Entries, GoneHaveBase, NewApart, NewUnlisted, New, Op, Committed
<1>4. Commits'
  BY <1>1 DEF TxInv, Commits, CommitShape, StillUnchanged, DoneSoFar, Running, Pending, Added,
           Removed, Kept, Gone
<1> QED
  BY <1>2, <1>3, <1>4 DEF TxInv

LEMMA TxRequestInv == ASSUME TxInv, TxRequest PROVE TxInv'
<1>1. PICK t \in Tokens :
        \/ Begin(t) \/ Abort(t)
        \/ \E u \in Uid :
              \/ NewInTx(t, u)
              \/ \E n \in NameChoices[u] : NameInTx(t, u, n)
              \/ \E r \in RefChoices[u] : RefInTx(t, u, r[1], r[2])
              \/ \E v \in Uid : \E n \in NameChoices[v] : CopyInTx(t, u, v, n)
              \/ \E v \in Uid : \E n \in NameChoices[v] : RenameInTx(t, u, v, n)
              \/ \E recursive \in BOOLEAN : RemoveInTx(t, u, recursive)
        \/ CommitRefused(t)
        \/ CommitBegin(t)
  BY DEF TxRequest
<1>2. CASE Begin(t)
  BY <1>2, EmptiedInv DEF Begin
<1>3. CASE Abort(t)
  BY <1>3, EmptiedInv DEF Abort, Close
<1>4. CASE CommitRefused(t)
  BY <1>4, EmptiedInv DEF CommitRefused, Close
<1>5. CASE CommitBegin(t)
  BY <1>5, CommitBeginInv
<1>6. CASE \E u \in Uid : NewInTx(t, u) \/ \E n \in NameChoices[u] : NameInTx(t, u, n)
  BY <1>6, NewInTxInv, NameInTxInv
<1>7. CASE \E u \in Uid : \E r \in RefChoices[u] : RefInTx(t, u, r[1], r[2])
  BY <1>7, RefInTxInv
<1>8. CASE \E u, v \in Uid : \E n \in NameChoices[v] : CopyInTx(t, u, v, n)
  BY <1>8, CopyInTxInv
<1>9. CASE \E u, v \in Uid : \E n \in NameChoices[v] : RenameInTx(t, u, v, n)
  BY <1>9, RenameInTxInv
<1>10. CASE \E u \in Uid, recursive \in BOOLEAN : RemoveInTx(t, u, recursive)
  BY <1>10, RemoveInTxInv
<1> QED
  BY <1>1, <1>2, <1>3, <1>4, <1>5, <1>6, <1>7, <1>8, <1>9, <1>10

LEMMA NextTxInv == TxInv /\ [TNext]_tvars => TxInv'
<1> SUFFICES ASSUME TxInv, [TNext]_tvars PROVE TxInv'
  OBVIOUS
<1>1. CASE UNCHANGED tvars
  BY <1>1, StutterTxInv
<1>2. CASE TxRequest
  BY <1>2, TxRequestInv
<1>3. CASE LiveRequest
  BY <1>3, LiveSaveInv, LiveRenameInv, LiveRemoveInv DEF LiveRequest
<1>4. CASE CommitStep
  BY <1>4, CommitAddInv, CommitAddFailsInv, CommitAddedInv, CommitIndexInv, CommitIndexedInv,
     CommitRemoveInv, CommitRemoveFailsInv, CommitDoneInv DEF CommitStep
<1> QED
  BY <1>1, <1>2, <1>3, <1>4 DEF TNext

LEMMA AlwaysTxInv == TSpec => []TxInv
BY InitTxInv, NextTxInv, PTL DEF TSpec

\* Types, through every request, transaction, commit and its failures (remote.py,
\* transaction_begin, _commit and _abort; api.add_remove_items).
THEOREM TransactionsTyped == TSpec => []TxTypeOK
<1>1. TxInv => TxTypeOK
  BY DEF TxInv
<1> QED
  BY <1>1, AlwaysTxInv, PTL

-----------------------------------------------------------------------------
(* What a commit overwrites                                                *)

\* A request of a transaction runs only while no commit does.
LEMMA RequestsNeedReady == TxRequest => Ready
<1>1. ASSUME NEW t \in Tokens, Begin(t) \/ Abort(t) \/ CommitRefused(t) \/ CommitBegin(t)
      PROVE  Ready
  BY <1>1 DEF Begin, Abort, CommitRefused, CommitBegin
<1>2. ASSUME NEW t, NEW u, NEW recursive, RemoveInTx(t, u, recursive)
      PROVE  Ready
  BY <1>2, Zenon DEF RemoveInTx
<1>3. ASSUME NEW t, NEW u, NEW n, NameInTx(t, u, n)  PROVE  Ready
  BY <1>3, Zenon DEF NameInTx
<1>4. ASSUME NEW t, NEW u, NEW p, NEW q, RefInTx(t, u, p, q)  PROVE  Ready
  BY <1>4, Zenon DEF RefInTx
<1>5. ASSUME NEW t, NEW u, NEW v, NEW n, CopyInTx(t, u, v, n)  PROVE  Ready
  BY <1>5, Zenon DEF CopyInTx
<1>6. ASSUME NEW t, NEW u, NEW v, NEW n, RenameInTx(t, u, v, n)  PROVE  Ready
  BY <1>6, Zenon DEF RenameInTx
<1>7. ASSUME NEW t, NEW u, NewInTx(t, u)  PROVE  Ready
  BY <1>7, Zenon DEF NewInTx
<1> QED
  BY <1>1, <1>2, <1>3, <1>4, <1>5, <1>6, <1>7, Zenon DEF TxRequest

\* Only one item of the store changes its time or is removed in a step of a commit.
LEMMA CommitTouches ==
    ASSUME TxInv, [TNext]_tvars, Running, NEW u \in listed, u \notin listed' \/ mtime'[u] # mtime[u]
    PROVE  /\ commit.phase \in {"add", "remove"} /\ u \in commit.todo
<1>1. listed \subseteq Uid /\ TxTypeOK /\ commit.token \in Tokens
  BY DEF TxInv, TxTypeOK, TypeOK, Commits, CommitShape
<1>2. ~Ready
  BY DEF Ready, Running
<1>3. CASE CommitAdd \/ CommitAddFails
  <2>1. PICK v \in Uid : NextToAdd(v) /\ (Nothing \/ Install(v))
                         /\ UNCHANGED <<unsaved, removing, loading>>
    BY <1>3 DEF CommitAdd, CommitAddFails, Nothing
  <2>2. ~Nothing
    BY DEF Nothing
  <2>3. u = v
    BY <1>1, <2>1, <2>2, InstallDoes
  <2> QED
    BY <2>1, <2>3 DEF NextToAdd
<1>4. CASE CommitRemove \/ CommitRemoveFails
  <2>1. PICK v \in Uid : NextToRemove(v) /\ (Nothing \/ Discard(v))
                         /\ UNCHANGED <<unsaved, removing, loading>>
    BY <1>4 DEF CommitRemove, CommitRemoveFails, Nothing
  <2>2. ~Nothing
    BY DEF Nothing
  <2>3. u = v
    BY <1>1, <2>1, <2>2, DiscardDoes
  <2> QED
    BY <2>1, <2>3 DEF NextToRemove
<1>5. ~TxRequest
  BY <1>2, RequestsNeedReady
<1>6. ~LiveRequest
  BY <1>2 DEF LiveRequest, LiveSave, LiveRename, LiveRemove
<1>7. ~(UNCHANGED tvars)
  BY DEF tvars, vars
<1>8. ~(CommitAdded \/ CommitIndex \/ CommitIndexed \/ CommitDone)
  BY DEF CommitAdded, CommitIndex, CommitIndexed, CommitDone, vars
<1> QED
  BY <1>3, <1>4, <1>5, <1>6, <1>7, <1>8 DEF TNext, CommitStep

\* The check of the modification times (api.add_remove_items) is made once, before the
\* items are added one by one: what is overwritten is still what was compared.
THEOREM NoSaveLost == TSpec => NoLostSave
<1>1. ASSUME TxInv, [TNext]_tvars, NEW u \in listed,
             commit # Idle, u \notin listed' \/ mtime'[u] # mtime[u]
      PROVE  LET e == entry[commit.token][u] IN e.base /\ e.mtime = mtime[u]
  <2> DEFINE t == commit.token
  <2>1. Running /\ commit.phase \in {"add", "remove"} /\ u \in commit.todo
    BY <1>1, CommitTouches DEF Running
  <2>2. t \in Tokens /\ u \in Uid /\ u \in Pending
    BY <1>1, <2>1 DEF TxInv, TxTypeOK, TypeOK, Commits, CommitShape, Pending
  <2>3. entry[t][u].base => entry[t][u].mtime = mtime[u]
    BY <1>1, <2>1, <2>2 DEF TxInv, Commits, StillUnchanged
  <2>4. entry[t][u].base
    <3>1. CASE commit.phase = "add"
      <4>1. Op(t, u) = "keep" /\ ~Committed(t, u)
        BY <1>1, <2>1, <3>1 DEF TxInv, Commits, CommitShape, Kept, Op, Committed
      <4> QED
        BY <1>1, <2>2, <4>1 DEF TxInv, Entries, NewUnlisted, New
    <3>2. CASE commit.phase = "remove"
      BY <1>1, <2>1, <2>2, <3>2 DEF TxInv, Entries, GoneHaveBase, Commits, CommitShape, Gone, Op
    <3> QED
      BY <2>1, <3>1, <3>2
  <2> QED
    BY <2>3, <2>4
<1>2. TxInv /\ [TNext]_tvars =>
        [\A u \in listed :
           commit # Idle /\ (u \notin listed' \/ mtime'[u] # mtime[u]) =>
               LET e == entry[commit.token][u]
               IN  e.base /\ e.mtime = mtime[u]]_tvars
  BY <1>1
<1> QED
  BY <1>2, AlwaysTxInv, PTL DEF TSpec, NoLostSave

\* transaction_commit that returns True has done all that the transaction holds.
THEOREM CommitsAreComplete == TSpec => CommitComplete
<1>1. ASSUME TxInv, [TNext]_tvars, commit.phase = "remove", commit.todo = {}, commit' = Idle
      PROVE  /\ \A u \in Kept(commit.token) :
                   u \in listed' /\ obj'[u] = entry[commit.token][u].item
             /\ \A u \in Gone(commit.token) : u \notin listed'
  <2>1. Running /\ ~Ready
    BY <1>1 DEF Running, Ready, Idle
  <2>2. /\ \A u \in Kept(commit.token) : u \in listed /\ obj[u] = entry[commit.token][u].item
        /\ \A u \in Gone(commit.token) : u \notin listed
    BY <1>1, <2>1 DEF TxInv, Commits, DoneSoFar, Added, Removed
  <2>3. ~TxRequest
    BY <2>1, RequestsNeedReady
  <2>4. ~LiveRequest
    BY <2>1 DEF LiveRequest, LiveSave, LiveRename, LiveRemove
  <2>5. ~(UNCHANGED tvars)
    BY <1>1, <2>1 DEF tvars, Running
  <2>6. ~(CommitAdd \/ CommitAddFails \/ CommitRemove \/ CommitRemoveFails)
    BY <1>1 DEF CommitAdd, CommitAddFails, CommitRemove, CommitRemoveFails, NextToAdd, NextToRemove
  <2>7. ~(CommitAdded \/ CommitIndex \/ CommitIndexed)
    BY <1>1 DEF CommitAdded, CommitIndex, CommitIndexed
  <2>8. UNCHANGED <<obj, listed>>
    BY <1>1, <2>3, <2>4, <2>5, <2>6, <2>7 DEF TNext, CommitStep, CommitDone, vars
  <2> QED
    BY <2>2, <2>8
<1>2. TxInv /\ [TNext]_tvars =>
        [commit.phase = "remove" /\ commit.todo = {} /\ commit' = Idle =>
          /\ \A u \in Kept(commit.token) :
                u \in listed' /\ obj'[u] = entry[commit.token][u].item
          /\ \A u \in Gone(commit.token) : u \notin listed']_tvars
  BY <1>1
<1> QED
  BY <1>2, AlwaysTxInv, PTL DEF TSpec, CommitComplete
=============================================================================
