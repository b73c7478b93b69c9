------------------------------ MODULE TftpSync ------------------------------
(***************************************************************************)
(* The boot files under the TFTP root: the full sync that rebuilds them,   *)
(* the lite sync of one request that saves or removes an item, and the     *)
(* generator that answers a TFTP client without any file.  The full sync   *)
(* holds a file lock against other syncs, but not against lite syncs, and  *)
(* both read live items: a file is rendered in one step and written in a   *)
(* later one.                                                              *)
(* One interface per system; its name in the tree is its MAC address.      *)
(***************************************************************************)
EXTENDS Naturals, FiniteSets

CONSTANTS
    Hosts,       \* the systems
    Profs,       \* the profiles
    Menus,       \* the menus below the top level
    Macs,        \* the addresses an interface may have
    NoFile,      \* no such file; also: no interface, no menu
    ProfOf,      \* [Hosts -> Profs]
    MenuOf,      \* [Profs -> Menus \cup {NoFile}]
    FirstNic,    \* [Hosts -> Macs \cup {NoFile}] at the start
    Distro,      \* the distro of every profile
    MaxWork      \* bound on the edits, saves, removals and moves of a behaviour

\* No two interfaces have the same address; the absent file is no content.
ASSUME TftpAssumption ==
    /\ ProfOf \in [Hosts -> Profs] /\ Hosts \cap Profs = {}
    /\ FirstNic \in [Hosts -> Macs \cup {NoFile}]
    /\ \A h, k \in Hosts : h # k /\ FirstNic[h] = FirstNic[k] => FirstNic[h] = NoFile
    /\ NoFile \notin Hosts \cup Macs
    /\ NoFile \notin [host : Hosts, options : [own : BOOLEAN, inherited : BOOLEAN]]

\* What other items and find() refer to an item by, and what it is called.
Uid(i) == <<"uid", i>>
NameOf(i) == <<"name", i>>

VARIABLES
    hosts,       \* the systems that are listed
    nic,         \* [Hosts -> Macs \cup {NoFile}]  the interface of a system
    loaders,     \* [Hosts -> SUBSET {"pxe", "grub"}]
    kopts,       \* [Hosts \cup Profs -> BOOLEAN]  an attribute that is rendered
    moved,       \* the kernel of the distro has been moved away
    tree,        \* the files: pxe and grub by MAC, link by system, menu, images
    full,        \* the full sync: where it is, the systems left, what it rendered
    lite         \* the request: where it is, the systems left, what it rendered
fitems == <<hosts, nic, loaders, kopts, moved>>

VARIABLES        \* history
    work,        \* operations so far, at most MaxWork
    fresh,       \* the last operation was a full sync that ran alone: no, done or failed
    edited,      \* systems edited and not saved since
    raced        \* systems whose files a full sync may have crossed
fvars == <<fitems, tree, full, lite, work, fresh, edited, raced>>

Formats == {"pxe", "grub"}
NoPlan == [host |-> NoFile]
\* then: what a request does after its systems; the full sync leaves it empty.
Still == [at |-> "idle", todo |-> {}, plan |-> NoPlan, then |-> {}]

\* What a boot file of a system is rendered from: its name, and the options that
\* blender() collects from it and from its profile.
KernelOptions(h) == [own |-> kopts[h], inherited |-> kopts[ProfOf[h]]]
Content(h) == [host |-> h, options |-> KernelOptions(h)]

\* find_profile(menu=...) for one level of the menu, by the name of the menu.
ProfilesIn(m) ==
    {p \in Profs : IF m = NoFile THEN MenuOf[p] = NoFile
                   ELSE MenuOf[p] # NoFile /\ Uid(MenuOf[p]) = NameOf(m)}
MenuLevel(m) == {<<m, p, kopts[p]>> : p \in ProfilesIn(m)}
MenuTree == MenuLevel(NoFile) \cup UNION {MenuLevel(m) : m \in Menus}

EmptyTree ==
    [pxe |-> [m \in Macs |-> NoFile], grub |-> [m \in Macs |-> NoFile],
     link |-> [h \in Hosts |-> NoFile], menu |-> NoFile, images |-> FALSE]

\* The start of the daemon: items loaded from disk, nothing known of the tree.
FInit ==
    /\ hosts = Hosts /\ moved = FALSE
    /\ nic = FirstNic
    /\ loaders = [h \in Hosts |-> Formats]
    /\ kopts = [i \in Hosts \cup Profs |-> FALSE]
    /\ tree = EmptyTree
    /\ full = Still /\ lite = Still
    /\ work = 0 /\ fresh = "no" /\ edited = {} /\ raced = Hosts

Works == work < MaxWork /\ work' = work + 1
Syncing == full.at # "idle"
Touch(h) == raced' = IF Syncing THEN raced \cup {h} ELSE raced

\* The generator: the file of a path, for the first system that knows the path.
GenerateSystemFile(f, m) ==
    LET knows == {h \in hosts : nic[h] = m} IN
    IF knows = {} THEN NoFile
    ELSE LET h == CHOOSE k \in knows : TRUE IN
         IF f \in loaders[h] THEN Content(h) ELSE NoFile
\* What a TFTP client is sent for a path, and what the file at the path holds.
Paths == {"menu"} \cup (Formats \X Macs)
Serve(q) == IF q = "menu" THEN MenuTree ELSE GenerateSystemFile(q[1], q[2])
File(q) == IF q = "menu" THEN tree.menu ELSE tree[q[1]][q[2]]

\* write_all_system_files, first half: what is read of the system.
Plan(h) == [host |-> h, mac |-> nic[h], loaders |-> loaders[h], content |-> Content(h)]
\* A write that forgets to take away the link of a system without GRUB.
WriteSystemFilesKeepLink(t, p) ==
    LET Put(f) == IF p.mac = NoFile THEN t[f]
                  ELSE [t[f] EXCEPT ![p.mac] = IF f \in p.loaders THEN p.content ELSE NoFile]
    IN [t EXCEPT !.pxe = Put("pxe"), !.grub = Put("grub"),
                 !.link[p.host] = IF "grub" \in p.loaders THEN p.mac ELSE @]

\* Its second half: files written, those of disabled loaders removed, the link made anew.
WriteSystemFiles(t, p) ==
    LET Put(f) == IF p.mac = NoFile THEN t[f]
                  ELSE [t[f] EXCEPT ![p.mac] = IF f \in p.loaders THEN p.content ELSE NoFile]
    IN [t EXCEPT !.pxe = Put("pxe"), !.grub = Put("grub"),
                 !.link[p.host] = IF "grub" \in p.loaders THEN p.mac ELSE NoFile]

\* remove_single_system: the files of the interfaces the system still has.
RemoveSystemFiles(t, h, m) ==
    IF m = NoFile THEN t
    ELSE [t EXCEPT !.pxe[m] = NoFile, !.grub[m] = NoFile, !.link[h] = NoFile]

-----------------------------------------------------------------------------
(* Requests: edits act on the live item, a save starts the lite sync.       *)

EditHost(h) ==
    /\ Works /\ lite.at = "idle" /\ h \in hosts
    /\ \/ kopts' = [kopts EXCEPT ![h] = ~@] /\ UNCHANGED <<nic, loaders>>
       \/ \E f \in Formats :
            /\ loaders' = [loaders EXCEPT ![h] = IF f \in @ THEN @ \ {f} ELSE @ \cup {f}]
            /\ UNCHANGED <<nic, kopts>>
       \/ \E m \in Macs \ {nic[k] : k \in hosts} :
            nic' = [nic EXCEPT ![h] = m] /\ UNCHANGED <<loaders, kopts>>
    /\ edited' = edited \cup {h} /\ fresh' = "no" /\ Touch(h)
    /\ UNCHANGED <<hosts, moved, tree, full, lite>>

\* add: the system is listed, and add_single_system follows.
SaveHost(h) ==
    /\ Works /\ lite.at = "idle"
    /\ hosts' = hosts \cup {h}
    /\ lite' = [Still EXCEPT !.at = "systems", !.todo = {h}]
    /\ edited' = edited \ {h} /\ fresh' = "no" /\ Touch(h)
    /\ UNCHANGED <<nic, loaders, kopts, moved, tree, full>>

LiteRenders ==
    /\ lite.at = "systems" /\ lite.plan = NoPlan
    /\ \E h \in lite.todo : lite' = [lite EXCEPT !.plan = Plan(h)]
    /\ UNCHANGED <<fitems, work, tree, full, fresh, edited, raced>>

LiteWrites ==
    LET h == lite.plan.host IN
    /\ lite.at = "systems" /\ lite.plan # NoPlan
    /\ tree' = WriteSystemFiles(tree, lite.plan)
    /\ lite' = [lite EXCEPT !.plan = NoPlan, !.todo = @ \ {h}]
    /\ raced' = IF Syncing THEN raced \cup {h} ELSE raced \ {h}
    /\ UNCHANGED <<fitems, work, full, fresh, edited>>

\* After the systems: make_pxe_menu, and for a profile sync_systems behind the lock.
LiteMenu ==
    /\ lite.at = "systems" /\ lite.todo = {}
    /\ tree' = IF "menu" \in lite.then THEN [tree EXCEPT !.menu = MenuTree] ELSE tree
    /\ lite' = IF "lock" \in lite.then THEN [lite EXCEPT !.at = "lock"] ELSE Still
    /\ UNCHANGED <<fitems, work, full, fresh, edited, raced>>

\* sync_systems looks for systems by name and is given uids: it finds none of them.
SyncedByName(p) == {h \in hosts : \E k \in hosts : ProfOf[k] = p /\ NameOf(h) = Uid(k)}

LiteLocked ==
    /\ lite.at = "lock" /\ ~Syncing
    /\ lite' = [Still EXCEPT !.at = "systems", !.then = {"menu"},
                             !.todo = UNION {SyncedByName(p) : p \in Profs}]
    /\ UNCHANGED <<fitems, work, tree, full, fresh, edited, raced>>

\* add_single_profile cascades to the systems find_system(profile=<name>) returns.
KidsOf(p) == {h \in hosts : Uid(ProfOf[h]) = NameOf(p)}

SaveProfile(p) ==
    /\ Works /\ lite.at = "idle"
    /\ kopts' = [kopts EXCEPT ![p] = ~@]
    /\ lite' = [Still EXCEPT !.at = "systems", !.todo = KidsOf(p),
                   !.then = IF \E h \in hosts : ProfOf[h] = p THEN {"menu", "lock"} ELSE {"menu"}]
    /\ fresh' = "no"
    /\ raced' = IF Syncing THEN raced \cup {h \in hosts : ProfOf[h] = p} ELSE raced
    /\ UNCHANGED <<hosts, nic, loaders, moved, tree, full, edited>>

\* add_single_distro copies the kernel first, and raises when it has moved.
SaveDistro ==
    /\ Works /\ lite.at = "idle" /\ ~moved
    /\ tree' = [tree EXCEPT !.images = TRUE]
    /\ lite' = [Still EXCEPT !.at = "systems", !.then = {"menu"},
                   !.todo = UNION {KidsOf(p) : p \in {q \in Profs : Uid(Distro) = NameOf(Distro)}}]
    /\ fresh' = "no"
    /\ UNCHANGED <<fitems, full, edited, raced>>

\* A recursive removal takes the interface first; the files follow the interfaces left.
RemoveHost(h) ==
    /\ Works /\ lite.at = "idle" /\ h \in hosts
    /\ nic' = [nic EXCEPT ![h] = NoFile]
    /\ hosts' = hosts \ {h}
    /\ loaders' = [loaders EXCEPT ![h] = Formats] /\ kopts' = [kopts EXCEPT ![h] = FALSE]
    /\ tree' = RemoveSystemFiles(tree, h, nic'[h])
    /\ edited' = edited \ {h} /\ fresh' = "no" /\ Touch(h)
    /\ UNCHANGED <<moved, full, lite>>

\* External: somebody moves the tree of the distro away or back.
KernelMoves ==
    /\ Works /\ moved' = ~moved
    /\ UNCHANGED <<hosts, nic, loaders, kopts, tree, full, lite, fresh, edited, raced>>

-----------------------------------------------------------------------------
(* The full sync, under the file lock.                                      *)

\* A sync that writes over the old trees instead of cleaning them.
SyncBeginsUncleaned ==
    /\ ~Syncing
    /\ full' = [Still EXCEPT !.at = "images"]
    /\ fresh' = IF lite.at = "idle" THEN "done" ELSE "no"
    /\ raced' = lite.todo
    /\ UNCHANGED <<fitems, work, tree, lite, edited>>

SyncBegins ==
    /\ ~Syncing
    /\ tree' = EmptyTree
    /\ full' = [Still EXCEPT !.at = "images"]
    /\ fresh' = IF lite.at = "idle" THEN "done" ELSE "no"
    /\ raced' = lite.todo
    /\ UNCHANGED <<fitems, work, lite, edited>>

SyncCopies ==
    /\ full.at = "images" /\ ~moved
    /\ tree' = [tree EXCEPT !.images = TRUE]
    /\ full' = [full EXCEPT !.at = "systems", !.todo = hosts]
    /\ UNCHANGED <<fitems, work, lite, fresh, edited, raced>>

\* FileNotFoundError is not a CX: the handler lets it pass, and the sync ends here.
SyncAborts ==
    /\ full.at = "images" /\ moved
    /\ full' = Still
    /\ fresh' = IF fresh = "done" THEN "failed" ELSE "no"
    /\ raced' = Hosts
    /\ UNCHANGED <<fitems, work, tree, lite, edited>>

SyncRenders ==
    /\ full.at = "systems" /\ full.plan = NoPlan
    /\ \E h \in full.todo : full' = [full EXCEPT !.plan = Plan(h)]
    /\ UNCHANGED <<fitems, work, tree, lite, fresh, edited, raced>>

SyncWrites ==
    /\ full.at = "systems" /\ full.plan # NoPlan
    /\ tree' = WriteSystemFiles(tree, full.plan)
    /\ full' = [full EXCEPT !.plan = NoPlan, !.todo = @ \ {full.plan.host}]
    /\ UNCHANGED <<fitems, work, lite, fresh, edited, raced>>

SyncEnds ==
    /\ full.at = "systems" /\ full.todo = {}
    /\ tree' = [tree EXCEPT !.menu = MenuTree]
    /\ full' = Still
    /\ UNCHANGED <<fitems, work, lite, fresh, edited, raced>>

FNext ==
    \/ \E h \in Hosts : EditHost(h) \/ SaveHost(h) \/ RemoveHost(h)
    \/ \E p \in Profs : SaveProfile(p)
    \/ SaveDistro \/ KernelMoves
    \/ LiteRenders \/ LiteWrites \/ LiteMenu \/ LiteLocked
    \/ SyncBegins \/ SyncCopies \/ SyncAborts \/ SyncRenders \/ SyncWrites \/ SyncEnds

FSpec == FInit /\ [][FNext]_fvars

-----------------------------------------------------------------------------
\* A full sync that nothing overlaps leaves at every path the file
\* that the generator would serve, and a link for every system with a
\* GRUB file: no file of an earlier state of the items survives it.
SyncExact ==
    fresh = "done" /\ ~Syncing =>
        /\ \A q \in Paths : File(q) = Serve(q)
        /\ \A h \in Hosts : tree.link[h] =
                IF h \in hosts /\ "grub" \in loaders[h] THEN nic[h] ELSE NoFile

\* Between operations, a listed system that was saved after its last edit has
\* exactly its own files at its address, unless a full sync crossed its save.
OwnFilesExact ==
    ~Syncing /\ lite.at = "idle" =>
        \A h \in hosts \ (edited \cup raced) :
            /\ tree.link[h] = IF "grub" \in loaders[h] THEN nic[h] ELSE NoFile
            /\ nic[h] # NoFile => \A f \in Formats :
                 IF f \in loaders[h]
                 THEN /\ tree[f][nic[h]] # NoFile
                      /\ tree[f][nic[h]].host = h /\ tree[f][nic[h]].options.own = kopts[h]
                 ELSE tree[f][nic[h]] = NoFile
=============================================================================
