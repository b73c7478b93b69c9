# A TLA+ verification of cobblerd

Cobbler is an installation server. Its daemon, cobblerd, keeps a database of
*items* (distros, profiles, systems, images, repos, menus, templates, groups,
network interfaces), offers it over XML-RPC, generates boot loader, DHCP, DNS and
auto-installation files from it, and serves the machines that are installed.
These modules model the parts of the daemon in which several pieces of state must
agree: the item database and its files, the requests that change it, the threads
that serve them, and the works that turn the items into files on the disk.

## Inventory

| part | state | operations | what is hard, and what makes it correct |
|---|---|---|---|
| item database (`cobbler_collections/`, `items/`) | the objects, a listing per type, unique and non-unique indexes, the unsaved items | new, edit, save, copy, rename, remove, recursive remove, load | every setter moves index entries; edits are live before they are saved; recursive removal works on snapshots; parents may form cycles. Indexes equal a scan of the listing; no removal orphans an item |
| attributes (`items/abstract/`, `decorator.py`) | per item the stored values, among them "inherit" | setters, resolution over parents and settings, `to_dict` and `from_dict` | what is stored is the difference to what is inherited; a start-up calls the setters again in an order of its own. A start-up loses no item and changes no resolved value |
| persistence (`serializer.py`, `modules/serializers/file.py`, `manager.py`) | one JSON file per item, a lock file | write, delete, load in depth order | a crash between any two steps; truncate before write; the lock handle is shared by all threads. What is acknowledged survives a restart; every start-up loads every consistent file |
| transactions (`remote.py`, `api.add_remove_items`) | per token: copies of items, the item each is copied from, a removed flag, the mtime seen, a change log | begin, get, modify, remove, commit, abort | two tokens on one item, commit in several steps without rollback, edits replayed on live items. No lost update, all or nothing |
| dispatcher and background loader (`remote.py`) | a semaphore that suspends the loading of items, the in-memory flags | request, background load step, lazy load | the semaphore is released by who did not take it; a lazy property loads in the middle of a search. No stub is forgotten, the loader ends, nobody waits for itself |
| sessions (`remote.py`) | tokens with their time, unsaved items with theirs | login, check, use, logout, expiry | the check reads, walks over all tokens and writes. A token that was retired stays so |
| background tasks (`remote.py`, `utils/thread.py`) | event per task: state and log | start, run, pre and post triggers, on_done, poll | the state passes through several threads; a late failure after completion. An event tells how its task ended |
| threads in the collections (`collection.py`) | a lock per collection | add, remove, rename, find, index updates at the granularity of the lock | checks before the lock, use after it. A search misses nothing, no entry is lost |
| sync and lite sync (`actions/sync.py`, `tftpgen.py`) | the TFTP tree | full sync, one system, profile or distro saved or removed | rendered in one step, written in another; the names of files come from addresses that change. The tree is what the generator would answer |
| DHCP and DNS managers (`modules/managers/`) | the configuration in memory, the files, the serial of the zones | sync of one system, full sync, restart | incremental changes of what a restart loses; a serial of two digits. No host is missing; a serial names one version |
| settings and migrations (`settings/`) | settings.yaml, and the files beside it | detect the version, migrate step by step, validate, save, load | a document that several schemas accept; files rewritten in place; a kill anywhere. Nothing of the user's is lost, and the order of discovery decides nothing |
| import (`actions/importer.py`, `import_signatures.py`) | the trees, the attributes of the one manager, distros, profiles and links | mirror, scan, walk, add, find repos, WinPE | one manager for all threads; a failure between distro and profile. An import leaves what its tree holds, and nothing else |
| mirroring of repos (`actions/reposync.py`) | the mirrors, the environment of the daemon | sync with retries, seven breeds | the environment belongs to all threads; each breed has its own idea of a failure. Success means mirrored |
| replication (`actions/replicate.py`) | snapshots of two databases | include map, prune, copy trees, add, replace | decided by name from snapshots, done later. Nothing is removed that the master has |
| ISO building (`actions/buildiso/`) | the one build directory, the ISO | network, standalone and airgapped builds | leftovers of a build that failed, two builds at once. Each entry boots a kernel that is there |
| installation (`services.py`, `remote.py`, `modules/installation/`, `power_manager.py`, `actions/status.py`) | netboot flags, boot files, install.log, uploaded logs, power | boot, answers, triggers, nopxe, register, upload, reboot, report | an edit in several steps against the request of a machine; chunks that are refused or sent twice; kills. No second installation; the logs tell what happened |
| generators (`templates/`, `autoinstall/`, `yumgen.py`, `configgen.py`, `grub.py`) | files | render from items | text generation |
| other (`mkloaders.py`, `check.py`, `modules/authentication`, `modules/authorization`, `validate.py`, `module_loader.py`, the SQLite and MongoDB serializers, the start of the daemon) | little | | pure functions and I/O |

The parts interact by plain calls within one process. An XML-RPC request
(`remote.py`) checks the token, resolves objects by uid, name or handle, edits
them through property setters (which keep the indexes), and calls the API
(`api.py`), which calls the collections; these call the serializer, the
triggers and lite sync. The server is a `ThreadingMixIn`: requests run in
threads of their own, as do background tasks (syncs, imports, reposyncs,
replications, builds, reboots) and the background loader. Nothing but the
collections' locks, the load semaphore and the lock of a full sync keeps them apart.

## Modules

| module | models | proofs and instances |
|---|---|---|
| `Catalogue` | what the item database promises a client: items with their files, edits whose file lags behind, stores that bring memory and file together, removals that orphan nothing, crashes after which items come back from their files | abstract specification |
| `ItemStore` | the item database: objects, listings, indexes, unsaved items, files, recursive removal, crash and start-up | `MCItemStore`; `ItemStoreProofs` |
| `Attributes` | values of attributes of every kind: setters, inheritance, storing, the start-up | `MCFiles` |
| `Transactions` | extends `ItemStore`: transactions of XML-RPC clients and their commit | `MCTransactions`; `TransactionsProofs` |
| `SerializerLock` | the flock around the files, statement by statement | `MCFiles`, `MCSerializerLock`; `SerializerLockProofs` |
| `LoadItems` | requests, the background loader and lazy properties over one collection | `MCDaemon`; `LoadItemsProofs` |
| `Sessions` | tokens, events and the tasks behind them | `MCDaemon`; `ThreadsProofs` |
| `CollectionThreads` | threads between the lock regions of one collection | `MCDaemon`; `ThreadsProofs` |
| `TftpSync` | boot files under full and lite syncs | `MCWorks`; `BootProofs` |
| `DhcpDns` | ISC DHCP, dnsmasq and BIND | `MCWorks`; `BootProofs` |
| `Migrations` | the start-up's migrations | `MCWorks`; `WorksProofs` |
| `Import`, `Replicate`, `Reposync`, `BuildIso` | the long-running works | `MCWorks`; `WorksProofs` |
| `Installation` | machines that are installed, their triggers, logs and power | `MCWorks`; `InstallationProofs` |

`MCFiles`, `MCDaemon` and `MCWorks` put modules that share no variable beside
each other: `part` is chosen at the start and says which of them moves. No
behaviour of a part is lost by that, since no other part could have disturbed it,
and the state spaces add up instead of being multiplied.

### ItemStore and the code

| state | in the code |
|---|---|
| `obj` | the Python objects, by uid. An object lives as long as a listing or `unsaved_items` holds it |
| `listed` | the keys of `Collection.listing`, all types together; the sets `Distros`, `Images`, `Profiles`, `Systems` say which collection a uid belongs to |
| `unsaved` | `CobblerXMLRPCInterface.unsaved_items` |
| `nameIdx`, `refIdx` | `Collection.indexes`: the unique one over `name`, the non-unique ones over `distro`, `parent`, `profile` and `image` |
| `saved`, `disk` | the JSON files under `/var/lib/cobbler/collections` |
| `removing` | the stack of calls of `Collection.remove` in a recursive removal |
| `loading` | the files that `deserialize` has yet to read |

Each action is one request, with all that it does: `NewItem`, `SetName`,
`SetDistro`, `SetParent`, `SetProfile`, `SetImage` (`new_item`, `modify_item`
and the property setters), `Save`, `Copy`, `Rename` (`save_item`, `copy_item`,
`rename_item`, down to `Collection.add` and the serializer), `DropUnsaved`,
`ExpireUnsaved`, `Remove`. Two things are taken in steps: a recursive removal
(`RemoveRecursive`, then `RemoveLookUp`, `RemoveDescend`, `RemoveReturn`, and
its three premature ends), because a trigger can end it anywhere and the daemon
can be killed in it; and the start-up (`Restart`, `LoadItem`), because what is
loaded depends on what was loaded before. Requests are served one at a time
here. References are uids; the other attributes are those of `Attributes`.
`Cyclic` guards the requests that climb a chain of parents: on a cycle the code
loops for ever, which is no state change; the request has no outcome.

### Transactions and the code

`entry[t][u]` is the `TransactionTuple` that `transactions[t]` keeps for the item
`u`: the copy, whether it has an original, whether it is to be deleted, the
modification time at which it was taken, and the log of changes. A copy is kept
under the uid of its original; its own uid exists only until the commit, except
that `remove_item` looks for the original of a copy under the copy's uid and finds
none, which dooms the commit (`doomed`). A commit is taken item by item, in the
phases of `add_remove_items`: adds in order of depth, index replay, removes.
Each add and each remove may raise, before or after its effect. Clients without
a transaction save, rename and remove between requests. `mtime` counts the
times an item was touched.

### SerializerLock and the code

`pc[t]` is the statement of `Serializer` at which thread `t` is, `handle[p]` the
attribute `lock_handle` of the serializer of process `p`, `locker` the open file
that has the flock. `StillLocked` says what CPython and the kernel do when the
last reference to an open file is dropped. `state[p]` takes a process through
its start-up (`Start`, `Read`, `Serves`, or an exception). An exception in a
storage call skips `__release_lock`; `Raises` models that.

### Attributes and the code

`own[x]` holds one attribute of each kind the code has: a plain scalar, a scalar
that is inherited from the parent or the settings, a dictionary that is merged
along the parents (`kernel_options`), the boot loaders (checked against what the
distro supports, which is computed when first asked for: `known`), and the template.
`XapiObjectEdit` is an edit through a setter, with its check and conversion;
`Resolve`, `ResolveDict` and `ResolveLoaders` are the getters; `ToDict` is what is
stored, after `_deduplicate_dict` and its kin; `Deserialize` is a whole start-up,
collection by collection, in which `FromList` skips an item whose setter raises
and thereby what is below it.

### The threads of the daemon and the code

`LoadItems`: `pc`, `work` and `stack` of a thread are the statement it is at, the
search or property it is in, and its nested calls of `deserialize`; `inmemory`,
`ready`, `collLoaded` and `sweeping` are `Item.inmemory`, `_has_initialized`,
`Collection.inmemory` and `deserialize_running`; `permits` is the semaphore, which
every request acquires without waiting and releases in any case.
`Sessions`: `check[t]` is a call of `token_check` between its read of the cache, its
walk over the expired entries and its write; `task[k]` goes through `CobblerThread.run`,
`events` holds the states that clients read. `CollectionThreads`: `worker[t]` is a
thread between the regions of `Collection.lock`, with what it read before it.

### The works and the code

| module | state | steps |
|---|---|---|
| `TftpSync` | `tree`: the files by address, the menus and images; `full`, `lite`: what a sync has rendered and not yet written | `SyncBegins` .. `SyncEnds` follow `CobblerSync.run` and `TFTPGen`; `SaveHost`, `SaveProfile`, `SaveDistro`, `RemoveHost` the requests, `LiteRenders`, `LiteWrites`, `LiteMenu`, `LiteLocked` their lite sync; `Serve` is what the TFTP generator answers for a path |
| `DhcpDns` | `memory`: `config` of the manager; the files; `serial`, `zone` | `SaveMachine`, `RemoveMachine` are `sync_single_system` and `remove_single_system` of both managers; `SyncAll`, `WriteZones` the full sync; `Transfer` an external secondary |
| `Migrations` | `doc` on the disk and `mem` in memory, the other files | one action per migration that touches files, `MigrateDocument` for those that do not; `Killed` at any step, within a write too |
| `Import` | `importmgr`: the attributes of the singleton; `importer[i]`: a thread | one action between two saves; clients remove what was imported |
| `Replicate` | `run`: the options, the include map and the snapshots | one action per phase of `Replicate.run`; `Request` for clients of either server |
| `Reposync` | `environ`: `os.environ`; `mirror`: the disk | `NextRepo`, `Try`, `FinishRepo`; the outcome of external programs is free |
| `BuildIso` | `buildisodir`, `iso` | the steps of `buildiso.run`; a disk that is full is noticed by nobody |
| `Installation` | `server[t]`: what a thread of the daemon does; `box`, `agent`: the external machine and its anamon | `XapiSystemEdit`, `AddSaves`, `WriteFileRenders`, `WriteFileWrites` are one edit in its steps; `DisableNetboot`, `RunPreTriggers`, `RunPostTriggers`, `UploadLogData` the requests of a machine |

## What the runs show

| run | configuration | shows |
|---|---|---|
| `refs` | 2 distros, an image, a profile, a system | `RefIndexExact`: the indexes `Collection.remove` relies on equal a scan of the listing, through every setter; `NameIndexSound`; `RemovalFollowsReferences`; `RemovalOrphansNoListedItem` |
| `tree` | a distro, 2 profiles that may be each other's parent | `StartupRestoresOrdered`: no start-up skips an item if the files are consistent and ordered by depth; `ImplementsCatalogue`; `RemovalEnds`, on cycles too; `TypeOK` |
| `commit` | the items of `tree`, the distro and one profile there at the start, one client with transactions | `NoLostSave`: a commit overwrites only versions its transaction has seen; `CommitComplete`; `CommitEnds`; `TxTypeOK` |
| `processes` | locks: 2 processes of one thread, one item. Values: a distro, a profile, one below it, its system, an image | `ProcessesExclusive`; `ReadersSeeWholeFiles`; `LockGranted`. `StartupLosesOnly`: only an item with boot loaders or a template of its own, or below one, may be skipped at a start-up; `StartupKeepsValues`: a start-up changes no resolved value, though only differences are stored |
| `daemon` | 3 lazy items (one whose file is broken), a request, the loader; 2 tokens, a task; 2 items, 2 keys, 2 threads | `PermitKept`: no permit of the semaphore is lost, so that the loader can always run again; `CollectionLoaded`: a collection that counts as loaded hides no stub; `NoLoadUnderLock`: nobody loads an item under the lock its setters take; `LoaderTerminates`. `LogoutFinal`: a client that makes one call at a time never sees its retired token accepted; `TaskOutcome`, `TaskEnds`: each task ends and its event tells how. `SearchComplete`: a search misses no item that had the key all the time; `EntriesExact`: index entries and attributes agree again when the threads are done |
| `works` | eight instances beside each other | `SyncExact`: an undisturbed full sync leaves exactly what the generator answers; `OwnFilesExact`: so does a save for its own system; `HostsComplete`: incremental DHCP and DNS updates lose no host; `SerialIdentifies`: a secondary with the zone's serial has its records; `InterfaceKept`: no interface is lost or doubled over failures and kills of the migration; `DiscoveryConfluent`: the order in which migrations are found decides nothing; `ImportExact`: an import leaves distro, profile and link for all its tree holds, and nothing else changes; `ReplicaSound`: a replication removes what the master lacks and nothing more; `EnvironRestored`, `MirrorsExact`: a reposync puts the environment back, and success means mirrored; `IsoExact`: every entry boots a kernel that is on the ISO; `LogsExact`: the status report and the uploaded logs tell what happened; `InstallsOnce`: a machine that was told not to install again does not |

Six more runs show where the program does not do what its comments, documents or
tests say:

| run | violated | what happens |
|---|---|---|
| `diamond` | `RemovalMeetsListedItems` | a sub-profile with a distro of its own is found as dependant twice; its second removal raises KeyError and the request ends half way (`collection.py:167` promises that orphans are removed) |
| `lost` | `StartupRestoresAll` | the distro setter resets the depth of a sub-profile; at the next start the child may be read before its parent, and is skipped (`serializer.py:124`) |
| `atomic` | `CommitAtomic` | a commit that fails at its second item keeps the first (`remote.py:5066`) |
| `threads` | `ProcessesExclusive` | the second thread of a daemon that enters the serializer closes the open file that has the lock (`serializer.py:45`) |
| `logout` | `LogoutRetires` | a check of a token that has read it before a logout writes it back afterwards (`tests/xmlrpcapi/miscellaneous_test.py:508`) |
| `replica` | `ReplicaComplete` | the new local object gets the remote data as `is_subobject`, stays blank, and is refused; the run ends as a success (`replicate.py:121`) |

### What was seen without a run of its own

These follow from the models or were met while writing them; each is in the model
as the code has it, and where a property would fail on it the property names the
exception.

- *Import.* Two imports at once mix up path, signature and template, since the
  manager is one object. `ImportExact` promises something to an import alone.
- *Reposync.* The environment is that of the process; two tasks may delete one
  variable twice, and a variable that was empty is not put back.
- *ISO.* A build that another one overlaps may lose its files. `filter_items` goes
  over a list that it removes from, and skips every second unknown name. With a boot
  partition given to a standalone build the copy is never made. Airgapped ISOs give
  `re.sub` its flags where it takes a count. Entries of other distros get the one
  kernel of a standalone ISO.
- *Attributes.* `Profile.proxy` resolves `proxy_url_int` and so takes nothing from a
  parent profile. The options of the settings win against those of a parent. An item
  with boot loaders or a template of its own can be skipped at a start-up, because
  its setters run before the attributes they check against are set.
- *Installation.* `post_report` raises whenever reporting is on, and later post
  triggers do not run. `autodetect` looks up the uid of an interface among systems.
  The conflict checks of `register_new_system` never match; the conflict is raised by
  the setter of the interface, when the system has been added, so that a second try
  is told of a name that exists. A system just registered has no boot file before
  another sync. A save that crosses the `nopxe` of the same system may put the
  installation's boot file back. `InstallsOnce` excludes that crossing, and with it
  the loop that `docs/cobbler-conf/settings-yaml.rst` says `pxe_just_once` ends.
  anamon goes on after four refusals and leaves a hole in the log.
- *Searching.* A search with several indexed keys does not narrow a result that is
  empty (`collection.py:902`).
- *Collections.* An item may be saved by another thread between the comparison of
  modification times in a commit and its add (`api.py:1520`); the replay of index
  updates after a commit knows only the attributes that were named
  (`collection.py:847`); two threads that save one item may write its file in the
  opposite order (`file.py:66`). No run covers these three.

## Bounds

- *Uids* are the sets of the configuration. A uid is used again only when no
  item, file or reference remembers it (`Fresh`, `Unused`), as a `uuid4` never
  comes back. Three to five items are enough for what the properties speak of: an
  item, an item it refers to, one that refers to both, and a second target.
- *Names*: one or two. `NameChoices` says which names clients give to which
  item; with two items of a type sharing a name the duplicate checks matter.
- `MaxDepth` ends re-parenting at a depth; a depth grows only by moving under a
  deeper parent, and 2 lets a child have the depth of its parent or less.
- `RecursionLimit` stands for Python's; 4 is more than the longest chain of
  different items, so that it is reached on cycles only.
- `MaxTime` of `Transactions` bounds the saves per item (one suffices to make a
  transaction's copy stale), `MaxLog` the changes to one item in a transaction. One
  client has transactions: conflicts arise through modification times alone, and a
  commit of another client touches them as a save does.
- `Handles`: one for each process and one to open.
- `MaxPermits` 3: requests put back permits they did not take, so that the count
  grows without end; three are enough for the loader to run beside a request and for
  another request to find none taken. One request suffices beside the loader, because
  the code tells requests apart by nothing.
- `Sessions`: both lifetimes 0 and a clock that goes to 1, so that everything that is
  older than now is expired; one token whose client calls one after the other, one
  whose client does not.
- `CollectionThreads`: two items with two keys each, every item edited by one thread
  (two editors of one item lose each other's update, and no lock says otherwise).
- `MaxWork` 3 (`TftpSync`), `MaxChanges` 4 with `MaxPerDay` 2 and `MaxDays` 2
  (`DhcpDns`: two serials of a day can be used up, and a day later be reached again),
  `MaxStarts` 2 (`Migrations`: one that is killed and one that finishes the work),
  `MaxImports` 3 (`Import`: one, a removal or a second import, and a third over what is
  left), `MaxMoves` 3 (`Replicate`), `MaxTries` 2 and `MaxTasks` 2 (`Reposync`),
  `MaxBuilds` 2 (`BuildIso`: the second over the leavings of the first, or beside it),
  `MaxEdits` 2 and `MaxReloads` 1 (`Attributes`), `MaxEvents` 2, `MaxChunks` 1,
  `MaxBoots` 2, `MaxSeconds` 2 (`Installation`: one machine and two threads of the
  daemon; an installation and one after it, two requests of clients or kills among it).
- `SYMMETRY AnyThread` in `works` and `replica` permutes the two threads of imports,
  mirroring, builds and requests. Nothing distinguishes them, and the properties are
  invariants and action properties, for which symmetry is sound. Runs with liveness
  use none.
- `CHECK_DEADLOCK FALSE` stands in the configurations in which a bound ends the
  behaviours. In `daemon`, whether anyone waits for ever is a question of
  `LoaderTerminates` and `NoLoadUnderLock`.

## Fairness

`FairSpec` of `ItemStore` has weak fairness on `RemovalStep` and that of
`Transactions` on `CommitStep`: the thread that serves a request runs on, and
nothing in it blocks. No fairness is assumed of clients, triggers, crashes or
the start-up. `FairSpec` of `SerializerLock` has weak fairness on what a thread
does inside the serializer, and strong fairness on `Granted`: the kernel serves
the callers of flock in turn, and with another process coming back again and
again the lock is free infinitely often but not for ever.

`LoadItems` has weak fairness on every request that has begun, on each step of a
load, and on the loader while it has a permit; and strong fairness on
`LoaderAcquires` and `FromDictAssigns`, which wait for the semaphore and for the lock
of the collection: threads that wait there are woken by a release, and requests may
take them again and again. `Sessions` has weak fairness on `TaskStep`, a thread of its
own that nothing blocks. No client is assumed to log in, call or log out. The works
have safety and action properties only.

## Proofs

`ItemStoreProofs` proves, for all sets of items and names and all bounds, that
`Spec` implies `[]TypeOK`, `[]RefIndexExact`, `[]NameIndexSound`,
`[]RemovalFollowsReferences`, and the action property
`RemovalOrphansNoListedItem`. The invariant `IInv` adds what these need:
references are of items that have the attribute, to items of its type
(`RefsTyped`), so that the attributes over which a removal looks for dependants
are all there are; a start-up and a removal do not run at once
(`OneThingAtATime`); and of each call of a recursive removal, its list covers
what the indexes say of the attributes it has looked up (`CallsCover`), and what
is on it still refers to the item (`ListsFollowReferences`). From the first a
call that is done removes an item nothing refers to, although its list was made
long before. There is a lemma for each action, and one for each operation on the
indexes (`MoveExact`, `PutExact`, `DropExact`, `PutSound`, `PopSound`).

It also proves that `ItemStore` implements `Catalogue`: an edit of
a listed item maps to `CEdit`, a save, copy or rename to `CStore`, a removal
(plain, or one return of a recursive one) to `CRemove`, a restart to `CCrash`, a
file read to `CLoad`, and everything else (unsaved items, the looking up of
dependants) to a stutter.

Last, it proves the action property `StartupRestoresOrdered`, for finitely many profiles in
any tree. `StartupInv` says that what a start-up has loaded stands in the files as it is,
with all it refers to, and that of consistent files nothing is missing that is not still
to be read. An item that is read is kept if what it refers to was loaded and resolves:
the order of collections and depths gives the first (`ReferencesLoaded`), and the second
follows because the file resolved and what is above it in memory is what is above it in the
files (`SameAncestor`). The chain of parents is climbed by a recursive function, and the
induction over it is one over sets of numbers (`EveryNumber`, `Iterates`, `Above`).

`SerializerLockProofs` proves `[]ProcessesExclusive` and
`[]ReadersSeeWholeFiles` for any number of processes, items and open files,
under the assumption `OneThreadPerProcess`. The invariant says that the open
files of different processes are different, that a thread in flock waits on its
process's own, that a thread inside has the lock on it (`LockInv`), and that a
file which is cut off is being written or was torn (`FileInv`). The run
`threads` shows that the assumption is needed.

`TransactionsProofs` proves `[]TxTypeOK` and the action properties `NoLostSave` and
`CommitComplete`, for any number of clients and items. The modification times are
compared once, before a commit adds and removes item by item, so the proof has to
carry the result of the comparison through the commit: `StillUnchanged` says that what
a commit has yet to do still has the time its transaction noted, and `DoneSoFar` that
what it has done is still done. Both need that the entries of different transactions do
not meet where no time is compared: an item that is new in a transaction is in no other
one (`NewApart`) and not in the store before it is committed (`NewUnlisted`), and a
removal inside a transaction is of an original (`GoneHaveBase`).

`ThreadsProofs` has two parts. About `CollectionThreads` it proves `[]EntriesExact` and
`[]SearchComplete` for any number of threads, items and keys, under the assumption `OneClientPerItem`: two clients
that edit one item at once may leave an entry that nothing removes. `Phases` says of
every thread what it has done so far to the entries of its item, so that an entry that is
wrong belongs to an item a thread is at work on; `Dues` says of every item a search owes
where the search will meet it, in the index, in what it read from there, or in its result.

About `Sessions` it proves `[]TaskOutcome` and `[]LogoutFinal`. A call reads the token of its
caller and writes it back later; `LogoutInv` says that a token of a client that makes
one call at a time has, once retired, no call that is about to renew it. `TaskTold` says
that what a task has still to write agrees with what has happened in it, unless its
event has expired.

`LoadItemsProofs` proves `[]LTypeOK`, `[]PermitKept`, `[]CollectionLoaded` and
`[]NoLoadUnderLock` for any number of requests and items, any tree of parents and any
set of files that cannot be loaded. The invariant has four parts. `Stacks`: the call of
`deserialize` on top of another one is for the parent of the item below, and an item
that is sound but not ready is being assigned in a frame or will be loaded again.
`ParentsKnown`: whatever an item refers to is no stub that waits to be loaded, so that reading its
keys under the lock of the collection loads nothing. `Sweeps`: a thread that goes
through the listing leaves no sound stub behind it, so that the collection may be
called loaded when it comes to the end, although other threads load and fail meanwhile.
`Permits`: a permit is free or held by a thread that will put it back.

`BootProofs` has two parts. About `DhcpDns` it proves `[]SerialIdentifies` and
`[]HostsComplete` for any systems, interfaces and addresses. `SerialInv` orders the serials, that of the secondary, of the
zone and of the manager, the last two strictly while a zone is still to be written, so
that no two versions of a zone share a serial before a day's serials are used up.
`HostsInv` says that both the file and the configuration in memory, if there is one,
have the lines of every system that was saved after its last change; a merge for one
system takes no line of another one away, because MACs are unique among interfaces
(`MacsUnique`).

About `TftpSync` it proves `[]SyncExact` and `[]OwnFilesExact` for any systems, profiles,
menus and addresses. A sync renders a system and writes it in a later step, so the
invariant `TftpInv` speaks of what is between: what a lite sync has rendered is what it
would render now (`LiteKept`), because requests run one at a time; what a full sync has
rendered is stale only for systems that a request touched since (`FullKept`, `raced`); the
files of a saved system are its own or on somebody's list (`OwnKept`); and an undisturbed
full sync has the files of the systems behind it and no others (`SyncKept`). That
addresses are distinct (`NicsDistinct`) is what keeps one system's file from another's.

`InstallationProofs` proves `InstallsOnce`, an action property, and `[]LogsExact` for any
number of machines, threads, seconds and chunks. `ToldKept` follows "do not boot from the
network" through the item, its file and the boot file: a thread that serves `nopxe` has
disabled what lies behind it, and nobody who has still to write the boot file would put the
installer there. `UploadKept` says that a log that was never refused is the part that
was sent, and `StatusKept` that the lines of the current installation are in the log and no
end is younger than its start. That a report takes the youngest line needs a maximum
(`HasMaximum`), which comes from the well-foundedness of finite sets.

`WorksProofs` has one part for each of five works.

- `Migrations`: `[]InterfaceKept` for any systems. While files are written over, a backup
  has what they hold (`BackedUp`); every migration only moves files, or takes out of one
  what has a file of its own or is in a backup, so one lemma serves them all.
- `Reposync`: `[]EnvironRestored` and `[]MirrorsExact` for any repositories, tries and
  tasks. For a task that met no other one, `EnvironKept` says where the value is that
  the environment had before: there, or in what the repo in work saved, once for each
  try. `QueueKept` and `MirrorsKept` split what was asked for into what is queued, in work,
  and left behind, which is mirrored or counted as a failure.
- `BuildIso`: `[]IsoExact` for any profiles, systems and distros. `Holds` says what is
  in the directory before each step of a build that met no other one; with it goes what
  the menu and the list of copies were made from (`Generated`). That two
  distros never share a label comes from how the labels are counted (`ShorterOneToOne`).
- `Import`: `[]ImportExact` for any trees, architectures and importers. For an import
  alone `Keeps` says what was listed before is as it was, `Makes` that what it
  entered is its own, `Manages` that the shared manager has its path and signature, and
  `Covers` that every kernel it has not imported lies in a directory still to be walked.
  `Linked` relates the tables of names to the listing, whoever is at work.
- `Replicate`: `[]ReplicaSound` for any items and dependencies. `OnlyLostGone` says why
  something is not there any more: it depends on what the master lacks or renames.
  `PruneMeets` says that what is to be pruned is on a list that is still to come. Names are
  looked up again when something is removed, so the proof needs that a name is that of one
  object of its type (`OneNamed`), which clients of this model respect. The proof found an
  error of the model: `remove_item` takes a type and a name, and the model had looked
  the name up among all types.

The assumptions on constants are `ConstantsAssumption`, `TransactionAssumption`,
`LockAssumption`, `DhcpAssumption`, `TftpAssumption`, `InstallationAssumption`,
`MigrationsAssumption`, `BuildAssumption`, `ImportAssumption`, `ReplicateAssumption` and
those of the other modules: types of the parameters, disjointness of the item types, and
`Nil`, `NoName`, `NoFile` and the like being no members of the sets they extend. TLC
evaluates them in every run of the module. Each inductive invariant was first checked with
TLC on the instances of the runs.

Only model-checked: liveness (`RemovalEnds`, `CommitEnds`, `LockGranted`,
`LoaderTerminates`, `TaskEnds`); `StartupLosesOnly` and `StartupKeepsValues` of
`Attributes`, where inheritance is recursion over data; and `DiscoveryConfluent` of
`Migrations`, which compares chains of migrations, a recursion over the versions. The
documents of the last do not depend on the constants; the run starts from those of six
versions (`MInit`).

## What is not modelled

- *The other item types.* Menus, repos, templates, groups and network interfaces are
  collections of the same class; a menu is a tree like the profiles, an interface
  depends on its system. `ItemStore` has the types with the most references.
- *Threads over the item store.* `ItemStore` and `Transactions` serve one request at a
  time, so that their results hold for a daemon that does; `CollectionThreads` has the
  threads, without files and references between items.
- *The search over several indexes and over attributes*; `CollectionThreads` has the
  search by one key.
- *The caches of dictionaries* (`cache_enabled`, off by default).
- *Text*: templates, auto-installation files, kernel command lines, zone and DHCP
  syntax, logs. Of a file the models keep what it depends on.
- *Pure functions*: validation, conversion, authentication, authorization, the module
  loader. They keep no state between two calls.
- *SQLite and MongoDB*: the transactions of a database do what the lock of the file
  serializer is modelled to do; the file serializer is the default.
- *The surroundings*: boot loader images, host checks, puppet, version control, the
  set-up of the daemon and its command line. External programs (rsync, wimlib,
  reposync, xorriso, fence agents, BIND's transfers) succeed, fail, or stop half way.
- *Parts of modelled components*: genders and ndjbdns, s390 files, `--available-as`,
  the contents of signatures, profiles below profiles on ISOs, options of fence
  agents, rotation of logs. `PROJECT.json` has a line for each component.
- That names are unique: renames, edits of a name and saves in mode "bypass"
  make no duplicate check, and two items of a type may bear one name. That no
  removal leaves a file that refers to the removed item: it may, when the
  reference was edited live and not saved.

## Plan

1. `ItemStore`, `Catalogue`, `SerializerLock` and their proofs; `Transactions`;
   `LoadItems`, `Sessions`, `CollectionThreads`; `TftpSync`, `DhcpDns`, `Migrations`,
   `Import`, `Replicate`, `Reposync`, `BuildIso`, `Installation`; `Attributes`: done.
2. Proofs of `NoLostSave`, `CommitComplete` and `TxTypeOK`, of `EntriesExact` and
   `SearchComplete`, of `LogoutFinal` and `TaskOutcome`: done.
3. Proofs of `PermitKept`, `CollectionLoaded` and `NoLoadUnderLock`, of
   `SerialIdentifies` and `HostsComplete`: done.
4. Proof of `StartupRestoresOrdered`, and about the other works, `EnvironRestored`, `MirrorsExact`, `IsoExact`,
   `ImportExact`, `ReplicaSound`, `InterfaceKept`, and of `SyncExact`, `OwnFilesExact`,
   `InstallsOnce` and `LogsExact`: done.
5. Threads over `ItemStore`: commits against requests, the order in which two threads
   write one file, composed with `SerializerLock`.
6. Menus, interfaces and groups as further types of `ItemStore`; the search over
   several indexes against a scan.
