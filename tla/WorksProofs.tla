--------------------------- MODULE WorksProofs ---------------------------
(***************************************************************************)
(* Proofs about the works the daemon does beside the items: the migration  *)
(* of the old files, mirroring, images, imports and replication.           *)
(***************************************************************************)
EXTENDS Migrations, Reposync, BuildIso, Import, Replicate, FiniteSetTheorems,
        FunctionTheorems, TLAPS

-----------------------------------------------------------------------------
(***************************************************************************)
(* Migrations, for any systems and interfaces: no interface is lost,       *)
(* whenever the migration stops and however often it is run again.         *)
(***************************************************************************)

ItemFiles == [at : {"config", "name", "uid"}, holds : SUBSET Nics, torn : BOOLEAN]
MigrationsTyped ==
    /\ file \in [Nodes -> ItemFiles] /\ nicfile \in [Nics -> Nat] /\ backup \in SUBSET Nics
\* While files are written over, a copy has what they hold.
BackedUp ==
    pc \in {"convert330", "convert400"} => \A s \in Nodes : file[s].holds \subseteq backup

MigrationsInv == MigrationsTyped /\ BackedUp /\ InterfaceKept

-----------------------------------------------------------------------------
\* What a step may do to the files of systems: put them elsewhere, and
\* take the content of one whose interfaces are in a backup or in files of their own.
LEMMA FilesKept ==
    ASSUME MigrationsInv, file' \in [Nodes -> ItemFiles], UNCHANGED nicfile,
           backup' \in SUBSET Nics, backup \subseteq backup',
           \A s \in Nodes : file[s].torn => file'[s].torn,
           \A s \in Nodes : \A i \in file[s].holds \ file'[s].holds :
               nicfile[i] > 0 \/ (file'[s].torn /\ i \in backup)
    PROVE  MigrationsTyped' /\ InterfaceKept'
<1>1. MigrationsTyped'
  BY DEF MigrationsInv, MigrationsTyped
<1>2. ASSUME NEW i \in Nics
      PROVE  /\ nicfile'[i] <= 1
             /\ i \in file'[NodeOf[i]].holds \/ nicfile'[i] = 1
                \/ (file'[NodeOf[i]].torn /\ i \in backup')
  <2>1. NodeOf[i] \in Nodes /\ nicfile[i] \in Nat
    BY MigrationsAssumption DEF MigrationsInv, MigrationsTyped
  <2>2. /\ nicfile[i] <= 1
        /\ i \in file[NodeOf[i]].holds \/ nicfile[i] = 1 \/ (file[NodeOf[i]].torn /\ i \in backup)
    BY DEF MigrationsInv, InterfaceKept
  <2>3. CASE i \in file[NodeOf[i]].holds \ file'[NodeOf[i]].holds
    BY <2>1, <2>2, <2>3
  <2>4. CASE i \notin file[NodeOf[i]].holds \ file'[NodeOf[i]].holds
    BY <2>1, <2>2, <2>4
  <2> QED
    BY <2>3, <2>4
<1> QED
  BY <1>1, <1>2 DEF InterfaceKept

LEMMA MigrationMoved ==
    ASSUME MigrationsInv, file' \in [Nodes -> ItemFiles], UNCHANGED <<nicfile, backup>>,
           \A s \in Nodes : file[s].torn = file'[s].torn /\ file[s].holds = file'[s].holds
    PROVE  MigrationsTyped' /\ InterfaceKept'
BY FilesKept DEF MigrationsInv, MigrationsTyped

\* One file loses its content.
LEMMA Emptied ==
    ASSUME MigrationsInv, NEW s \in Nodes, NEW torn \in BOOLEAN, file[s].torn => torn,
           file' = [file EXCEPT ![s].holds = {}, ![s].torn = torn], UNCHANGED <<nicfile, backup>>,
           \A i \in file[s].holds : nicfile[i] > 0 \/ (torn /\ i \in backup)
    PROVE  MigrationsTyped' /\ InterfaceKept'
<1>1. file \in [Nodes -> ItemFiles]
  BY DEF MigrationsInv, MigrationsTyped
<1> DEFINE emptied == [file[s] EXCEPT !.holds = {}, !.torn = torn]
<1>2. emptied \in ItemFiles /\ emptied.holds = {} /\ emptied.torn = torn
  BY <1>1 DEF ItemFiles
<1>3. file' = [file EXCEPT ![s] = emptied]
  BY <1>1 DEF ItemFiles
<1> HIDE DEF emptied
<1>4. file' \in [Nodes -> ItemFiles]
  BY <1>1, <1>2, <1>3
<1>5. \A r \in Nodes : file[r].torn => file'[r].torn
  BY <1>1, <1>2, <1>3
<1>6. \A r \in Nodes : \A i \in file[r].holds \ file'[r].holds :
          nicfile[i] > 0 \/ (file'[r].torn /\ i \in backup)
  BY <1>1, <1>2, <1>3
<1> QED
  BY <1>4, <1>5, <1>6, FilesKept DEF MigrationsInv, MigrationsTyped

\* A step that leaves the files alone, and ends no backup.
LEMMA FilesAside ==
    ASSUME MigrationsInv, UNCHANGED <<file, nicfile, backup>>,
           pc' \in {"convert330", "convert400"} => pc' = pc
    PROVE  MigrationsInv'
BY DEF MigrationsInv, MigrationsTyped, BackedUp, InterfaceKept

-----------------------------------------------------------------------------

LEMMA ConvertKept ==
    ASSUME MigrationsInv, NEW s \in Nodes, NEW here \in {"convert330", "convert400"},
           NEW next \in {"done330", "backup2"}, Convert(s, here, next)
    PROVE  MigrationsInv'
<1>1. pc = here /\ UNCHANGED <<nicfile, backup>>
  BY DEF Convert
<1>2. CASE UNCHANGED file /\ pc' \in {here, next, "down"}
  BY <1>1, <1>2, FilesAside
<1>3. CASE /\ ~file[s].torn /\ pc' = "down"
           /\ file' = [file EXCEPT ![s].torn = TRUE, ![s].holds = {}]
  <2>1. file[s].holds \subseteq backup
    BY <1>1 DEF MigrationsInv, BackedUp
  <2>2. file' = [file EXCEPT ![s].holds = {}, ![s].torn = TRUE]
    BY <1>3 DEF MigrationsInv, MigrationsTyped, ItemFiles
  <2>3. MigrationsTyped' /\ InterfaceKept'
    BY <1>1, <2>1, <2>2, Emptied
  <2> QED
    BY <1>3, <2>3 DEF MigrationsInv, BackedUp
<1> QED
  BY <1>2, <1>3 DEF Convert, Goto, Down

LEMMA BackupKept ==
    ASSUME MigrationsInv, NEW next, Backup(next)
    PROVE  MigrationsInv'
<1>1. file \in [Nodes -> ItemFiles] /\ UNCHANGED <<file, nicfile>>
  BY DEF Backup, MigrationsInv, MigrationsTyped
<1>2. backup' = backup \cup UNION {file[s].holds : s \in Nodes}
  BY DEF Backup
<1>3. backup' \in SUBSET Nics /\ \A s \in Nodes : file'[s].holds \subseteq backup'
  BY <1>1, <1>2 DEF ItemFiles, MigrationsInv, MigrationsTyped
<1>4. MigrationsTyped' /\ InterfaceKept'
  BY <1>1, <1>2, <1>3, FilesKept
<1> QED
  BY <1>3, <1>4 DEF MigrationsInv, BackedUp

LEMMA StripKept ==
    ASSUME MigrationsInv, NEW s \in Nodes, StripNode(s)
    PROVE  MigrationsInv'
<1>1. /\ \A i \in file[s].holds : nicfile[i] > 0
      /\ UNCHANGED <<nicfile, backup>> /\ pc' \notin {"convert330", "convert400"}
  BY DEF StripNode, Goto, Down
<1>2. file \in [Nodes -> ItemFiles]
  BY DEF MigrationsInv, MigrationsTyped
<1>3. \E torn \in BOOLEAN : /\ file[s].torn => torn
                            /\ file' = [file EXCEPT ![s].holds = {}, ![s].torn = torn]
  <2>1. CASE file' = [file EXCEPT ![s].holds = {}]
    <3>1. file' = [file EXCEPT ![s].holds = {}, ![s].torn = file[s].torn] /\ file[s].torn \in BOOLEAN
      BY <1>2, <2>1 DEF ItemFiles
    <3> QED
      BY <3>1
  <2>2. CASE file' = [file EXCEPT ![s].torn = TRUE, ![s].holds = {}]
    <3>1. file' = [file EXCEPT ![s].holds = {}, ![s].torn = TRUE]
      BY <1>2, <2>2 DEF ItemFiles
    <3> QED
      BY <3>1
  <2> QED
    BY <2>1, <2>2 DEF StripNode
<1>4. MigrationsTyped' /\ InterfaceKept'
  BY <1>1, <1>3, Emptied
<1> QED
  BY <1>1, <1>4 DEF MigrationsInv, BackedUp

LEMMA RenameKept ==
    ASSUME MigrationsInv, NEW s \in Nodes, RenameFile(s)
    PROVE  MigrationsInv'
<1>1. UNCHANGED <<nicfile, backup>> /\ pc' \in {"down", "dir", "rename"}
  BY DEF RenameFile, Goto, Down
<1>2. CASE UNCHANGED file
  BY <1>1, <1>2, FilesAside
<1>3. CASE file' = [file EXCEPT ![s].at = "uid"]
  <2>1. file' \in [Nodes -> ItemFiles]
        /\ \A r \in Nodes : file[r].torn = file'[r].torn /\ file[r].holds = file'[r].holds
    BY <1>3 DEF MigrationsInv, MigrationsTyped, ItemFiles
  <2>2. MigrationsTyped' /\ InterfaceKept'
    BY <1>1, <2>1, MigrationMoved
  <2> QED
    BY <1>1, <2>2 DEF MigrationsInv, BackedUp
<1> QED
  BY <1>2, <1>3 DEF RenameFile

LEMMA MoveNicKept ==
    ASSUME MigrationsInv, NEW s \in Nodes, NEW i \in Nics, MoveNic(s, i)
    PROVE  MigrationsInv'
<1>1. CASE nicfile' = [nicfile EXCEPT ![i] = 1]
  <2>1. \A j \in Nics : nicfile'[j] = IF j = i THEN 1 ELSE nicfile[j]
    BY <1>1 DEF MigrationsInv, MigrationsTyped
  <2>2. UNCHANGED <<file, backup>> /\ pc' \notin {"convert330", "convert400"}
    BY DEF MoveNic, Goto, Down
  <2>3. MigrationsTyped'
    BY <1>1, <2>2 DEF MigrationsInv, MigrationsTyped
  <2>4. InterfaceKept'
    BY <2>1, <2>2 DEF MigrationsInv, InterfaceKept
  <2> QED
    BY <2>2, <2>3, <2>4 DEF MigrationsInv, BackedUp
<1>2. CASE UNCHANGED nicfile
  BY <1>2, FilesAside DEF MoveNic, Goto, Down
<1>3. nicfile[i] = 0 /\ nicfile \in [Nics -> Nat]
  BY DEF MoveNic, MigrationsInv, MigrationsTyped
<1> QED
  BY <1>1, <1>2, <1>3 DEF MoveNic

\* 3.0.0 puts some of the files elsewhere.
LEMMA Migrate300Kept ==
    ASSUME MigrationsInv, Migrate300
    PROVE  MigrationsInv'
<1>1. UNCHANGED <<nicfile, backup>> /\ pc' \in {"down", "chain"}
  BY DEF Migrate300, Reached, Down
<1>2. PICK moved \in SUBSET Nodes :
        file' = [s \in Nodes |-> IF s \in moved THEN [file[s] EXCEPT !.at = "name"] ELSE file[s]]
  <2>1. CASE file' = [s \in Nodes |-> [file[s] EXCEPT !.at = "name"]]
    <3>1. file' = [s \in Nodes |-> IF s \in Nodes THEN [file[s] EXCEPT !.at = "name"] ELSE file[s]]
      BY <2>1
    <3> QED
      BY <3>1
  <2> QED
    BY <2>1 DEF Migrate300
<1>3. ASSUME NEW s \in Nodes
      PROVE  /\ file'[s] \in ItemFiles
             /\ file[s].torn = file'[s].torn /\ file[s].holds = file'[s].holds
  <2>1. file[s] \in ItemFiles
    BY DEF MigrationsInv, MigrationsTyped
  <2>2. file'[s] = IF s \in moved THEN [file[s] EXCEPT !.at = "name"] ELSE file[s]
    BY <1>2
  <2> QED
    BY <2>1, <2>2 DEF ItemFiles
<1>4. file' \in [Nodes -> ItemFiles]
  BY <1>2, <1>3
<1>5. MigrationsTyped' /\ InterfaceKept'
  BY <1>1, <1>3, <1>4, MigrationMoved
<1> QED
  BY <1>1, <1>5 DEF MigrationsInv, BackedUp

LEMMA NextMigrations ==
    ASSUME MigrationsInv, [MNext]_mvars
    PROVE  MigrationsInv'
<1>1. CASE Start
  BY <1>1, FilesAside DEF Start, Beside
<1>2. CASE Killed
  BY <1>2, FilesAside DEF Killed, Down, Beside
<1>3. CASE MigrateDocument
  BY <1>3, FilesAside DEF MigrateDocument, Reached, Down, Beside
<1>4. CASE Migrate300
  BY <1>4, Migrate300Kept
<1>5. CASE Migrate301
  BY <1>5, FilesAside DEF Migrate301, Reached, Down
<1>6. CASE Migrate330
  <2>1. CASE Backup("convert330")
    BY <2>1, BackupKept
  <2>2. CASE \E s \in Nodes : Convert(s, "convert330", "done330")
    BY <2>2, ConvertKept
  <2>3. CASE UNCHANGED Beside /\ pc' \in {"down", "chain"}
    BY <2>3, FilesAside DEF Beside
  <2> QED
    BY <1>6, <2>1, <2>2, <2>3 DEF Migrate330, Down, Reached
<1>7. CASE Migrate400
  BY <1>7, FilesAside DEF Migrate400, Down
<1>8. CASE Save400
  BY <1>8, FilesAside DEF Save400, Down, Beside
<1>9. CASE Collections400
  <2>1. CASE Backup("convert400") \/ Backup("rename")
    BY <2>1, BackupKept
  <2>2. CASE \E s \in Nodes : Convert(s, "convert400", "backup2") \/ RenameFile(s) \/ StripNode(s)
    BY <2>2, ConvertKept, RenameKept, StripKept
  <2>3. CASE \E s \in Nodes, i \in Nics : MoveNic(s, i)
    BY <2>3, MoveNicKept
  <2>4. CASE UNCHANGED Beside /\ pc' \in {"nics", "load"}
    BY <2>4, FilesAside DEF Beside
  <2> QED
    BY <1>9, <2>1, <2>2, <2>3, <2>4 DEF Collections400, Goto
<1>10. CASE Loads
  BY <1>10, FilesAside DEF Loads
<1>11. CASE UNCHANGED mvars
  BY <1>11, FilesAside DEF mvars
<1> QED
  BY <1>1, <1>2, <1>3, <1>4, <1>5, <1>6, <1>7, <1>8, <1>9, <1>10, <1>11 DEF MNext

LEMMA InitMigrations == MInit => MigrationsInv
<1> SUFFICES ASSUME MInit PROVE MigrationsInv
  OBVIOUS
<1>1. PICK where \in {"config", "name"} :
        file = [s \in Nodes |-> [at |-> where, holds |-> {i \in Nics : NodeOf[i] = s}, torn |-> FALSE]]
  <2>1. PICK v \in {1, 5, V320, V330, V333, V337} :
          file = [s \in Nodes |-> [at |-> IF v < V300 THEN "config" ELSE "name",
                                   holds |-> {i \in Nics : NodeOf[i] = s}, torn |-> FALSE]]
    BY DEF MInit
  <2>2. (IF v < V300 THEN "config" ELSE "name") \in {"config", "name"}
    OBVIOUS
  <2> QED
    BY <2>1, <2>2
<1>2. ASSUME NEW s \in Nodes
      PROVE  file[s] \in ItemFiles /\ file[s].holds = {i \in Nics : NodeOf[i] = s}
  BY <1>1 DEF ItemFiles
<1>3. file \in [Nodes -> ItemFiles]
  BY <1>1, <1>2
<1>4. nicfile = [i \in Nics |-> 0] /\ backup = {} /\ pc = "down"
  BY DEF MInit
<1>5. InterfaceKept
  BY <1>2, <1>4, MigrationsAssumption DEF InterfaceKept
<1> QED
  BY <1>3, <1>4, <1>5 DEF MigrationsInv, MigrationsTyped, BackedUp

\* Wherever a migration fails, is killed and is begun again, every interface stays in the file
\* of its system, in one of its own, or in a backup, and is in one file of its own at most.
THEOREM NoInterfaceIsLost == MSpec => []InterfaceKept
<1>1. MInit => MigrationsInv
  BY InitMigrations
<1>2. MigrationsInv /\ [MNext]_mvars => MigrationsInv'
  BY NextMigrations
<1>3. MigrationsInv => InterfaceKept
  BY DEF MigrationsInv
<1> QED
  BY <1>1, <1>2, <1>3, PTL DEF MSpec

-----------------------------------------------------------------------------
(***************************************************************************)
(* Reposync, for any repositories, tries and clients: the environment of   *)
(* the daemon comes back, and a mirror that reports success is whole.      *)
(***************************************************************************)

\* The values of the variable, and what is on the disk of a mirror.
Values == {Unset, Empty, System} \cup {Variable[r] : r \in Repos}
Files == [config : BOOLEAN, packages : {"none", "partial", "full"}, owned : BOOLEAN]
TaskRecord ==
    [at : {"rest", "next", "try", "finish", "done", "failed"}, queue : SUBSET Repos,
     asked : SUBSET Repos, byname : BOOLEAN, nofail : BOOLEAN, one : SUBSET Repos,
     tries : Nat, saved : SUBSET Values, good : SUBSET Repos, failed : BOOLEAN,
     alone : BOOLEAN, env : Values, files : {<<>>} \cup [Repos -> Files]]
ReposyncTyped ==
    /\ breed \in [Repos -> Breeds] /\ locally \in [Repos -> BOOLEAN]
    /\ mirror \in [Repos -> Files] /\ environ \in Values
    /\ task \in [Tasks -> TaskRecord]

\* A task that no other one has met has the daemon to itself.
MirrorUndisturbed(t) == task[t].alone /\ task[t].at # "rest"
OthersOver == \A t \in Tasks : MirrorUndisturbed(t) => \A u \in Tasks \ {t} : Ended(u)

\* What the environment was before the task, unless it was empty, is in the environment
\* or, while a repo is in work that sets the variable, in what was saved.
Before(t, v) == v = task[t].env \/ task[t].env = Empty
EnvironKept(t) ==
    /\ task[t].at \in {"next", "done", "failed"} => Before(t, environ)
    /\ task[t].at \in {"try", "finish"} => \A r \in task[t].one :
         IF Variable[r] = Unset THEN Before(t, environ)
         ELSE \/ task[t].saved = {} /\ Before(t, Unset) /\ environ = Variable[r]
              \/ task[t].saved # {} /\ \A v \in task[t].saved : Before(t, v)

\* A repo that was tried to its end is there, and one that the task has left behind is
\* there or counted as a failure.
Mirrored(r) ==
    /\ locally[r] /\ breed[r] # "rhn" => mirror[r].packages = "full"
    /\ breed[r] # "apt" => mirror[r].config
LeftBehind(t) == task[t].asked \ (task[t].queue \cup task[t].one)
QueueKept(t) ==
    /\ task[t].queue \subseteq task[t].asked /\ task[t].one \subseteq task[t].asked
    /\ task[t].one \cap task[t].queue = {} /\ task[t].good \cap task[t].queue = {}
    /\ task[t].at \in {"next", "done"} => task[t].one = {}
    /\ task[t].at \in {"try", "finish"} => \E r \in Repos : task[t].one = {r}
    /\ task[t].at = "done" => task[t].queue = {} /\ ~task[t].failed
    /\ task[t].at = "failed" /\ task[t].nofail /\ ~task[t].byname =>
         task[t].queue = {} /\ task[t].one = {}
MirrorsKept(t) ==
    /\ task[t].files \in [Repos -> Files]
    /\ \A r \in Repos \ task[t].asked : mirror[r] = task[t].files[r]
    /\ task[t].at = "try" => task[t].one \cap task[t].good = {}
    /\ \A r \in task[t].good \cap task[t].one : Mirrored(r)
    /\ task[t].at # "failed" /\ ~task[t].failed => \A r \in LeftBehind(t) : mirror[r].owned /\ Mirrored(r)
    /\ task[t].nofail /\ ~task[t].byname => \A r \in LeftBehind(t) : mirror[r].owned

AloneKept(t) == EnvironKept(t) /\ QueueKept(t) /\ MirrorsKept(t)
ReposyncInv ==
    /\ ReposyncTyped /\ OthersOver
    /\ \A t \in Tasks : MirrorUndisturbed(t) => AloneKept(t)

-----------------------------------------------------------------------------

LEMMA SyncResults ==
    ASSUME ReposyncTyped, NEW r \in Repos, NEW result \in Sync(r)
    PROVE  /\ result[1] \in Files /\ result[2] \in BOOLEAN
           /\ result[2] => /\ locally[r] /\ breed[r] # "rhn" => result[1].packages = "full"
                           /\ breed[r] # "apt" => result[1].config
<1> DEFINE m == mirror[r]  local == locally[r]
<1>1. m \in Files /\ local \in BOOLEAN /\ breed[r] \in Breeds
  BY DEF ReposyncTyped
<1>2. /\ {LocalFile(m), Partly(m), Fully(m), Partly(LocalFile(m)), Fully(LocalFile(m)),
          LocalFile(Fully(m)), LocalFile(Partly(m))} \subseteq Files
      /\ LocalFile(m).config /\ Fully(LocalFile(m)).config
      /\ LocalFile(Fully(m)).config /\ LocalFile(Partly(m)).config
      /\ Fully(m).packages = "full" /\ Fully(LocalFile(m)).packages = "full"
      /\ LocalFile(Fully(m)).packages = "full"
  <2>1. \A n \in Files : /\ Partly(n) \in Files /\ Fully(n) \in Files
                         /\ LocalFile(n) \in Files /\ LocalFile(n).config
                         /\ Fully(n).config = n.config /\ Fully(n).packages = "full"
                         /\ LocalFile(n).packages = n.packages
    BY DEF Files, Partly, Fully, LocalFile
  <2> HIDE DEF m
  <2>2. LocalFile(m) \in Files /\ Partly(m) \in Files /\ Fully(m) \in Files
    BY <1>1, <2>1
  <2> QED
    BY <1>1, <2>1, <2>2
<1>3. CASE breed[r] = "yum"
  <2>1. result \in YumSync(m, local)
    BY <1>3 DEF Sync
  <2> HIDE DEF m, local
  <2>2. \/ ~local /\ result[1] = LocalFile(m) /\ result[2] = TRUE
        \/ result[1] \in {LocalFile(m), Partly(LocalFile(m)), Fully(LocalFile(m))} /\ result[2] = FALSE
        \/ local /\ result[1] = Fully(LocalFile(m)) /\ result[2] = TRUE
    BY <2>1 DEF YumSync, Raises, Ends
  <2>3. /\ result[1] \in Files /\ result[2] \in BOOLEAN
        /\ result[2] => (local => result[1].packages = "full") /\ result[1].config
    BY <1>1, <1>2, <2>2
  <2> QED
    BY <1>3, <2>3 DEF local
<1>4. CASE breed[r] = "rsync"
  <2>1. result \in RsyncSync(m, local)
    BY <1>4 DEF Sync
  <2> HIDE DEF m, local
  <2>2. \/ result[1] \in {m, Partly(m)} /\ result[2] = FALSE
        \/ local /\ result[1] = LocalFile(Fully(m)) /\ result[2] = TRUE
    BY <2>1 DEF RsyncSync, Raises, Ends
  <2>3. /\ result[1] \in Files /\ result[2] \in BOOLEAN
        /\ result[2] => (local => result[1].packages = "full") /\ result[1].config
    BY <1>1, <1>2, <2>2
  <2> QED
    BY <1>4, <2>3 DEF local
<1>5. CASE breed[r] = "wget"
  <2>1. result \in WgetSync(m, local)
    BY <1>5 DEF Sync
  <2> HIDE DEF m, local
  <2>2. \/ result[1] \in {m, Partly(m), Fully(m)} /\ result[2] = FALSE
        \/ result[1] = LocalFile(Fully(m)) /\ result[2] = TRUE
    <3>1. result \in Raises({m, Partly(m), Fully(m)}) \/ result \in Ends({LocalFile(Fully(m))})
      BY <2>1 DEF WgetSync
    <3> QED
      BY <3>1 DEF Raises, Ends
  <2>3. /\ result[1] \in Files /\ result[2] \in BOOLEAN
        /\ result[2] => (local => result[1].packages = "full") /\ result[1].config
    BY <1>1, <1>2, <2>2
  <2> QED
    BY <1>5, <2>3 DEF local
<1>6. CASE breed[r] = "rhn"
  <2>1. result \in RhnSync(m, local)
    BY <1>6 DEF Sync
  <2> HIDE DEF m, local
  <2>2. \/ result[1] = m /\ result[2] = FALSE
        \/ result[1] \in {LocalFile(Fully(m)), LocalFile(Partly(m))} /\ result[2] = TRUE
    <3>1. result \in Raises({m}) \/ result \in Ends({LocalFile(Fully(m)), LocalFile(Partly(m))})
      BY <2>1 DEF RhnSync
    <3> QED
      BY <3>1 DEF Raises, Ends
  <2>3. /\ result[1] \in Files /\ result[2] \in BOOLEAN
        /\ result[2] => result[1].config
    BY <1>1, <1>2, <2>2
  <2> QED
    BY <1>6, <2>3 DEF local
<1>7. CASE breed[r] = "apt"
  <2>1. result \in AptSync(m, local)
    BY <1>7 DEF Sync
  <2> HIDE DEF m, local
  <2>2. \/ result[1] \in {m, Partly(m)} /\ result[2] = FALSE
        \/ ~local /\ result[1] = m /\ result[2] = TRUE
        \/ local /\ result[1] = Fully(m) /\ result[2] = TRUE
    BY <2>1 DEF AptSync, Raises, Ends
  <2>3. /\ result[1] \in Files /\ result[2] \in BOOLEAN
        /\ result[2] => (local => result[1].packages = "full")
    BY <1>1, <1>2, <2>2
  <2> QED
    BY <1>7, <2>3 DEF local
<1> QED
  BY <1>1, <1>3, <1>4, <1>5, <1>6, <1>7 DEF Breeds

LEMMA IdleTyped == Idle \in TaskRecord
BY DEF Idle, TaskRecord, Values

LEMMA MetTyped ==
    ASSUME NEW k \in TaskRecord
    PROVE  /\ Met(k) \in TaskRecord
           /\ Met(k).at # "rest" => ~Met(k).alone
BY IdleTyped DEF Met, Over, Idle, TaskRecord, Values

LEMMA LeaveTyped ==
    ASSUME NEW k \in TaskRecord, NEW p \in {"done", "failed"}
    PROVE  /\ Leave(k, p) \in TaskRecord /\ Leave(k, p).at = p
           /\ Leave(k, p).alone = k.alone
           /\ k.alone => /\ Leave(k, p).queue = k.queue /\ Leave(k, p).asked = k.asked
                         /\ Leave(k, p).byname = k.byname /\ Leave(k, p).nofail = k.nofail
                         /\ Leave(k, p).one = {} /\ Leave(k, p).good = {}
                         /\ Leave(k, p).failed = k.failed /\ Leave(k, p).env = k.env
                         /\ Leave(k, p).files = k.files
<1>1. CASE k.alone
  BY <1>1 DEF Leave, TaskRecord
<1>2. CASE ~k.alone
  BY <1>2, IdleTyped DEF Leave, Idle, TaskRecord
<1> QED
  BY <1>1, <1>2

\* A task that is at work is the only one that can be undisturbed.
LEMMA ActsAlone ==
    ASSUME ReposyncTyped, OthersOver, NEW t \in Tasks, ~Ended(t), NEW k \in TaskRecord,
           task' = [task EXCEPT ![t] = k], k.alone => task[t].alone
    PROVE  /\ OthersOver'
           /\ \A u \in Tasks : MirrorUndisturbed(u)' => u = t /\ MirrorUndisturbed(t)
<1>1. \A u \in Tasks : task'[u] = IF u = t THEN k ELSE task[u]
  BY DEF ReposyncTyped
<1>2. ASSUME NEW u \in Tasks, MirrorUndisturbed(u)' PROVE u = t /\ MirrorUndisturbed(t)
  <2>1. CASE u = t
    BY <1>1, <1>2, <2>1 DEF MirrorUndisturbed, Ended, Over
  <2>2. CASE u # t
    <3>1. MirrorUndisturbed(u)
      BY <1>1, <1>2, <2>2 DEF MirrorUndisturbed
    <3> QED
      BY <2>2, <3>1 DEF OthersOver
  <2> QED
    BY <2>1, <2>2
<1>3. ASSUME NEW u \in Tasks \ {t}, MirrorUndisturbed(t)' PROVE Ended(u)'
  BY <1>1, <1>2, <1>3 DEF OthersOver, Ended
<1> QED
  BY <1>2, <1>3 DEF OthersOver

LEMMA InitReposync == QInit => ReposyncInv
<1> SUFFICES ASSUME QInit PROVE ReposyncInv
  OBVIOUS
<1>1. ReposyncTyped
  BY IdleTyped DEF QInit, ReposyncTyped, NoFiles, Files, Values
<1>2. \A t \in Tasks : ~MirrorUndisturbed(t)
  BY DEF QInit, MirrorUndisturbed, Idle
<1> QED
  BY <1>1, <1>2 DEF ReposyncInv, OthersOver

LEMMA BackgroundReposyncInv ==
    ASSUME ReposyncInv, NEW t \in Tasks, BackgroundReposync(t)
    PROVE  ReposyncInv'
<1>1. PICK rs \in SUBSET Repos, byname \in BOOLEAN, nofail \in BOOLEAN :
        task' = [u \in Tasks |->
            IF u # t THEN Met(task[u])
            ELSE IF \A v \in Tasks \ {t} : Ended(v) THEN Beginning(rs, byname, nofail)
                 ELSE Met(Beginning(rs, byname, nofail))]
  BY DEF BackgroundReposync
<1> DEFINE new == Beginning(rs, byname, nofail)
<1>2. new \in TaskRecord
  BY IdleTyped DEF ReposyncInv, ReposyncTyped, Idle, TaskRecord, Beginning
<1>3. /\ new.at = "next" /\ new.queue = rs /\ new.asked = rs /\ new.one = {} /\ new.good = {}
      /\ ~new.failed /\ new.env = environ /\ new.files = mirror
  BY DEF Idle, Beginning
<1>4. UNCHANGED <<breed, locally, mirror, environ>>
  BY DEF BackgroundReposync
<1>5. \A u \in Tasks : task'[u] = IF u # t THEN Met(task[u])
                                  ELSE IF \A v \in Tasks \ {t} : Ended(v) THEN new ELSE Met(new)
  BY <1>1
<1>6. \A u \in Tasks : task[u] \in TaskRecord
  BY DEF ReposyncInv, ReposyncTyped
<1>7. ReposyncTyped'
  <2>1. task' \in [Tasks -> TaskRecord]
    <3>1. \A u \in Tasks : task'[u] \in TaskRecord
      <4> HIDE DEF new
      <4> QED
        BY <1>2, <1>5, <1>6, MetTyped
    <3> QED
      BY <1>1, <3>1
  <2> QED
    BY <2>1, <1>4 DEF ReposyncInv, ReposyncTyped, Values
<1>8. ASSUME NEW u \in Tasks, MirrorUndisturbed(u)'
      PROVE  u = t /\ task'[t] = new /\ \A v \in Tasks \ {t} : Ended(v) /\ task'[v] = Idle
  <2> HIDE DEF new
  <2>1. u = t
    BY <1>5, <1>6, <1>8, MetTyped DEF MirrorUndisturbed
  <2>2. \A v \in Tasks \ {t} : Ended(v)
    BY <1>2, <1>5, <1>8, <2>1, MetTyped DEF MirrorUndisturbed
  <2>3. \A v \in Tasks \ {t} : task'[v] = Idle
    BY <1>5, <2>2 DEF Met, Ended
  <2> QED
    BY <1>5, <2>1, <2>2, <2>3
<1>9. OthersOver'
  BY <1>8 DEF OthersOver, Ended, Over, Idle
<1>10. ASSUME MirrorUndisturbed(t)' PROVE AloneKept(t)'
  <2>1. EnvironKept(t)'
    BY <1>3, <1>4, <1>8, <1>10 DEF EnvironKept, Before
  <2>2. QueueKept(t)'
    BY <1>3, <1>8, <1>10 DEF QueueKept
  <2>3. MirrorsKept(t)'
    BY <1>3, <1>4, <1>8, <1>10 DEF MirrorsKept, LeftBehind, ReposyncInv, ReposyncTyped
  <2> QED
    BY <2>1, <2>2, <2>3 DEF AloneKept
<1> QED
  BY <1>7, <1>8, <1>9, <1>10 DEF ReposyncInv

LEMMA NextRepoInv ==
    ASSUME ReposyncInv, NEW t \in Tasks, NextRepo(t)
    PROVE  ReposyncInv'
<1>1. /\ task[t].at = "next" /\ ~Ended(t) /\ task[t] \in TaskRecord
      /\ UNCHANGED <<breed, locally, mirror>>
  BY DEF NextRepo, TaskAt, Ended, Over, Quiet, ReposyncInv, ReposyncTyped
<1>2. CASE \E r \in task[t].queue :
            /\ environ' = IF Variable[r] # Unset /\ environ \in {Unset, Empty}
                          THEN Variable[r] ELSE environ
            /\ task' = [task EXCEPT ![t].at = "try", ![t].one = {r}, ![t].tries = 0,
                         ![t].queue = @ \ {r},
                         ![t].saved = IF Variable[r] # Unset /\ environ \notin {Unset, Empty}
                                      THEN {environ} ELSE {}]
  <2>1. PICK r \in task[t].queue :
            /\ environ' = IF Variable[r] # Unset /\ environ \in {Unset, Empty}
                          THEN Variable[r] ELSE environ
            /\ task' = [task EXCEPT ![t].at = "try", ![t].one = {r}, ![t].tries = 0,
                         ![t].queue = @ \ {r},
                         ![t].saved = IF Variable[r] # Unset /\ environ \notin {Unset, Empty}
                                      THEN {environ} ELSE {}]
    BY <1>2
  <2> DEFINE saved == IF Variable[r] # Unset /\ environ \notin {Unset, Empty} THEN {environ} ELSE {}
             k == [task[t] EXCEPT !.at = "try", !.one = {r}, !.tries = 0, !.queue = @ \ {r},
                                  !.saved = saved]
  <2>2. r \in Repos /\ saved \in SUBSET Values /\ environ' \in Values
    BY <1>1, <2>1 DEF TaskRecord, ReposyncInv, ReposyncTyped, Values
  <2>3. k \in TaskRecord /\ k.alone = task[t].alone
    BY <1>1, <2>2 DEF TaskRecord
  <2>4. task' = [task EXCEPT ![t] = k]
    BY <1>1, <2>1 DEF ReposyncInv, ReposyncTyped
  <2>5. ReposyncTyped'
    BY <1>1, <2>2, <2>3, <2>4 DEF ReposyncInv, ReposyncTyped, Values
  <2>6. OthersOver' /\ \A u \in Tasks : MirrorUndisturbed(u)' => u = t /\ MirrorUndisturbed(t)
    BY <1>1, <2>3, <2>4, ActsAlone DEF ReposyncInv
  <2>7. ASSUME MirrorUndisturbed(t), AloneKept(t) PROVE AloneKept(t)'
    <3>1. /\ task'[t] = k /\ k.at = "try" /\ k.one = {r} /\ k.queue = task[t].queue \ {r}
          /\ k.saved = saved /\ k.env = task[t].env /\ k.asked = task[t].asked
          /\ k.good = task[t].good /\ k.failed = task[t].failed /\ k.nofail = task[t].nofail
          /\ k.byname = task[t].byname /\ k.files = task[t].files
      BY <1>1, <2>4 DEF ReposyncInv, ReposyncTyped, TaskRecord
    <3>2. EnvironKept(t)'
      <4>1. environ = task[t].env \/ task[t].env = Empty
        BY <1>1, <2>7 DEF AloneKept, EnvironKept, Before
      <4>2. CASE Variable[r] = Unset
        BY <2>1, <3>1, <4>1, <4>2 DEF EnvironKept, Before
      <4>3. CASE Variable[r] # Unset /\ environ \in {Unset, Empty}
        BY <2>1, <3>1, <4>1, <4>3 DEF EnvironKept, Before
      <4>4. CASE Variable[r] # Unset /\ environ \notin {Unset, Empty}
        <5>1. saved = {environ} /\ environ' = environ
          BY <2>1, <4>4
        <5>2. task'[t].saved = {environ} /\ task'[t].one = {r} /\ task'[t].at = "try"
              /\ task'[t].env = task[t].env
          BY <3>1, <5>1
        <5> QED
          BY <4>1, <4>4, <5>1, <5>2 DEF EnvironKept, Before
      <4> QED
        BY <4>2, <4>3, <4>4
    <3>3. QueueKept(t)'
      BY <1>1, <2>2, <2>7, <3>1 DEF AloneKept, QueueKept
    <3>4. MirrorsKept(t)'
      BY <1>1, <2>7, <3>1 DEF AloneKept, QueueKept, MirrorsKept, LeftBehind, Mirrored
    <3> QED
      BY <3>2, <3>3, <3>4 DEF AloneKept
  <2> QED
    BY <2>5, <2>6, <2>7 DEF ReposyncInv
<1>3. CASE /\ task[t].queue = {} /\ UNCHANGED environ
           /\ task' = [task EXCEPT ![t] = Leave(@, IF @.failed THEN "failed" ELSE "done")]
  <2> DEFINE k == Leave(task[t], IF task[t].failed THEN "failed" ELSE "done")
  <2>1. k \in TaskRecord /\ k.alone = task[t].alone /\ k.at \in {"done", "failed"}
    BY <1>1, LeaveTyped
  <2>2. task' = [task EXCEPT ![t] = k]
    BY <1>3
  <2>3. ReposyncTyped'
    BY <1>1, <1>3, <2>1, <2>2 DEF ReposyncInv, ReposyncTyped, Values
  <2>4. OthersOver' /\ \A u \in Tasks : MirrorUndisturbed(u)' => u = t /\ MirrorUndisturbed(t)
    BY <1>1, <2>1, <2>2, ActsAlone DEF ReposyncInv
  <2>5. ASSUME MirrorUndisturbed(t), AloneKept(t) PROVE AloneKept(t)'
    <3>1. /\ task'[t] = k /\ k.one = {} /\ k.good = {} /\ k.queue = task[t].queue
          /\ k.env = task[t].env /\ k.asked = task[t].asked
          /\ k.failed = task[t].failed /\ k.nofail = task[t].nofail
          /\ k.byname = task[t].byname /\ k.files = task[t].files
          /\ k.at = IF task[t].failed THEN "failed" ELSE "done"
      BY <1>1, <2>2, <2>5, LeaveTyped DEF ReposyncInv, ReposyncTyped, MirrorUndisturbed
    <3>2. EnvironKept(t)'
      BY <1>1, <1>3, <2>1, <2>5, <3>1 DEF AloneKept, EnvironKept, Before
    <3>3. QueueKept(t)'
      BY <1>1, <1>3, <2>1, <2>5, <3>1 DEF AloneKept, QueueKept
    <3>4. MirrorsKept(t)'
      BY <1>1, <2>1, <2>5, <3>1 DEF AloneKept, QueueKept, MirrorsKept, LeftBehind, Mirrored
    <3> QED
      BY <3>2, <3>3, <3>4 DEF AloneKept
  <2> QED
    BY <2>3, <2>4, <2>5 DEF ReposyncInv
<1> QED
  BY <1>1, <1>2, <1>3 DEF NextRepo, TaskRecord

LEMMA TryInv ==
    ASSUME ReposyncInv, NEW t \in Tasks, Try(t)
    PROVE  ReposyncInv'
<1>1. /\ task[t].at = "try" /\ ~Ended(t) /\ task[t] \in TaskRecord
      /\ UNCHANGED <<breed, locally, environ>>
  BY DEF Try, TaskAt, Ended, Over, Quiet, ReposyncInv, ReposyncTyped
<1>0. PICK r \in task[t].one : \E result \in Sync(r) :
        /\ mirror' = [mirror EXCEPT ![r] = result[1]]
        /\ LET n == task[t].tries + 1 IN
           task' = [task EXCEPT ![t].tries = n,
                      ![t].good = IF result[2] THEN @ \cup {r} ELSE @,
                      ![t].at = IF result[2] \/ n = MaxTries THEN "finish" ELSE "try"]
  BY DEF Try
<1>2. PICK result \in Sync(r) :
        /\ mirror' = [mirror EXCEPT ![r] = result[1]]
        /\ LET n == task[t].tries + 1 IN
           task' = [task EXCEPT ![t].tries = n,
                      ![t].good = IF result[2] THEN @ \cup {r} ELSE @,
                      ![t].at = IF result[2] \/ n = MaxTries THEN "finish" ELSE "try"]
  BY <1>0
<1> DEFINE n == task[t].tries + 1
           k == [task[t] EXCEPT !.tries = n, !.good = IF result[2] THEN @ \cup {r} ELSE @,
                                !.at = IF result[2] \/ n = MaxTries THEN "finish" ELSE "try"]
<1>3. r \in Repos /\ n \in Nat
  BY <1>1 DEF TaskRecord
<1>4. k \in TaskRecord /\ k.alone = task[t].alone
  BY <1>1, <1>3 DEF TaskRecord
<1>5. task' = [task EXCEPT ![t] = k]
  BY <1>1, <1>2 DEF ReposyncInv, ReposyncTyped
<1>6. /\ result[1] \in Files /\ result[2] \in BOOLEAN
      /\ result[2] => /\ locally[r] /\ breed[r] # "rhn" => result[1].packages = "full"
                      /\ breed[r] # "apt" => result[1].config
  BY <1>3, SyncResults DEF ReposyncInv
<1>7. ReposyncTyped'
  <2>1. mirror' \in [Repos -> Files]
    BY <1>0, <1>2, <1>6 DEF ReposyncInv, ReposyncTyped
  <2> QED
    BY <1>1, <1>4, <1>5, <2>1 DEF ReposyncInv, ReposyncTyped
<1>8. OthersOver' /\ \A u \in Tasks : MirrorUndisturbed(u)' => u = t /\ MirrorUndisturbed(t)
  BY <1>1, <1>4, <1>5, ActsAlone DEF ReposyncInv
<1>9. ASSUME MirrorUndisturbed(t), AloneKept(t) PROVE AloneKept(t)'
  <2>1. /\ task'[t] = k /\ k.at \in {"try", "finish"} /\ k.one = task[t].one
        /\ k.queue = task[t].queue /\ k.saved = task[t].saved /\ k.env = task[t].env
        /\ k.asked = task[t].asked /\ k.failed = task[t].failed /\ k.nofail = task[t].nofail
        /\ k.byname = task[t].byname /\ k.files = task[t].files
        /\ k.good = IF result[2] THEN task[t].good \cup {r} ELSE task[t].good
        /\ result[2] => k.at = "finish"
    BY <1>1, <1>5 DEF ReposyncInv, ReposyncTyped, TaskRecord
  <2>2. task[t].one = {r} /\ r \in task[t].asked /\ r \notin task[t].queue
    BY <1>1, <1>2, <1>9 DEF AloneKept, QueueKept
  <2>3. EnvironKept(t)'
    BY <1>1, <1>9, <2>1 DEF AloneKept, EnvironKept, Before, Values
  <2>4. QueueKept(t)'
    BY <1>1, <1>9, <2>1, <2>2 DEF AloneKept, QueueKept
  <2>5. \A q \in Repos : mirror'[q] = IF q = r THEN result[1] ELSE mirror[q]
    BY <1>2 DEF ReposyncInv, ReposyncTyped
  <2>6. \A q \in Repos \ {r} : Mirrored(q)' = Mirrored(q)
    BY <1>1, <2>5 DEF Mirrored
  <2>7. result[2] => Mirrored(r)'
    BY <1>1, <1>3, <1>6, <2>5 DEF Mirrored
  <2>8. LeftBehind(t)' = LeftBehind(t) /\ LeftBehind(t) \subseteq Repos \ {r}
    BY <1>1, <2>1, <2>2 DEF LeftBehind, TaskRecord
  <2>9. MirrorsKept(t)'
    BY <1>1, <1>9, <2>1, <2>2, <2>5, <2>6, <2>7, <2>8 DEF AloneKept, MirrorsKept
  <2> QED
    BY <2>3, <2>4, <2>9 DEF AloneKept
<1> QED
  BY <1>7, <1>8, <1>9 DEF ReposyncInv

LEMMA FinishRepoInv ==
    ASSUME ReposyncInv, NEW t \in Tasks, FinishRepo(t)
    PROVE  ReposyncInv'
<1>1. /\ task[t].at = "finish" /\ ~Ended(t) /\ task[t] \in TaskRecord
      /\ UNCHANGED <<breed, locally>>
  BY DEF FinishRepo, TaskAt, Ended, Over, Quiet, ReposyncInv, ReposyncTyped
<1>2. PICK r \in task[t].one :
        LET bad == r \notin task[t].good
            stops == RestoreRaises(t, r) \/ (bad /\ ~task[t].nofail) IN
        /\ environ' = Restored(t, r)
        /\ mirror' = IF stops THEN mirror ELSE [mirror EXCEPT ![r].owned = TRUE]
        /\ task' = [task EXCEPT ![t] =
             IF stops \/ (bad /\ task[t].byname) THEN Leave(task[t], "failed")
             ELSE [task[t] EXCEPT !.failed = task[t].failed \/ bad, !.at = "next", !.one = {},
                                  !.tries = 0, !.saved = {}]]
  BY DEF FinishRepo
<1> DEFINE bad == r \notin task[t].good
           stops == RestoreRaises(t, r) \/ (bad /\ ~task[t].nofail)
           ends == stops \/ (bad /\ task[t].byname)
           on == [task[t] EXCEPT !.failed = task[t].failed \/ bad, !.at = "next", !.one = {},
                                 !.tries = 0, !.saved = {}]
           k == IF ends THEN Leave(task[t], "failed") ELSE on
<1>3. r \in Repos
  BY <1>1 DEF TaskRecord
<1>4. /\ k \in TaskRecord /\ k.alone = task[t].alone
      /\ k.at = IF ends THEN "failed" ELSE "next"
  <2>1. on \in TaskRecord /\ on.alone = task[t].alone /\ on.at = "next"
    BY <1>1 DEF TaskRecord
  <2> QED
    BY <1>1, <2>1, LeaveTyped
<1>5. task' = [task EXCEPT ![t] = k]
  BY <1>2
<1>6. \A q \in Repos : mirror'[q] = IF q = r /\ ~stops THEN [mirror[q] EXCEPT !.owned = TRUE]
                                    ELSE mirror[q]
  BY <1>2, <1>3 DEF ReposyncInv, ReposyncTyped
<1>7. \A q \in Repos : /\ mirror'[q] \in Files
                       /\ mirror'[q].config = mirror[q].config
                       /\ mirror'[q].packages = mirror[q].packages
                       /\ mirror'[q].owned = (mirror[q].owned \/ (q = r /\ ~stops))
  <2> SUFFICES ASSUME NEW q \in Repos
               PROVE  /\ mirror'[q] \in Files
                      /\ mirror'[q].config = mirror[q].config
                      /\ mirror'[q].packages = mirror[q].packages
                      /\ mirror'[q].owned = (mirror[q].owned \/ (q = r /\ ~stops))
    OBVIOUS
  <2>1. mirror[q] \in Files
    BY DEF ReposyncInv, ReposyncTyped
  <2>2. CASE q = r /\ ~stops
    BY <1>6, <2>1, <2>2 DEF Files
  <2>3. CASE ~(q = r /\ ~stops)
    BY <1>6, <2>1, <2>3 DEF Files
  <2> QED
    BY <2>2, <2>3
<1>8. environ' \in Values
  <2>1. CASE Variable[r] # Unset /\ task[t].saved # {}
    <3>1. task[t].saved \subseteq Values
      BY <1>1 DEF TaskRecord
    <3>2. (CHOOSE v \in task[t].saved : TRUE) \in task[t].saved
      BY <2>1
    <3> QED
      BY <1>2, <2>1, <3>1, <3>2 DEF Restored
  <2> QED
    BY <1>2, <2>1 DEF Restored, ReposyncInv, ReposyncTyped, Values
<1>9. ReposyncTyped'
  <2>1. mirror' \in [Repos -> Files]
    BY <1>2, <1>3, <1>7 DEF ReposyncInv, ReposyncTyped
  <2> QED
    BY <1>1, <1>4, <1>5, <1>8, <2>1 DEF ReposyncInv, ReposyncTyped, Values
<1>10. OthersOver' /\ \A u \in Tasks : MirrorUndisturbed(u)' => u = t /\ MirrorUndisturbed(t)
  BY <1>1, <1>4, <1>5, ActsAlone DEF ReposyncInv
<1>11. ASSUME MirrorUndisturbed(t), AloneKept(t) PROVE AloneKept(t)'
  <2>1. /\ task'[t].one = {} /\ task'[t].queue = task[t].queue /\ task'[t].env = task[t].env
        /\ task'[t].asked = task[t].asked /\ task'[t].nofail = task[t].nofail
        /\ task'[t].byname = task[t].byname /\ task'[t].files = task[t].files
        /\ task'[t].at = IF ends THEN "failed" ELSE "next"
        /\ task'[t].good \subseteq task[t].good
        /\ ~ends => task'[t].failed = (task[t].failed \/ bad)
    <3>1. task'[t] = k /\ task[t].alone
      BY <1>5, <1>11 DEF ReposyncInv, ReposyncTyped, MirrorUndisturbed
    <3>2. CASE ends
      BY <1>1, <3>1, <3>2, LeaveTyped
    <3>3. CASE ~ends
      BY <1>1, <3>1, <3>3 DEF TaskRecord
    <3> QED
      BY <3>2, <3>3
  <2>2. task[t].one = {r} /\ r \in task[t].asked /\ r \notin task[t].queue
    BY <1>1, <1>2, <1>11 DEF AloneKept, QueueKept
  <2>3. Before(t, environ')
    <3>1. CASE Variable[r] = Unset
      BY <1>1, <1>2, <1>11, <3>1 DEF AloneKept, EnvironKept, Restored
    <3>2. CASE Variable[r] # Unset /\ task[t].saved = {}
      BY <1>1, <1>2, <1>11, <3>2 DEF AloneKept, EnvironKept, Restored
    <3>3. CASE Variable[r] # Unset /\ task[t].saved # {}
      <4>1. \A v \in task[t].saved : Before(t, v)
        BY <1>1, <1>2, <1>11, <3>3 DEF AloneKept, EnvironKept
      <4>2. (CHOOSE v \in task[t].saved : TRUE) \in task[t].saved
        BY <3>3
      <4> QED
        BY <1>2, <3>3, <4>1, <4>2 DEF Restored
    <3> QED
      BY <3>1, <3>2, <3>3
  <2>4. EnvironKept(t)'
    BY <2>1, <2>3 DEF EnvironKept, Before
  <2>5. ~RestoreRaises(t, r)
    BY <1>1, <1>2, <1>11 DEF AloneKept, EnvironKept, RestoreRaises
  <2>6. ends /\ task[t].nofail => task[t].byname
    BY <2>5
  <2>7. QueueKept(t)'
    BY <1>11, <2>1, <2>2, <2>6 DEF AloneKept, QueueKept
  <2>8. \A q \in Repos : Mirrored(q)' = Mirrored(q)
    BY <1>1, <1>7 DEF Mirrored
  <2>9. LeftBehind(t)' = LeftBehind(t) \cup {r} /\ LeftBehind(t) \subseteq Repos
    BY <1>1, <2>1, <2>2 DEF LeftBehind, TaskRecord
  <2>10. ~bad => Mirrored(r)
    BY <1>2, <1>11 DEF AloneKept, MirrorsKept
  <2>11. \A q \in Repos \ task'[t].asked : mirror'[q] = task'[t].files[q]
    BY <1>6, <1>11, <2>1, <2>2 DEF AloneKept, MirrorsKept, MirrorUndisturbed
  <2>12. task'[t].at # "failed" /\ ~task'[t].failed =>
           \A q \in LeftBehind(t)' : mirror'[q].owned /\ Mirrored(q)'
    <3> SUFFICES ASSUME task'[t].at # "failed", ~task'[t].failed, NEW q \in LeftBehind(t)'
                 PROVE  mirror'[q].owned /\ Mirrored(q)'
      OBVIOUS
    <3>1. q \in Repos /\ ~bad /\ mirror'[r].owned
      BY <1>1, <1>3, <1>7, <2>1, <2>9
    <3>2. CASE q = r
      BY <2>8, <2>10, <3>1, <3>2
    <3>3. CASE q \in LeftBehind(t) /\ q # r
      <4>1. ~ends /\ ~task[t].failed /\ task[t].at # "failed"
        BY <1>1, <2>1 DEF TaskAt
      <4>2. mirror[q].owned /\ Mirrored(q)
        BY <1>11, <3>3, <4>1 DEF AloneKept, MirrorsKept
      <4> QED
        BY <1>7, <2>8, <3>1, <4>2
    <3> QED
      BY <2>9, <3>2, <3>3
  <2>13. task'[t].nofail /\ ~task'[t].byname => \A q \in LeftBehind(t)' : mirror'[q].owned
    BY <1>3, <1>7, <1>11, <2>1, <2>5, <2>9 DEF AloneKept, MirrorsKept
  <2>14. MirrorsKept(t)'
    BY <1>11, <2>1, <2>11, <2>12, <2>13 DEF AloneKept, MirrorsKept
  <2> QED
    BY <2>4, <2>7, <2>14 DEF AloneKept
<1> QED
  BY <1>9, <1>10, <1>11 DEF ReposyncInv

LEMMA ReposyncInvariant == QSpec => []ReposyncInv
<1>1. ReposyncInv /\ [QNext]_qvars => ReposyncInv'
  <2> SUFFICES ASSUME ReposyncInv, [QNext]_qvars PROVE ReposyncInv'
    OBVIOUS
  <2>1. CASE UNCHANGED qvars
    <3>1. UNCHANGED <<breed, locally, mirror, environ, task>>
      BY <2>1 DEF qvars
    <3>2. ReposyncTyped' /\ OthersOver'
      BY <3>1 DEF ReposyncInv, ReposyncTyped, OthersOver, MirrorUndisturbed, Ended
    <3>3. ASSUME NEW t \in Tasks
          PROVE  /\ MirrorUndisturbed(t)' = MirrorUndisturbed(t) /\ EnvironKept(t)' = EnvironKept(t)
                 /\ QueueKept(t)' = QueueKept(t) /\ MirrorsKept(t)' = MirrorsKept(t)
      <4>1. MirrorUndisturbed(t)' = MirrorUndisturbed(t) /\ EnvironKept(t)' = EnvironKept(t)
        BY <3>1 DEF MirrorUndisturbed, EnvironKept, Before
      <4>2. QueueKept(t)' = QueueKept(t)
        BY <3>1 DEF QueueKept
      <4>3. MirrorsKept(t)' = MirrorsKept(t)
        BY <3>1 DEF MirrorsKept, LeftBehind, Mirrored
      <4> QED
        BY <4>1, <4>2, <4>3
    <3> QED
      BY <3>2, <3>3 DEF ReposyncInv, AloneKept
  <2> QED
    BY <2>1, BackgroundReposyncInv, NextRepoInv, TryInv, FinishRepoInv DEF QNext
<1> QED
  BY <1>1, InitReposync, PTL DEF QSpec

\* actions/reposync.py run puts os.environ back: a task that met no other one leaves the
\* environment of the daemon as it was, or an empty variable deleted, however it ends.
THEOREM EnvironIsRestored == QSpec => []EnvironRestored
<1>1. ReposyncInv => EnvironRestored
  BY DEF ReposyncInv, MirrorUndisturbed, AloneKept, EnvironKept, Before, EnvironRestored
<1> QED
  BY <1>1, ReposyncInvariant, PTL

\* A task that met no other one, and ends well, has mirrored what it was asked for,
\* through all retries of all breeds, and nothing else.
THEOREM SuccessMeansMirrored == QSpec => []MirrorsExact
<1>1. ReposyncInv => MirrorsExact
  <2> SUFFICES ASSUME ReposyncInv, NEW t \in Tasks, task[t].alone, task[t].at \in {"done", "failed"}
               PROVE  /\ \A r \in Repos \ task[t].asked : mirror[r] = task[t].files[r]
                      /\ task[t].at = "done" => \A r \in task[t].asked :
                           mirror[r].owned /\ Mirrored(r)
                      /\ task[t].nofail /\ ~task[t].byname =>
                           \A r \in task[t].asked : mirror[r].owned
    BY DEF MirrorsExact, Mirrored
  <2>1. QueueKept(t) /\ MirrorsKept(t)
    BY DEF ReposyncInv, MirrorUndisturbed, AloneKept
  <2>2. task[t].at = "done" => LeftBehind(t) = task[t].asked /\ ~task[t].failed
    BY <2>1 DEF QueueKept, LeftBehind
  <2>3. task[t].nofail /\ ~task[t].byname => LeftBehind(t) = task[t].asked
    BY <2>1, <2>2 DEF QueueKept, LeftBehind
  <2> QED
    BY <2>1, <2>2, <2>3 DEF MirrorsKept
<1> QED
  BY <1>1, ReposyncInvariant, PTL

-----------------------------------------------------------------------------
(***************************************************************************)
(* BuildIso, for any profiles, systems and distros: an image that was made *)
(* boots what was asked for and nothing else.                              *)
(***************************************************************************)

Targets == IsoProfiles \cup IsoSystems
Labels == Nat \cup {KernelFile[d] : d \in IsoDistros}
IsoEntries == Targets \X Labels \X {"net", "cdrom"}
IsoDirs ==
    [layout : {"none"} \cup {IsoArch[d] : d \in IsoDistros}, menu : SUBSET IsoEntries,
     kernels : SUBSET (Labels \X (IsoDistros \cup {Torn})),
     esp : {"none", "given", "distro", "grub", "empty"}, tree : SUBSET IsoDistros,
     repos : SUBSET UNION {IsoRepos[x] : x \in Targets}, autoinstall : SUBSET Targets]
\* The steps that come after the choice of what goes on the ISO.
Later == {"generate", "prepare", "layout", "esp", "menus", "tree", "kernels", "repos",
          "autoinstall", "xorriso"}
Builds ==
    [at : {"rest", "sources", "done", "failed"} \cup Later, order : SUBSET Orders,
     profiles : SUBSET IsoProfiles, systems : SUBSET IsoSystems,
     distro : IsoDistros \cup {AnyDistro}, menu : SUBSET IsoEntries,
     copies : SUBSET (Labels \X IsoDistros), torn : BOOLEAN,
     alone : BOOLEAN, wrote : BOOLEAN, was : IsoDirs]
Asked(j) ==
    /\ j.at \in Later => j.distro \in IsoDistros
    /\ ~Built(j) => \E o \in Orders : j.order = {o}
BuildIsoTyped ==
    /\ buildisodir \in IsoDirs /\ iso \in IsoDirs
    /\ builder \in [Builders -> Builds]
    /\ \A b \in Builders : Asked(builder[b])

\* A build that no other one has met has the directory and the ISO to itself.
Unmet(b) == builder[b].alone /\ builder[b].at # "rest"
OthersBuilt == \A b \in Builders : Unmet(b) => \A c \in Builders \ {b} : Built(builder[c])

\* What a build is to put in the menu, and what is to be in the directory before a step,
\* from the preparation of the directory on.
Menus(j) == IF Net(j) THEN NetMenu(Chosen(j)) ELSE CdMenu(Chosen(j), j.distro)
AfterMenus == {"tree", "kernels", "repos", "autoinstall", "xorriso"}
Holds(j, dir, step) ==
    /\ dir.menu = IF step \in AfterMenus THEN j.menu ELSE {}
    /\ dir.tree = IF ~Net(j) /\ step \in AfterMenus \ {"tree"} THEN {j.distro} ELSE {}
    /\ ~j.torn => dir.kernels = IF step \in {"repos", "autoinstall", "xorriso"} THEN j.copies ELSE {}
    /\ dir.repos = IF Airgapped(j) /\ step \in {"autoinstall", "xorriso"} THEN ReposFor(j) ELSE {}
    /\ dir.autoinstall = IF ~Net(j) /\ step = "xorriso" THEN {m[1] : m \in j.menu} ELSE {}
Prepared(j) == j.at \in Later \ {"prepare"} /\ (j.at = "generate" => ~Net(j))
Generated(j) == j.at \in (Later \cup {"done"}) \ {"generate"} /\ (j.at = "prepare" => Net(j))
BuildKept(b) == LET j == builder[b] IN
    /\ Net(j) => j.at \notin {"tree", "repos", "autoinstall"}
    /\ \E o \in Orders : j.order = {o}
    /\ j.at \in Later \cup {"done"} => j.profiles # {} /\ j.distro \in IsoDistros
    /\ Generated(j) => j.menu = Menus(j).menu /\ j.copies = Menus(j).copies
    /\ Prepared(j) => Holds(j, buildisodir, j.at)
    /\ j.wrote => j.at = "done" /\ Holds(j, iso, "xorriso")
    /\ ~j.wrote => iso = j.was
BuildIsoInv ==
    /\ BuildIsoTyped /\ OthersBuilt
    /\ \A b \in Builders : Unmet(b) => BuildKept(b)

-----------------------------------------------------------------------------
\* The parts of an entry and of a boot file.
LEMMA EntryParts ==
    ASSUME NEW S, NEW a, NEW b, NEW c, <<a, b, c>> \in S
    PROVE  a \in {e[1] : e \in S} /\ b \in {e[2] : e \in S}
<1> DEFINE t == <<a, b, c>>
<1>1. t \in S /\ t[1] = a /\ t[2] = b
  OBVIOUS
<1> HIDE DEF t
<1> QED
  BY <1>1

LEMMA PairParts ==
    ASSUME NEW S, NEW a, NEW b, <<a, b>> \in S
    PROVE  a \in {e[1] : e \in S} /\ b \in {e[2] : e \in S}
<1> DEFINE t == <<a, b>>
<1>1. t \in S /\ t[1] = a /\ t[2] = b
  OBVIOUS
<1> HIDE DEF t
<1> QED
  BY <1>1

LEMMA ShorterOneToOne ==
    ASSUME NEW ds \in SUBSET IsoDistros
    PROVE  /\ Shorter(ds) \in [ds -> Nat]
           /\ \A c, d \in ds : c # d => Shorter(ds)[c] # Shorter(ds)[d]
<1>1. IsFiniteSet(ds)
  BY BuildAssumption, FS_Subset DEF BuildAssumption
<1>2. Cardinality(ds) \in Nat /\ ExistsBijection(1..Cardinality(ds), ds)
  BY <1>1, FS_CardinalityType
<1>3. PICK f \in Bijection(1..Cardinality(ds), ds) : TRUE
  BY <1>2 DEF ExistsBijection
<1>4. Inverse(f, 1..Cardinality(ds), ds) \in Bijection(ds, 1..Cardinality(ds))
  BY <1>3, Fun_BijInverse
<1> DEFINE g == Inverse(f, 1..Cardinality(ds), ds)
<1>5. g \in [ds -> 1..Cardinality(ds)] /\ \A c, d \in ds : c # d => g[c] # g[d]
  <2> HIDE DEF g
  <2>1. g \in Bijection(ds, 1..Cardinality(ds))
    BY <1>4 DEF g
  <2> QED
    BY <2>1 DEF Bijection, Injection, IsInjective
<1> HIDE DEF g
<1>6. \E h \in [ds -> 1..Cardinality(ds)] : \A c, d \in ds : c # d => h[c] # h[d]
  BY <1>5
<1>7. /\ Shorter(ds) \in [ds -> 1..Cardinality(ds)]
      /\ \A c, d \in ds : c # d => Shorter(ds)[c] # Shorter(ds)[d]
  BY <1>6 DEF Shorter
<1> QED
  BY <1>2, <1>7

LEMMA AboveTyped == \A x \in Targets : DistroAbove(x) \in IsoDistros
BY BuildAssumption DEF BuildAssumption, Targets, DistroAbove

\* Every entry of a network menu has the one boot file of its own distro.
LEMMA NetMenuBoots ==
    ASSUME NEW xs \in SUBSET Targets
    PROVE  LET m == NetMenu(xs) IN
           /\ m.menu \in SUBSET IsoEntries /\ m.copies \in SUBSET (Labels \X IsoDistros)
           /\ {e[1] : e \in m.menu} = xs
           /\ \A e \in m.menu :
                {k[2] : k \in {c \in m.copies : c[1] = e[2]}} = {DistroAbove(e[1])}
           /\ {k[1] : k \in m.copies} = {e[2] : e \in m.menu}
<1> DEFINE ds == {DistroAbove(x) : x \in xs}
           short == Shorter(ds)
           menu == {<<x, short[DistroAbove(x)], "net">> : x \in xs}
           copies == {<<short[DistroAbove(x)], DistroAbove(x)>> : x \in xs}
<1>1. ds \in SUBSET IsoDistros
  BY AboveTyped
<1>2. short \in [ds -> Nat] /\ \A c, d \in ds : c # d => short[c] # short[d]
  BY <1>1, ShorterOneToOne
<1>3. NetMenu(xs).menu = menu /\ NetMenu(xs).copies = copies
  BY DEF NetMenu
<1> HIDE DEF short
<1>4. menu \in SUBSET IsoEntries /\ copies \in SUBSET (Labels \X IsoDistros)
  BY <1>1, <1>2, AboveTyped DEF IsoEntries, Labels
<1>5. {e[1] : e \in menu} = xs
  <2>1. \A x \in xs : <<x, short[DistroAbove(x)], "net">> \in menu
    OBVIOUS
  <2>2. \A e \in menu : e[1] \in xs
    OBVIOUS
  <2> HIDE DEF menu
  <2>3. \A x \in xs : x \in {e[1] : e \in menu}
    BY <2>1, EntryParts
  <2> QED
    BY <2>2, <2>3
<1>6. ASSUME NEW e \in menu
      PROVE  {k[2] : k \in {c \in copies : c[1] = e[2]}} = {DistroAbove(e[1])}
  <2>1. PICK x \in xs : e = <<x, short[DistroAbove(x)], "net">>
    OBVIOUS
  <2>2. <<short[DistroAbove(x)], DistroAbove(x)>> \in {c \in copies : c[1] = e[2]}
    BY <2>1
  <2>3. ASSUME NEW k \in copies, k[1] = e[2] PROVE k[2] = DistroAbove(x)
    <3>1. PICK y \in xs : k = <<short[DistroAbove(y)], DistroAbove(y)>>
      OBVIOUS
    <3> QED
      BY <1>2, <2>1, <2>3, <3>1
  <2> QED
    BY <2>1, <2>2, <2>3
<1>7. {k[1] : k \in copies} = {e[2] : e \in menu}
  <2>1. \A k \in copies : k[1] \in {short[DistroAbove(x)] : x \in xs}
    OBVIOUS
  <2>2. \A x \in xs : short[DistroAbove(x)] \in {k[1] : k \in copies}
    <3>1. \A x \in xs : <<short[DistroAbove(x)], DistroAbove(x)>> \in copies
      OBVIOUS
    <3> HIDE DEF copies
    <3> QED
      BY <3>1, PairParts
  <2>3. \A e \in menu : e[2] \in {short[DistroAbove(x)] : x \in xs}
    OBVIOUS
  <2>4. \A x \in xs : short[DistroAbove(x)] \in {e[2] : e \in menu}
    <3>1. \A x \in xs : <<x, short[DistroAbove(x)], "net">> \in menu
      OBVIOUS
    <3> HIDE DEF menu
    <3> QED
      BY <3>1, EntryParts
  <2> HIDE DEF menu, copies
  <2> QED
    BY <2>1, <2>2, <2>3, <2>4
<1> HIDE DEF menu, copies
<1> QED
  BY <1>3, <1>4, <1>5, <1>6, <1>7

LEMMA CdMenuBoots ==
    ASSUME NEW xs \in SUBSET Targets, NEW d \in IsoDistros
    PROVE  LET m == CdMenu(xs, d) IN
           /\ m.menu \in SUBSET IsoEntries /\ m.copies \in SUBSET (Labels \X IsoDistros)
           /\ {e[1] : e \in m.menu} = xs
           /\ \A e \in m.menu : {k[2] : k \in {c \in m.copies : c[1] = e[2]}} = {d}
           /\ xs # {} => {k[1] : k \in m.copies} = {e[2] : e \in m.menu}
<1> DEFINE menu == {<<x, KernelFile[d], "cdrom">> : x \in xs}
           copies == {<<KernelFile[d], d>>}
<1>1. CdMenu(xs, d).menu = menu /\ CdMenu(xs, d).copies = copies
  BY DEF CdMenu
<1>2. menu \in SUBSET IsoEntries /\ copies \in SUBSET (Labels \X IsoDistros)
  BY DEF IsoEntries, Labels
<1>3. \A x \in xs : <<x, KernelFile[d], "cdrom">> \in menu
  OBVIOUS
<1>4. \A e \in menu : e[1] \in xs /\ e[2] = KernelFile[d]
  OBVIOUS
<1>5. <<KernelFile[d], d>> \in copies /\ \A k \in copies : k[1] = KernelFile[d] /\ k[2] = d
  OBVIOUS
<1> HIDE DEF menu, copies
<1>6. {e[1] : e \in menu} = xs
  <2>1. \A x \in xs : x \in {e[1] : e \in menu}
    BY <1>3, EntryParts
  <2> QED
    BY <1>4, <2>1
<1>7. ASSUME NEW e \in menu PROVE {k[2] : k \in {c \in copies : c[1] = e[2]}} = {d}
  <2>1. <<KernelFile[d], d>> \in {c \in copies : c[1] = e[2]}
    BY <1>4, <1>5
  <2>2. d \in {k[2] : k \in {c \in copies : c[1] = e[2]}}
    BY <2>1, PairParts
  <2> QED
    BY <1>5, <2>2
<1>8. ASSUME xs # {} PROVE {k[1] : k \in copies} = {e[2] : e \in menu}
  <2>1. KernelFile[d] \in {e[2] : e \in menu}
    BY <1>3, <1>8, EntryParts
  <2>2. KernelFile[d] \in {k[1] : k \in copies}
    BY <1>5, PairParts
  <2> QED
    BY <1>4, <1>5, <2>1, <2>2
<1> QED
  BY <1>1, <1>2, <1>6, <1>7, <1>8

-----------------------------------------------------------------------------

LEMMA StepTyped ==
    ASSUME NEW j \in Builds, j.at \in (Later \cup {"sources"}) \ {"xorriso"}
    PROVE  StepAfter(j) \in Later /\ StepAfter(j) # j.at
BY DEF StepAfter, Later

LEMMA EmptyDirTyped == EmptyDir \in IsoDirs
BY DEF EmptyDir, IsoDirs

LEMMA UnbuiltTyped == Unbuilt \in Builds
BY EmptyDirTyped DEF Unbuilt, Builds

LEMMA ChosenTyped == \A j \in Builds : Chosen(j) \in SUBSET Targets
BY DEF Chosen, Builds, Targets

LEMMA MenusTyped ==
    ASSUME NEW j \in Builds, j.distro \in IsoDistros
    PROVE  Menus(j).menu \in SUBSET IsoEntries /\ Menus(j).copies \in SUBSET (Labels \X IsoDistros)
BY ChosenTyped, NetMenuBoots, CdMenuBoots DEF Menus

\* A build that is at work is the only one that can be without company, and what it
\* becomes is kept then.
LEMMA BuildsAlone ==
    ASSUME BuildIsoTyped, OthersBuilt, NEW b \in Builders, ~Built(builder[b]), NEW k \in Builds,
           Becomes(b, k), k.alone = builder[b].alone, k.at # "rest",
           Asked(k)
    PROVE  /\ builder' \in [Builders -> Builds]
           /\ \A c \in Builders : Asked(builder'[c])
           /\ OthersBuilt'
           /\ \A c \in Builders : Unmet(c)' => c = b /\ Unmet(b) /\ builder'[b] = k
<1> DEFINE met == [Unbuilt EXCEPT !.at = k.at, !.alone = FALSE]
           new == IF Built(k) /\ ~k.alone THEN met ELSE k
<1>1. /\ met \in Builds /\ met.at = k.at /\ ~met.alone
      /\ met.distro = AnyDistro /\ met.order = {}
  BY UnbuiltTyped DEF Unbuilt, Builds
<1>2. new \in Builds /\ new.at = k.at /\ new.alone = k.alone
  BY <1>1 DEF Builds
<1>3. builder' = [builder EXCEPT ![b] = new]
  BY DEF Becomes
<1>4. k.alone => new = k
  OBVIOUS
<1>5. Asked(new)
  BY <1>1 DEF Asked, Built, Later
<1> HIDE DEF new, met
<1>6. \A c \in Builders : builder'[c] = IF c = b THEN new ELSE builder[c]
  BY <1>3 DEF BuildIsoTyped
<1>7. builder' \in [Builders -> Builds]
  BY <1>2, <1>3 DEF BuildIsoTyped
<1>8. \A c \in Builders : Asked(builder'[c])
  BY <1>5, <1>6 DEF BuildIsoTyped
<1>9. ASSUME NEW c \in Builders, Unmet(c)' PROVE c = b /\ Unmet(b) /\ builder'[b] = k
  <2>1. c = b
    BY <1>6, <1>9 DEF OthersBuilt, Unmet
  <2>2. new.alone
    BY <1>6, <1>9, <2>1 DEF Unmet
  <2> QED
    BY <1>2, <1>4, <1>6, <2>1, <2>2 DEF Unmet, Built
<1>10. ASSUME NEW c \in Builders, Unmet(c)', NEW d \in Builders \ {c} PROVE Built(builder'[d])
  BY <1>6, <1>9, <1>10 DEF OthersBuilt
<1>11. OthersBuilt'
  BY <1>10 DEF OthersBuilt, Built
<1> QED
  BY <1>7, <1>8, <1>9, <1>11

\* A step of a build that changes only the directory.
LEMMA WorksAlone ==
    ASSUME BuildIsoInv, NEW b \in Builders, ~Built(builder[b]), NEW k \in Builds,
           Becomes(b, k), k.alone = builder[b].alone, k.at # "rest",
           Asked(k),
           buildisodir' \in IsoDirs, iso' \in IsoDirs,
           Unmet(b) /\ BuildKept(b) /\ builder'[b] = k => BuildKept(b)'
    PROVE  BuildIsoInv'
<1>1. /\ builder' \in [Builders -> Builds]
      /\ \A c \in Builders : Asked(builder'[c])
      /\ OthersBuilt'
      /\ \A c \in Builders : Unmet(c)' => c = b /\ Unmet(b) /\ builder'[b] = k
  BY BuildsAlone DEF BuildIsoInv
<1>2. BuildIsoTyped'
  BY <1>1 DEF BuildIsoTyped, BuildIsoInv
<1>3. ASSUME NEW c \in Builders, Unmet(c)' PROVE BuildKept(c)'
  BY <1>1, <1>3 DEF BuildIsoInv
<1> QED
  BY <1>1, <1>2, <1>3 DEF BuildIsoInv

\* What a build is to do does not change on the way.
LEMMA SameJob ==
    ASSUME NEW j, NEW k, k.order = j.order, k.profiles = j.profiles,
           k.systems = j.systems, k.distro = j.distro
    PROVE  /\ Net(k) = Net(j) /\ Airgapped(k) = Airgapped(j) /\ Chosen(k) = Chosen(j)
           /\ ReposFor(k) = ReposFor(j) /\ Menus(k) = Menus(j)
<1>1. Net(k) = Net(j) /\ Airgapped(k) = Airgapped(j)
  BY DEF Net, Airgapped
<1>2. Chosen(k) = Chosen(j)
  BY <1>1 DEF Chosen
<1> QED
  BY <1>1, <1>2 DEF ReposFor, Menus

LEMMA OneKind ==
    ASSUME NEW j, NEW o \in Orders, j.order = {o}
    PROVE  Net(j) => ~Airgapped(j)
BY DEF Net, Airgapped

\* A build that fails leaves the ISO alone.
LEMMA FailsInv ==
    ASSUME BuildIsoInv, NEW b \in Builders, ~Built(builder[b]), Fails(b),
           UNCHANGED <<buildisodir, iso>>
    PROVE  BuildIsoInv'
<1> DEFINE j == builder[b]  k == [builder[b] EXCEPT !.at = "failed"]
<1>1. j \in Builds
  BY DEF BuildIsoInv, BuildIsoTyped
<1>2. /\ k \in Builds /\ k.at = "failed" /\ k.alone = j.alone /\ k.order = j.order
      /\ k.wrote = j.wrote /\ k.was = j.was
  BY <1>1 DEF Builds
<1>3. Becomes(b, k) /\ buildisodir' \in IsoDirs /\ iso' \in IsoDirs
  BY DEF Fails, BuildIsoInv, BuildIsoTyped
<1>4. ASSUME BuildKept(b), builder'[b] = k PROVE BuildKept(b)'
  <2>1. /\ builder'[b].at = "failed" /\ builder'[b].order = j.order
        /\ builder'[b].wrote = j.wrote /\ builder'[b].was = j.was
    BY <1>2, <1>4
  <2>2. ~j.wrote
    BY <1>4 DEF BuildKept, Built
  <2> QED
    BY <1>4, <2>1, <2>2 DEF BuildKept, Later, Prepared, Generated
<1> HIDE DEF k
<1>5. Asked(k)
  BY <1>2 DEF Asked, Built, Later
<1> QED
  BY <1>2, <1>3, <1>4, <1>5, WorksAlone

LEMMA BackgroundBuildisoInv ==
    ASSUME BuildIsoInv, NEW b \in Builders, BackgroundBuildiso(b)
    PROVE  BuildIsoInv'
<1>1. PICK o \in Orders :
        LET new == [Unbuilt EXCEPT !.at = "sources", !.order = {o}, !.was = iso] IN
        builder' = [c \in Builders |->
            IF c # b THEN Overlapped(builder[c])
            ELSE IF \A a \in Builders \ {b} : Built(builder[a]) THEN new ELSE Overlapped(new)]
  BY DEF BackgroundBuildiso
<1> DEFINE new == [Unbuilt EXCEPT !.at = "sources", !.order = {o}, !.was = iso]
<1>2. UNCHANGED <<buildisodir, iso>>
  BY DEF BackgroundBuildiso
<1>3. /\ new \in Builds /\ new.at = "sources" /\ new.order = {o} /\ new.was = iso /\ ~new.wrote
  BY UnbuiltTyped DEF Unbuilt, Builds, BuildIsoInv, BuildIsoTyped
<1>4. ASSUME NEW j \in Builds
      PROVE  /\ Overlapped(j) \in Builds
             /\ Built(j) => Overlapped(j) = Unbuilt
             /\ ~Built(j) => /\ ~Overlapped(j).alone /\ Overlapped(j).at = j.at
                             /\ Overlapped(j).distro = j.distro
                             /\ Overlapped(j).order = j.order
  <2>1. CASE Built(j)
    BY <2>1, UnbuiltTyped DEF Overlapped, Unbuilt
  <2>2. CASE ~Built(j)
    BY <2>2, EmptyDirTyped DEF Overlapped, Builds
  <2> QED
    BY <2>1, <2>2
<1> HIDE DEF new
<1>5. \A c \in Builders : builder[c] \in Builds /\ Asked(builder[c])
  BY DEF BuildIsoInv, BuildIsoTyped
<1>6. \A c \in Builders : builder'[c] =
        IF c # b THEN Overlapped(builder[c])
        ELSE IF \A a \in Builders \ {b} : Built(builder[a]) THEN new ELSE Overlapped(new)
  BY <1>1 DEF new
<1>7. builder' \in [Builders -> Builds]
  <2>1. \A c \in Builders : builder'[c] \in Builds
    BY <1>3, <1>4, <1>5, <1>6
  <2> QED
    BY <1>1, <2>1
<1>8. ASSUME NEW c \in Builders PROVE Asked(builder'[c])
  <2>1. Asked(Unbuilt) /\ Asked(new)
    BY <1>3 DEF Asked, Built, Later, Unbuilt
  <2>2. ASSUME NEW j \in Builds, Asked(j) PROVE Asked(Overlapped(j))
    BY <1>4, <2>1, <2>2 DEF Asked, Built
  <2> QED
    BY <1>3, <1>5, <1>6, <2>1, <2>2
<1>9. BuildIsoTyped'
  BY <1>2, <1>7, <1>8 DEF BuildIsoTyped, BuildIsoInv
<1>10. ASSUME NEW c \in Builders, Unmet(c)'
       PROVE  c = b /\ builder'[b] = new /\ \A a \in Builders \ {b} : builder'[a] = Unbuilt
  <2>1. \A j \in Builds : Overlapped(j).at # "rest" => ~Overlapped(j).alone
    BY <1>4 DEF Unbuilt
  <2>2. c = b /\ builder'[b] = new /\ \A a \in Builders \ {b} : Built(builder[a])
    BY <1>3, <1>5, <1>6, <1>10, <2>1 DEF Unmet
  <2> QED
    BY <1>4, <1>5, <1>6, <2>2
<1>11. OthersBuilt'
  BY <1>10 DEF OthersBuilt, Built, Unbuilt
<1>12. ASSUME NEW c \in Builders, Unmet(c)' PROVE BuildKept(c)'
  <2>1. /\ builder'[c].at = "sources" /\ builder'[c].order = {o} /\ builder'[c].was = iso'
        /\ ~builder'[c].wrote
    BY <1>2, <1>3, <1>10, <1>12
  <2> QED
    BY <2>1 DEF BuildKept, Later, Prepared, Generated
<1> QED
  BY <1>9, <1>11, <1>12 DEF BuildIsoInv

LEMMA PrepareSourcesInv ==
    ASSUME BuildIsoInv, NEW b \in Builders, PrepareSources(b)
    PROVE  BuildIsoInv'
<1> DEFINE j == builder[b]
<1>1. /\ j.at = "sources" /\ ~Built(j) /\ j \in Builds /\ UNCHANGED <<buildisodir, iso>>
  BY DEF PrepareSources, BuildAt, Built, BuildIsoInv, BuildIsoTyped
<1>2. PICK o \in j.order :
        LET ps == FilterItems(o.profiles, IsoProfiles)
            ss == IF o.nosystems THEN {} ELSE FilterItems(o.systems, IsoSystems)
            none == ps = {} \/ (ss = {} /\ o.systems # <<>> /\ ~o.nosystems) IN
        IF none THEN Fails(b)
        ELSE \E d \in IF o.distro # AnyDistro THEN {o.distro} ELSE {IsoDistroOf[p] : p \in ps} :
               Proceeds(b, [builder[b] EXCEPT !.profiles = ps, !.systems = ss, !.distro = d])
  BY DEF PrepareSources
<1> DEFINE ps == FilterItems(o.profiles, IsoProfiles)
           ss == IF o.nosystems THEN {} ELSE FilterItems(o.systems, IsoSystems)
<1>3. CASE Fails(b)
  BY <1>1, <1>3, FailsInv
<1>4. CASE ps # {} /\ \E d \in IF o.distro # AnyDistro THEN {o.distro} ELSE {IsoDistroOf[p] : p \in ps} :
               Proceeds(b, [builder[b] EXCEPT !.profiles = ps, !.systems = ss, !.distro = d])
  <2>1. PICK d \in IF o.distro # AnyDistro THEN {o.distro} ELSE {IsoDistroOf[p] : p \in ps} :
               Proceeds(b, [builder[b] EXCEPT !.profiles = ps, !.systems = ss, !.distro = d])
    BY <1>4
  <2>2. ps \in SUBSET IsoProfiles /\ ss \in SUBSET IsoSystems
    BY DEF FilterItems, Found
  <2>3. o \in Orders /\ o \in Order
    BY <1>1, BuildAssumption DEF Builds, BuildAssumption
  <2>4. d \in IsoDistros
    <3>1. CASE o.distro # AnyDistro
      BY <2>1, <2>3, <3>1 DEF Order
    <3>2. CASE o.distro = AnyDistro
      BY <2>1, <2>2, <3>2, BuildAssumption DEF BuildAssumption
    <3> QED
      BY <3>1, <3>2
  <2> HIDE DEF ps, ss
  <2> DEFINE k == [j EXCEPT !.profiles = ps, !.systems = ss, !.distro = d, !.at = StepAfter(j)]
  <2>5. StepAfter(j) = IF Net(j) THEN "generate" ELSE "prepare"
    BY <1>1 DEF StepAfter
  <2>6. /\ k \in Builds /\ k.at = StepAfter(j) /\ k.alone = j.alone /\ k.order = j.order
        /\ k.wrote = j.wrote /\ k.was = j.was /\ k.profiles = ps /\ k.distro = d
    BY <1>1, <2>2, <2>4, <2>5 DEF Builds, Later
  <2>7. Becomes(b, k)
    BY <1>1, <2>1 DEF Proceeds, Builds, ps, ss
  <2> HIDE DEF k
  <2>8. ASSUME BuildKept(b), builder'[b] = k PROVE BuildKept(b)'
    <3>1. /\ builder'[b].at = StepAfter(j) /\ builder'[b].order = j.order
          /\ builder'[b].wrote = j.wrote /\ builder'[b].was = j.was
          /\ builder'[b].profiles # {} /\ builder'[b].distro \in IsoDistros
      BY <1>4, <2>4, <2>6, <2>8
    <3>2. ~j.wrote
      BY <1>1, <2>8 DEF BuildKept
    <3>3. Net(builder'[b]) = Net(j)
      BY <3>1 DEF Net
    <3> QED
      BY <1>1, <2>5, <2>8, <3>1, <3>2, <3>3 DEF BuildKept, Later, Prepared, Generated
  <2>9. Asked(k)
    BY <1>1, <2>4, <2>6 DEF Asked, Built, BuildIsoInv, BuildIsoTyped
  <2> QED
    BY <1>1, <2>6, <2>7, <2>8, <2>9, WorksAlone, StepTyped DEF BuildIsoInv, BuildIsoTyped, Later
<1> QED
  BY <1>2, <1>3, <1>4

\* A step in the directory is right when it leaves there what is to be there before the
\* next step.
LEMMA InDirectoryInv ==
    ASSUME BuildIsoInv, NEW b \in Builders, builder[b].at \in Later \ {"generate", "xorriso"},
           NEW dir \in IsoDirs, NEW t \in BOOLEAN, buildisodir' = dir, UNCHANGED iso,
           Proceeds(b, [builder[b] EXCEPT !.torn = t]),
           BuildKept(b) => Holds([builder[b] EXCEPT !.torn = t], dir, StepAfter(builder[b]))
    PROVE  BuildIsoInv'
<1> DEFINE j == builder[b]  s == [builder[b] EXCEPT !.torn = t]
           k == [builder[b] EXCEPT !.torn = t, !.at = StepAfter(builder[b])]
<1>1. /\ j \in Builds /\ ~Built(j) /\ Asked(j) /\ iso \in IsoDirs
  BY DEF BuildIsoInv, BuildIsoTyped, Built, Later
<1>0. /\ Becomes(b, k) /\ s.order = j.order /\ s.torn = t /\ s.profiles = j.profiles
      /\ s.systems = j.systems /\ s.distro = j.distro /\ s.menu = j.menu
      /\ s.copies = j.copies
  BY <1>1 DEF Proceeds, Builds
<1> HIDE DEF s
<1>2. StepAfter(j) \in Later
  BY <1>1, StepTyped
<1>3. /\ k \in Builds /\ k.at = StepAfter(j) /\ k.alone = j.alone /\ k.order = j.order
      /\ k.wrote = j.wrote /\ k.was = j.was /\ k.profiles = j.profiles /\ k.systems = j.systems
      /\ k.distro = j.distro /\ k.menu = j.menu /\ k.copies = j.copies /\ k.torn = t
  BY <1>1, <1>2 DEF Builds
<1>4. Asked(k) /\ k.at # "rest"
  BY <1>1, <1>2, <1>3 DEF Asked, Built, Later
<1> HIDE DEF k
<1>5. ASSUME BuildKept(b), builder'[b] = k PROVE BuildKept(b)'
  <2>1. /\ Net(k) = Net(j) /\ Airgapped(k) = Airgapped(j)
        /\ ReposFor(k) = ReposFor(j) /\ Menus(k) = Menus(j)
    BY <1>3, SameJob
  <2>2. Net(j) => StepAfter(j) \notin {"tree", "repos", "autoinstall"}
    BY <1>5 DEF StepAfter, BuildKept
  <2>3. Generated(k) => Generated(j)
    BY <1>1, <1>3, <2>1 DEF Generated, StepAfter, Later
  <2>4. Generated(k) => k.menu = Menus(k).menu /\ k.copies = Menus(k).copies
    BY <1>3, <1>5, <2>1, <2>3 DEF BuildKept
  <2>5. Holds(k, dir, k.at)
    <3>1. Holds(s, dir, k.at)
      BY <1>3, <1>5 DEF s
    <3>2. Net(s) = Net(k) /\ Airgapped(s) = Airgapped(k) /\ ReposFor(s) = ReposFor(k)
      BY <1>0, <1>3, SameJob
    <3> QED
      BY <1>0, <1>3, <3>1, <3>2 DEF Holds
  <2>6. ~j.wrote /\ iso = j.was /\ j.profiles # {} /\ j.distro \in IsoDistros
        /\ \E o \in Orders : j.order = {o}
    BY <1>5 DEF BuildKept, Later
  <2> QED
    BY <1>1, <1>2, <1>3, <1>5, <2>1, <2>2, <2>4, <2>5, <2>6 DEF BuildKept
<1> QED
  BY <1>0, <1>1, <1>3, <1>4, <1>5, WorksAlone

LEMMA OnDiskInv ==
    ASSUME BuildIsoInv, NEW b \in Builders, builder[b].at \in Later \ {"generate", "xorriso"},
           NEW dir \in IsoDirs, OnDisk(b, dir),
           BuildKept(b) => Holds(builder[b], dir, StepAfter(builder[b]))
    PROVE  BuildIsoInv'
<1>1. builder[b] \in Builds
  BY DEF BuildIsoInv, BuildIsoTyped
<1>2. builder[b].torn \in BOOLEAN /\ [builder[b] EXCEPT !.torn = builder[b].torn] = builder[b]
  BY <1>1 DEF Builds
<1> QED
  BY <1>2, InDirectoryInv DEF OnDisk

LEMMA GenerateInv ==
    ASSUME BuildIsoInv, NEW b \in Builders, Generate(b)
    PROVE  BuildIsoInv'
<1> DEFINE j == builder[b]
           m == IF Net(j) THEN NetMenu(Chosen(j)) ELSE CdMenu(Chosen(j), j.distro)
<1>1. /\ j.at = "generate" /\ ~Built(j) /\ j \in Builds /\ Asked(j)
      /\ UNCHANGED <<buildisodir, iso>>
  BY DEF Generate, BuildAt, Built, BuildIsoInv, BuildIsoTyped
<1>2. CASE Fails(b)
  BY <1>1, <1>2, FailsInv
<1>3. CASE Proceeds(b, [j EXCEPT !.menu = m.menu, !.copies = m.copies])
  <2> DEFINE k == [j EXCEPT !.menu = m.menu, !.copies = m.copies, !.at = StepAfter(j)]
  <2>1. m = Menus(j)
    BY DEF Menus
  <2>2. j.distro \in IsoDistros
    BY <1>1 DEF Asked, Later
  <2>3. m.menu \in SUBSET IsoEntries /\ m.copies \in SUBSET (Labels \X IsoDistros)
    BY <1>1, <2>1, <2>2, MenusTyped
  <2> HIDE DEF m
  <2>4. StepAfter(j) = IF Net(j) THEN "prepare" ELSE "layout"
    BY <1>1 DEF StepAfter
  <2>5. /\ k \in Builds /\ k.at = StepAfter(j) /\ k.alone = j.alone /\ k.order = j.order
        /\ k.wrote = j.wrote /\ k.was = j.was /\ k.profiles = j.profiles
        /\ k.systems = j.systems /\ k.torn = j.torn
        /\ k.distro = j.distro /\ k.menu = m.menu /\ k.copies = m.copies
    BY <1>1, <2>3, <2>4 DEF Builds, Later
  <2>6. Becomes(b, k)
    BY <1>1, <1>3 DEF Proceeds, Builds
  <2> HIDE DEF k
  <2>7. Asked(k) /\ k.at # "rest"
    BY <1>1, <2>2, <2>4, <2>5 DEF Asked, Built, Later
  <2>8. ASSUME BuildKept(b), builder'[b] = k PROVE BuildKept(b)'
    <3>1. /\ Net(k) = Net(j) /\ Airgapped(k) = Airgapped(j)
          /\ ReposFor(k) = ReposFor(j) /\ Menus(k) = Menus(j)
      BY <2>5, SameJob
    <3>2. Prepared(k) => Holds(k, buildisodir, k.at)
      <4>1. Prepared(k) => Holds(j, buildisodir, "generate") /\ k.at = "layout" /\ ~Net(k)
        BY <1>1, <2>4, <2>5, <2>8, <3>1 DEF BuildKept, Prepared, Later
      <4> QED
        BY <2>5, <3>1, <4>1 DEF Holds, AfterMenus
    <3>3. ~j.wrote /\ iso = j.was /\ j.profiles # {} /\ j.distro \in IsoDistros
          /\ \E o \in Orders : j.order = {o}
      BY <1>1, <2>8 DEF BuildKept, Later
    <3> QED
      BY <1>1, <2>1, <2>4, <2>5, <2>8, <3>1, <3>2, <3>3 DEF BuildKept
  <2> QED
    BY <1>1, <2>5, <2>6, <2>7, <2>8, WorksAlone DEF BuildIsoInv, BuildIsoTyped
<1> QED
  BY <1>2, <1>3 DEF Generate

\* What every step in the directory begins with.
LEMMA AtWork ==
    ASSUME BuildIsoInv, NEW b \in Builders, builder[b].at \in Later
    PROVE  /\ builder[b] \in Builds /\ ~Built(builder[b]) /\ builder[b].distro \in IsoDistros
           /\ buildisodir \in IsoDirs /\ iso \in IsoDirs
           /\ Raising(b) => BuildIsoInv'
<1>1. /\ builder[b] \in Builds /\ ~Built(builder[b]) /\ builder[b].distro \in IsoDistros
      /\ buildisodir \in IsoDirs /\ iso \in IsoDirs
  BY DEF BuildIsoInv, BuildIsoTyped, Asked, Built, Later
<1> QED
  BY <1>1, FailsInv DEF Raising

LEMMA PrepareBuildisodirInv ==
    ASSUME BuildIsoInv, NEW b \in Builders, PrepareBuildisodir(b)
    PROVE  BuildIsoInv'
<1>1. builder[b].at = "prepare" /\ OnDisk(b, EmptyDir)
  BY DEF PrepareBuildisodir, BuildAt
<1>2. StepAfter(builder[b]) \in {"layout", "generate"}
  BY <1>1 DEF StepAfter
<1>3. Holds(builder[b], EmptyDir, StepAfter(builder[b]))
  BY <1>2 DEF Holds, AfterMenus, EmptyDir
<1> QED
  BY <1>1, <1>3, OnDiskInv, EmptyDirTyped DEF Later

LEMMA CreateDirsInv ==
    ASSUME BuildIsoInv, NEW b \in Builders, CreateDirs(b)
    PROVE  BuildIsoInv'
<1> DEFINE j == builder[b]  dir == [buildisodir EXCEPT !.layout = IsoArch[builder[b].distro]]
<1>1. j.at = "layout" /\ j.at \in Later
  BY DEF CreateDirs, BuildAt, Later
<1>2. j \in Builds /\ j.distro \in IsoDistros /\ buildisodir \in IsoDirs
  BY <1>1, AtWork
<1>3. CASE Raising(b)
  BY <1>1, <1>3, AtWork
<1>4. CASE OnDisk(b, dir)
  <2>1. dir \in IsoDirs /\ dir.menu = buildisodir.menu /\ dir.kernels = buildisodir.kernels
        /\ dir.tree = buildisodir.tree /\ dir.repos = buildisodir.repos
        /\ dir.autoinstall = buildisodir.autoinstall
    BY <1>2 DEF IsoDirs
  <2> HIDE DEF dir
  <2>2. StepAfter(j) \in {"esp", "menus"}
    BY <1>1 DEF StepAfter
  <2>3. ASSUME BuildKept(b) PROVE Holds(j, dir, StepAfter(j))
    <3>1. Holds(j, buildisodir, "layout")
      BY <1>1, <2>3 DEF BuildKept, Prepared
    <3> QED
      BY <2>1, <2>2, <3>1 DEF Holds, AfterMenus
  <2> QED
    BY <1>1, <1>4, <2>1, <2>3, OnDiskInv
<1> QED
  BY <1>3, <1>4 DEF CreateDirs

LEMMA CopyEspInv ==
    ASSUME BuildIsoInv, NEW b \in Builders, CopyEsp(b)
    PROVE  BuildIsoInv'
<1> DEFINE j == builder[b]
<1>1. j.at = "esp" /\ j.at \in Later
  BY DEF CopyEsp, BuildAt, Later
<1>2. j \in Builds /\ j.distro \in IsoDistros /\ buildisodir \in IsoDirs
  BY <1>1, AtWork
<1>3. CASE Raising(b)
  BY <1>1, <1>3, AtWork
<1>4. ASSUME NEW e \in {"none", "given", "distro", "grub", "empty"},
             OnDisk(b, [buildisodir EXCEPT !.esp = e])
      PROVE  BuildIsoInv'
  <2> DEFINE dir == [buildisodir EXCEPT !.esp = e]
  <2>1. dir \in IsoDirs /\ dir.menu = buildisodir.menu /\ dir.kernels = buildisodir.kernels
        /\ dir.tree = buildisodir.tree /\ dir.repos = buildisodir.repos
        /\ dir.autoinstall = buildisodir.autoinstall
    BY <1>2 DEF IsoDirs
  <2>2. OnDisk(b, dir)
    BY <1>4
  <2> HIDE DEF dir
  <2>3. StepAfter(j) = "menus"
    BY <1>1 DEF StepAfter
  <2>4. ASSUME BuildKept(b) PROVE Holds(j, dir, StepAfter(j))
    <3>1. Holds(j, buildisodir, "esp")
      BY <1>1, <2>4 DEF BuildKept, Prepared
    <3> QED
      BY <2>1, <2>3, <3>1 DEF Holds, AfterMenus
  <2> QED
    BY <1>1, <2>1, <2>2, <2>4, OnDiskInv
<1>5. CASE OnDisk(b, buildisodir)
  <2>1. buildisodir.esp \in {"none", "given", "distro", "grub", "empty"}
        /\ [buildisodir EXCEPT !.esp = buildisodir.esp] = buildisodir
    BY <1>2 DEF IsoDirs
  <2> QED
    BY <1>4, <1>5, <2>1
<1> QED
  BY <1>3, <1>4, <1>5 DEF CopyEsp

LEMMA WriteMenusInv ==
    ASSUME BuildIsoInv, NEW b \in Builders, WriteMenus(b)
    PROVE  BuildIsoInv'
<1> DEFINE j == builder[b]  dir == [buildisodir EXCEPT !.menu = builder[b].menu]
<1>1. j.at = "menus" /\ j.at \in Later
  BY DEF WriteMenus, BuildAt, Later
<1>2. j \in Builds /\ j.distro \in IsoDistros /\ buildisodir \in IsoDirs
  BY <1>1, AtWork
<1>3. CASE Raising(b)
  BY <1>1, <1>3, AtWork
<1>4. CASE OnDisk(b, dir)
  <2>1. dir \in IsoDirs /\ dir.menu = j.menu /\ dir.kernels = buildisodir.kernels
        /\ dir.tree = buildisodir.tree /\ dir.repos = buildisodir.repos
        /\ dir.autoinstall = buildisodir.autoinstall
    BY <1>2 DEF IsoDirs, Builds
  <2> HIDE DEF dir
  <2>2. StepAfter(j) = IF Net(j) THEN "kernels" ELSE "tree"
    BY <1>1 DEF StepAfter
  <2>3. ASSUME BuildKept(b) PROVE Holds(j, dir, StepAfter(j))
    <3>1. Holds(j, buildisodir, "menus")
      BY <1>1, <2>3 DEF BuildKept, Prepared
    <3> QED
      BY <2>1, <2>2, <3>1 DEF Holds, AfterMenus
  <2> QED
    BY <1>1, <1>4, <2>1, <2>3, OnDiskInv
<1> QED
  BY <1>3, <1>4 DEF WriteMenus

LEMMA CopyDistroFilesInv ==
    ASSUME BuildIsoInv, NEW b \in Builders, CopyDistroFiles(b)
    PROVE  BuildIsoInv'
<1> DEFINE j == builder[b]
           dir == [buildisodir EXCEPT !.tree = buildisodir.tree \cup {builder[b].distro}]
<1>1. j.at = "tree" /\ j.at \in Later
  BY DEF CopyDistroFiles, BuildAt, Later
<1>2. j \in Builds /\ j.distro \in IsoDistros /\ buildisodir \in IsoDirs
  BY <1>1, AtWork
<1>3. CASE Raising(b)
  BY <1>1, <1>3, AtWork
<1>4. CASE OnDisk(b, dir)
  <2>1. dir \in IsoDirs /\ dir.menu = buildisodir.menu /\ dir.kernels = buildisodir.kernels
        /\ dir.tree = buildisodir.tree \cup {j.distro} /\ dir.repos = buildisodir.repos
        /\ dir.autoinstall = buildisodir.autoinstall
    BY <1>2 DEF IsoDirs
  <2> HIDE DEF dir
  <2>2. StepAfter(j) = "kernels"
    BY <1>1 DEF StepAfter
  <2>3. ASSUME BuildKept(b) PROVE Holds(j, dir, StepAfter(j))
    <3>1. Holds(j, buildisodir, "tree") /\ ~Net(j)
      BY <1>1, <2>3 DEF BuildKept, Prepared
    <3> QED
      BY <2>1, <2>2, <3>1 DEF Holds, AfterMenus
  <2> QED
    BY <1>1, <1>4, <2>1, <2>3, OnDiskInv
<1> QED
  BY <1>2, <1>3, <1>4 DEF CopyDistroFiles, IsoDirs

LEMMA CopyBootFilesInv ==
    ASSUME BuildIsoInv, NEW b \in Builders, CopyBootFiles(b)
    PROVE  BuildIsoInv'
<1> DEFINE j == builder[b]
           names == {c[1] : c \in j.copies}
           others == {k \in buildisodir.kernels : k[1] \notin names}
           full == [buildisodir EXCEPT !.kernels = others \cup j.copies]
           cut == [buildisodir EXCEPT !.kernels = others \cup {<<n, Torn>> : n \in names}]
<1>1. j.at = "kernels" /\ j.at \in Later
  BY DEF CopyBootFiles, BuildAt, Later
<1>2. j \in Builds /\ j.distro \in IsoDistros /\ buildisodir \in IsoDirs
  BY <1>1, AtWork
<1>3. StepAfter(j) = IF Net(j) THEN "xorriso" ELSE "repos"
  BY <1>1 DEF StepAfter
<1>4. others \in SUBSET (Labels \X (IsoDistros \cup {Torn}))
  BY <1>2 DEF IsoDirs
<1>5. names \in SUBSET Labels
  <2>1. \A c \in j.copies : c[1] \in Labels
    BY <1>2 DEF Builds
  <2> QED
    BY <2>1
<1>6. ASSUME BuildKept(b) PROVE Holds(j, buildisodir, "kernels")
  BY <1>1, <1>6 DEF BuildKept, Prepared, Later
<1>7. CASE Raising(b)
  BY <1>1, <1>7, AtWork
<1>8. CASE OnDisk(b, full)
  <2>1. full \in IsoDirs /\ full.menu = buildisodir.menu /\ full.kernels = others \cup j.copies
        /\ full.tree = buildisodir.tree /\ full.repos = buildisodir.repos
        /\ full.autoinstall = buildisodir.autoinstall
    BY <1>2, <1>4 DEF IsoDirs, Builds
  <2>2. buildisodir.kernels = {} => full.kernels = j.copies
    BY <2>1
  <2> HIDE DEF full, others
  <2>3. ASSUME BuildKept(b) PROVE Holds(j, full, StepAfter(j))
    <3>1. Airgapped(j) => ~Net(j)
      BY <2>3, OneKind DEF BuildKept
    <3>2. /\ full.menu = j.menu /\ full.tree = IF Net(j) THEN {} ELSE {j.distro}
      BY <1>6, <2>1, <2>3 DEF Holds, AfterMenus
    <3>3. full.autoinstall = {}
      BY <1>6, <2>1, <2>3 DEF Holds
    <3>4. full.repos = {} /\ (~j.torn => full.kernels = j.copies)
      BY <1>6, <2>1, <2>2, <2>3 DEF Holds
    <3> QED
      BY <1>3, <3>1, <3>2, <3>3, <3>4 DEF Holds, AfterMenus
  <2> QED
    BY <1>1, <1>8, <2>1, <2>3, OnDiskInv
<1>9. CASE buildisodir' = cut /\ Proceeds(b, [j EXCEPT !.torn = TRUE]) /\ UNCHANGED iso
  <2>1. others \cup {<<n, Torn>> : n \in names} \in SUBSET (Labels \X (IsoDistros \cup {Torn}))
    BY <1>4, <1>5
  <2> HIDE DEF others, names
  <2>2. cut \in IsoDirs /\ cut.menu = buildisodir.menu
        /\ cut.tree = buildisodir.tree /\ cut.repos = buildisodir.repos
        /\ cut.autoinstall = buildisodir.autoinstall
    BY <1>2, <2>1 DEF IsoDirs
  <2> HIDE DEF cut
  <2> DEFINE s == [j EXCEPT !.torn = TRUE]
  <2>3. s.order = j.order /\ s.torn /\ s.profiles = j.profiles
        /\ s.systems = j.systems /\ s.distro = j.distro /\ s.menu = j.menu
    BY <1>2 DEF Builds
  <2> HIDE DEF s
  <2>4. ASSUME BuildKept(b) PROVE Holds(s, cut, StepAfter(j))
    <3>1. Airgapped(j) => ~Net(j)
      BY <2>4, OneKind DEF BuildKept
    <3>2. Net(s) = Net(j) /\ Airgapped(s) = Airgapped(j) /\ ReposFor(s) = ReposFor(j)
      BY <2>3, SameJob
    <3>3. /\ cut.menu = j.menu /\ cut.tree = IF Net(j) THEN {} ELSE {j.distro}
          /\ cut.autoinstall = {}
      BY <1>6, <2>2, <2>4 DEF Holds, AfterMenus
    <3>4. cut.repos = {}
      BY <1>6, <2>2, <2>4 DEF Holds
    <3> QED
      BY <1>3, <2>3, <3>1, <3>2, <3>3, <3>4 DEF Holds, AfterMenus
  <2> QED
    BY <1>1, <1>9, <2>2, <2>4, InDirectoryInv DEF s
<1> QED
  BY <1>7, <1>8, <1>9 DEF CopyBootFiles

LEMMA CopyReposInv ==
    ASSUME BuildIsoInv, NEW b \in Builders, CopyRepos(b)
    PROVE  BuildIsoInv'
<1> DEFINE j == builder[b]
           dir == [buildisodir EXCEPT !.repos = buildisodir.repos \cup ReposFor(j)]
<1>1. j.at = "repos" /\ j.at \in Later
  BY DEF CopyRepos, BuildAt, Later
<1>2. j \in Builds /\ j.distro \in IsoDistros /\ buildisodir \in IsoDirs
  BY <1>1, AtWork
<1>3. StepAfter(j) = "autoinstall"
  BY <1>1 DEF StepAfter
<1>4. ASSUME BuildKept(b) PROVE Holds(j, buildisodir, "repos") /\ ~Net(j)
  BY <1>1, <1>4 DEF BuildKept, Prepared, Later
<1>5. CASE Raising(b)
  BY <1>1, <1>5, AtWork
<1>6. CASE ~Airgapped(j) /\ OnDisk(b, buildisodir)
  <2>1. ASSUME BuildKept(b) PROVE Holds(j, buildisodir, StepAfter(j))
    BY <1>3, <1>4, <1>6, <2>1 DEF Holds, AfterMenus
  <2> QED
    BY <1>1, <1>2, <1>6, <2>1, OnDiskInv
<1>7. CASE Airgapped(j) /\ OnDisk(b, dir)
  <2>1. ReposFor(j) \in SUBSET UNION {IsoRepos[x] : x \in Targets}
    BY <1>2, ChosenTyped DEF ReposFor
  <2>2. dir \in IsoDirs /\ dir.menu = buildisodir.menu /\ dir.kernels = buildisodir.kernels
        /\ dir.tree = buildisodir.tree /\ dir.repos = buildisodir.repos \cup ReposFor(j)
        /\ dir.autoinstall = buildisodir.autoinstall
    BY <1>2, <2>1 DEF IsoDirs
  <2> HIDE DEF dir
  <2>3. ASSUME BuildKept(b) PROVE Holds(j, dir, StepAfter(j))
    BY <1>3, <1>4, <1>7, <2>2, <2>3 DEF Holds, AfterMenus
  <2> QED
    BY <1>1, <1>7, <2>2, <2>3, OnDiskInv
<1> QED
  BY <1>2, <1>5, <1>6, <1>7 DEF CopyRepos, IsoDirs

LEMMA WriteAutoinstallInv ==
    ASSUME BuildIsoInv, NEW b \in Builders, WriteAutoinstall(b)
    PROVE  BuildIsoInv'
<1> DEFINE j == builder[b]
           new == {m[1] : m \in j.menu}
           dir == [buildisodir EXCEPT !.autoinstall = buildisodir.autoinstall \cup new]
<1>1. j.at = "autoinstall" /\ j.at \in Later
  BY DEF WriteAutoinstall, BuildAt, Later
<1>2. j \in Builds /\ j.distro \in IsoDistros /\ buildisodir \in IsoDirs
  BY <1>1, AtWork
<1>3. CASE Raising(b)
  BY <1>1, <1>3, AtWork
<1>4. CASE OnDisk(b, dir)
  <2>1. new \in SUBSET Targets
    <3>1. \A m \in j.menu : m[1] \in Targets
      BY <1>2 DEF Builds, IsoEntries
    <3> QED
      BY <3>1
  <2> HIDE DEF new
  <2>2. dir \in IsoDirs /\ dir.menu = buildisodir.menu /\ dir.kernels = buildisodir.kernels
        /\ dir.tree = buildisodir.tree /\ dir.repos = buildisodir.repos
        /\ dir.autoinstall = buildisodir.autoinstall \cup new
    BY <1>2, <2>1 DEF IsoDirs
  <2> HIDE DEF dir
  <2>3. StepAfter(j) = "xorriso"
    BY <1>1 DEF StepAfter
  <2>4. ASSUME BuildKept(b) PROVE Holds(j, dir, StepAfter(j))
    <3>1. Holds(j, buildisodir, "autoinstall") /\ ~Net(j)
      BY <1>1, <2>4 DEF BuildKept, Prepared, Later
    <3> QED
      BY <2>2, <2>3, <3>1 DEF Holds, AfterMenus, new
  <2> QED
    BY <1>1, <1>4, <2>2, <2>4, OnDiskInv
<1> QED
  BY <1>2, <1>3, <1>4 DEF WriteAutoinstall, IsoDirs

LEMMA XorrisoInv ==
    ASSUME BuildIsoInv, NEW b \in Builders, Xorriso(b)
    PROVE  BuildIsoInv'
<1> DEFINE j == builder[b]
<1>1. j.at = "xorriso" /\ j.at \in Later /\ UNCHANGED buildisodir
  BY DEF Xorriso, BuildAt, Later
<1>2. j \in Builds /\ ~Built(j) /\ j.distro \in IsoDistros /\ buildisodir \in IsoDirs /\ iso \in IsoDirs
  BY <1>1, AtWork
<1>3. ASSUME NEW w \in BOOLEAN, Becomes(b, [j EXCEPT !.at = "done", !.wrote = w]),
             iso' = IF w THEN buildisodir ELSE iso, BuildKept(b) /\ ~w => ~j.wrote
      PROVE  BuildIsoInv'
  <2> DEFINE k == [j EXCEPT !.at = "done", !.wrote = w]
  <2>1. /\ k \in Builds /\ k.at = "done" /\ k.alone = j.alone /\ k.order = j.order
        /\ k.wrote = w /\ k.was = j.was /\ k.profiles = j.profiles /\ k.systems = j.systems
        /\ k.distro = j.distro /\ k.menu = j.menu /\ k.copies = j.copies /\ k.torn = j.torn
    BY <1>2 DEF Builds
  <2>2. Becomes(b, k)
    BY <1>3
  <2> HIDE DEF k
  <2>3. Asked(k) /\ k.at # "rest"
    BY <2>1 DEF Asked, Built, Later
  <2>4. ASSUME BuildKept(b), builder'[b] = k PROVE BuildKept(b)'
    <3>1. /\ Net(k) = Net(j) /\ Airgapped(k) = Airgapped(j)
          /\ ReposFor(k) = ReposFor(j) /\ Menus(k) = Menus(j)
      BY <2>1, SameJob
    <3>2. Holds(j, buildisodir, "xorriso") /\ Generated(j)
      BY <1>1, <2>4 DEF BuildKept, Prepared, Generated, Later
    <3>3. Holds(k, buildisodir, "xorriso")
      BY <2>1, <3>1, <3>2 DEF Holds
    <3>4. /\ ~j.wrote /\ iso = j.was /\ j.profiles # {} /\ j.distro \in IsoDistros
          /\ j.menu = Menus(j).menu /\ j.copies = Menus(j).copies
          /\ \E o \in Orders : j.order = {o}
      BY <1>1, <2>4, <3>2 DEF BuildKept, Later
    <3>5. iso' = IF w THEN buildisodir ELSE iso
      BY <1>3
    <3>6. ~Prepared(k)
      BY <2>1 DEF Prepared, Later
    <3>7. w => Holds(k, iso', "xorriso")
      BY <3>3, <3>5
    <3> QED
      BY <2>1, <2>4, <3>1, <3>4, <3>5, <3>6, <3>7 DEF BuildKept
  <2> QED
    BY <1>1, <1>2, <1>3, <2>1, <2>2, <2>3, <2>4, WorksAlone
<1>4. CASE iso' = buildisodir /\ Becomes(b, [j EXCEPT !.at = "done", !.wrote = TRUE])
  BY <1>3, <1>4
<1>5. CASE UNCHANGED iso /\ Becomes(b, [j EXCEPT !.at = "done"])
  <2>1. [j EXCEPT !.at = "done"] = [j EXCEPT !.at = "done", !.wrote = j.wrote] /\ j.wrote \in BOOLEAN
    BY <1>2 DEF Builds
  <2>2. CASE j.wrote
    <3>1. BuildKept(b) => ~j.wrote
      BY <1>1 DEF BuildKept
    <3>2. ~Unmet(b)
      BY <2>2, <3>1 DEF BuildIsoInv
    <3> DEFINE k == [j EXCEPT !.at = "done"]
    <3>3. k \in Builds /\ k.at = "done" /\ k.alone = j.alone
      BY <1>2 DEF Builds
    <3>4. Becomes(b, k)
      BY <1>5
    <3> HIDE DEF k
    <3>5. Asked(k) /\ k.at # "rest"
      BY <3>3 DEF Asked, Built, Later
    <3> QED
      BY <1>1, <1>2, <1>5, <3>2, <3>3, <3>4, <3>5, WorksAlone
  <2>3. CASE ~j.wrote
    BY <1>3, <1>5, <2>1, <2>3
  <2> QED
    BY <2>1, <2>2, <2>3
<1> QED
  BY <1>4, <1>5 DEF Xorriso

LEMMA InitBuildIso == BInit => BuildIsoInv
<1> SUFFICES ASSUME BInit PROVE BuildIsoInv
  OBVIOUS
<1>1. \A b \in Builders : builder[b] = Unbuilt
  BY DEF BInit
<1>2. BuildIsoTyped
  BY <1>1, EmptyDirTyped, UnbuiltTyped DEF BInit, BuildIsoTyped, Asked, Built, Later, Unbuilt
<1>3. \A b \in Builders : ~Unmet(b)
  BY <1>1 DEF Unmet, Unbuilt
<1> QED
  BY <1>2, <1>3 DEF BuildIsoInv, OthersBuilt

LEMMA NextBuildIso ==
    ASSUME BuildIsoInv, [BNext]_bvars
    PROVE  BuildIsoInv'
<1>1. CASE BNext
  BY <1>1, BackgroundBuildisoInv, PrepareSourcesInv, GenerateInv, PrepareBuildisodirInv,
     CreateDirsInv, CopyEspInv, WriteMenusInv, CopyDistroFilesInv, CopyBootFilesInv,
     CopyReposInv, WriteAutoinstallInv, XorrisoInv DEF BNext
<1>2. CASE UNCHANGED bvars
  <2>1. UNCHANGED <<buildisodir, iso, builder>>
    BY <1>2 DEF bvars
  <2>2. BuildIsoTyped'
    BY <2>1 DEF BuildIsoTyped, BuildIsoInv
  <2>3. OthersBuilt'
    BY <2>1 DEF OthersBuilt, Unmet, BuildIsoInv
  <2>4. ASSUME NEW b \in Builders, Unmet(b)' PROVE BuildKept(b)'
    BY <2>1, <2>4 DEF BuildIsoInv, Unmet, BuildKept
  <2> QED
    BY <2>2, <2>3, <2>4 DEF BuildIsoInv
<1> QED
  BY <1>1, <1>2

\* The invariant of the builds: what a build that met no other one has put into the directory,
\* what its entries are, and what it has still to do make up what it was asked for.
THEOREM BuildIsoInvariant == BSpec => []BuildIsoInv
BY InitBuildIso, NextBuildIso, PTL DEF BSpec

LEMMA InvIsoExact == BuildIsoInv => IsoExact
<1> SUFFICES ASSUME BuildIsoInv, NEW b \in Builders, builder[b].alone,
                    builder[b].at \in {"done", "failed"}, ~builder[b].torn
             PROVE  LET j == builder[b] IN
                    IF ~j.wrote THEN iso = j.was
                    ELSE /\ {e[1] : e \in iso.menu} = Chosen(j)
                         /\ \A e \in iso.menu :
                              {k[2] : k \in {c \in iso.kernels : c[1] = e[2]}}
                                  = {IF Net(j) THEN DistroAbove(e[1]) ELSE j.distro}
                         /\ {k[1] : k \in iso.kernels} = {e[2] : e \in iso.menu}
                         /\ iso.tree = IF Net(j) THEN {} ELSE {j.distro}
                         /\ iso.autoinstall = IF Net(j) THEN {} ELSE Chosen(j)
                         /\ iso.repos = IF Airgapped(j) THEN ReposFor(j) ELSE {}
  BY DEF IsoExact
<1> DEFINE j == builder[b]
<1>1. BuildKept(b) /\ j \in Builds
  BY DEF BuildIsoInv, BuildIsoTyped, Unmet
<1>2. CASE ~j.wrote
  BY <1>1, <1>2 DEF BuildKept
<1>3. CASE j.wrote
  <2>1. /\ j.at = "done" /\ Holds(j, iso, "xorriso") /\ j.profiles # {} /\ j.distro \in IsoDistros
        /\ j.menu = Menus(j).menu /\ j.copies = Menus(j).copies
        /\ \E o \in Orders : j.order = {o}
    BY <1>1, <1>3 DEF BuildKept, Generated
  <2>2. /\ iso.menu = Menus(j).menu /\ iso.kernels = Menus(j).copies
        /\ iso.tree = IF Net(j) THEN {} ELSE {j.distro}
        /\ iso.autoinstall = IF Net(j) THEN {} ELSE {m[1] : m \in iso.menu}
        /\ iso.repos = IF Airgapped(j) THEN ReposFor(j) ELSE {}
    BY <2>1 DEF Holds, AfterMenus
  <2>3. Chosen(j) \in SUBSET Targets /\ (~Net(j) => Chosen(j) # {})
    BY <1>1, <2>1, ChosenTyped DEF Chosen
  <2>4. CASE Net(j)
    <3> DEFINE m == NetMenu(Chosen(j))
    <3>1. /\ {e[1] : e \in m.menu} = Chosen(j)
          /\ \A e \in m.menu :
               {k[2] : k \in {c \in m.copies : c[1] = e[2]}} = {DistroAbove(e[1])}
          /\ {k[1] : k \in m.copies} = {e[2] : e \in m.menu}
      BY <2>3, NetMenuBoots
    <3>2. iso.menu = m.menu /\ iso.kernels = m.copies
      BY <2>2, <2>4 DEF Menus
    <3> HIDE DEF m
    <3> QED
      BY <1>3, <2>2, <2>4, <3>1, <3>2
  <2>5. CASE ~Net(j)
    <3> DEFINE m == CdMenu(Chosen(j), j.distro)
    <3>1. /\ {e[1] : e \in m.menu} = Chosen(j)
          /\ \A e \in m.menu : {k[2] : k \in {c \in m.copies : c[1] = e[2]}} = {j.distro}
          /\ {k[1] : k \in m.copies} = {e[2] : e \in m.menu}
      BY <2>1, <2>3, <2>5, CdMenuBoots
    <3>2. iso.menu = m.menu /\ iso.kernels = m.copies
      BY <2>2, <2>5 DEF Menus
    <3> HIDE DEF m
    <3>3. /\ {e[1] : e \in iso.menu} = Chosen(j)
          /\ \A e \in iso.menu : {k[2] : k \in {c \in iso.kernels : c[1] = e[2]}} = {j.distro}
          /\ {k[1] : k \in iso.kernels} = {e[2] : e \in iso.menu}
      BY <3>1, <3>2
    <3>4. iso.autoinstall = Chosen(j) /\ iso.tree = {j.distro}
      BY <2>2, <2>5, <3>3
    <3> QED
      BY <1>3, <2>2, <2>5, <3>3, <3>4
  <2> QED
    BY <2>4, <2>5
<1> QED
  BY <1>2, <1>3

\* A build that no other one has met leaves the old ISO or a new one with exactly what was
\* asked for, whatever the threads, the items and the requests.
THEOREM IsoIsExact == BSpec => []IsoExact
BY BuildIsoInvariant, InvIsoExact, PTL

-----------------------------------------------------------------------------
(***************************************************************************)
(* Import, for any trees, importers and architectures: an import that      *)
(* nothing disturbed has imported the tree.                                *)
(***************************************************************************)

Ids == [by : Importers \X Nat, name : DistroNames]
Trees == Mirrors \cup {NoMirror}
Shelves == UNION {[S -> Trees] : S \in SUBSET Ids}
Names == [DistroNames -> Ids \cup {NoDistro}]
Imports == [at : {"rest", "run", "scan", "winpe", "walk", "dir", "entry", "add", "profile",
                  "repos", "done", "failed"},
            mirror : Trees, dirs : SUBSET Dirs, dir : SUBSET Dirs, archs : SUBSET Archs,
            id : Ids \cup {NoDistro}, boot : Trees, added : SUBSET Ids, search : SUBSET Ids,
            alone : BOOLEAN, before : SUBSET Ids, kept : {<<>>} \cup (Shelves \X Names \X Names)]

ImportTyped ==
    /\ onDisk \in SUBSET Mirrors /\ imports \in Nat
    /\ importmgr \in [path : Trees, autoinstall : BOOLEAN,
                      signature : {"none", "redhat", "suse", "windows", "unknown"}]
    /\ importer \in [Importers -> Imports]
    /\ \A i \in Importers : importer[i].at \in {"add", "profile"} => importer[i].id \in Ids
    /\ distros \in Shelves /\ distroOf \in Names /\ profileOf \in Names
    /\ links \in [DistroNames -> Trees]
    /\ \A n \in DistroNames : DistroNamed(n) => distroOf[n].name = n

\* No distro is of an import to come.
Stamped ==
    /\ \A k \in DOMAIN distros : k.by[2] \leq imports
    /\ \A i \in Importers :
         /\ importer[i].at \in {"add", "profile"} => importer[i].id.by[2] \leq imports
         /\ \A k \in importer[i].added \cup importer[i].search : k.by[2] \leq imports

\* A link has its distro, or is about to get it.
Linked ==
    \A n \in DistroNames : links[n] # NoMirror =>
        \/ DistroNamed(n)
        \/ \E i \in Importers : importer[i].at = "add" /\ importer[i].id.name = n

\* What was there when import i began is there, and is of an earlier import.
Keeps(i) ==
    LET j == importer[i] IN
    /\ \A k \in Importers \ {i} : importer[k].at = "rest"
    /\ j.mirror \in Mirrors
    /\ \A id \in j.before : id.by[2] < imports /\ id \in DOMAIN distros /\ distros[id] = j.kept[1][id]
    /\ \A n \in DistroNames :
         /\ j.kept[2][n] # NoDistro => distroOf[n] = j.kept[2][n]
         /\ j.kept[3][n] # NoDistro => profileOf[n] = j.kept[3][n]

\* The manager is that of import i.
Manages(i) ==
    LET j == importer[i] IN
    /\ j.at # "run" => importmgr.path = j.mirror
    /\ j.at \notin {"run", "scan"} => importmgr.signature = Breed[j.mirror] /\ j.mirror \in onDisk

\* What import i has added is its own, is new, and boots from its tree.
Makes(i) ==
    LET j == importer[i] IN
    /\ j.search \subseteq j.added
    /\ \A k \in j.added : k.by[2] = imports /\ k \in DOMAIN distros /\ distros[k] = j.mirror
                          /\ j.kept[2][k.name] = NoDistro /\ links[k.name] = j.mirror
                          /\ (profileOf[k.name] = NoDistro => j.at = "profile" /\ j.id = k)
    /\ j.at = "add" => /\ j.id.by[2] = imports /\ j.boot = j.mirror
                       /\ j.kept[2][j.id.name] = NoDistro /\ links[j.id.name] = j.mirror
    /\ j.at = "profile" => j.id \in j.added
    /\ \A n \in DistroNames : j.kept[2][n] = NoDistro =>
         /\ DistroNamed(n) => distroOf[n] \in j.added
         /\ links[n] \in {NoMirror, j.mirror}

\* Every kernel and architecture of the tree of import i has a distro, or will be met.
Covers(i) ==
    LET j == importer[i] IN
    /\ \A d \in j.dirs : MirrorOf[d] = j.mirror
    /\ \A c, d \in j.dir : c = d
    /\ j.at \in {"run", "scan", "winpe", "walk", "dir", "repos", "done"} => j.dir = {}
    /\ j.at \in {"repos", "done"} => j.dirs = {}
    /\ j.at \in {"dir", "entry", "add", "profile", "repos", "done"} =>
         \A n \in OwnNames(i) :
            \/ n[1] \in j.dirs
            \/ n[1] \in j.dir /\ n[2] \in j.archs
            \/ DistroNamed(n)
            \/ j.at = "add" /\ j.id.name = n

ImportUndisturbed(i) == Keeps(i) /\ (importer[i].at # "failed" => Manages(i) /\ Makes(i) /\ Covers(i))
ByItself(i) == importer[i].alone /\ importer[i].at # "rest"
ImportInv ==
    /\ ImportTyped /\ Stamped /\ Linked
    /\ \A i \in Importers : ByItself(i) => ImportUndisturbed(i)

-----------------------------------------------------------------------------
\* The names and ids are no NoDistro.
LEMMA IsId ==
    ASSUME NEW k \in Ids
    PROVE  k # NoDistro /\ k.name \in DistroNames
<1>1. k.by \in Importers \X Nat /\ k.name \in DistroNames
  BY DEF Ids
<1>2. k.by # <<>>
  <2>1. PICK a \in Importers, b \in Nat : k.by = <<a, b>>
    BY <1>1
  <2> QED
    BY <2>1
<1>3. NoDistro.by = <<>>
  BY DEF NoDistro
<1> QED
  BY <1>1, <1>2, <1>3

LEMMA ShelfIs ==
    ASSUME NEW f \in Shelves
    PROVE  DOMAIN f \subseteq Ids /\ \A k \in DOMAIN f : f[k] \in Trees
<1>1. PICK S \in SUBSET Ids : f \in [S -> Trees]
  BY DEF Shelves
<1> QED
  BY <1>1

\* What List does.
ListedAs(id, boot) ==
    /\ distros' \in Shelves /\ DOMAIN distros' = DOMAIN distros \cup {id}
    /\ \A k \in DOMAIN distros' : distros'[k] = IF k = id THEN boot ELSE distros[k]
    /\ distroOf' \in Names
    /\ \A n \in DistroNames : distroOf'[n] = IF n = id.name THEN id ELSE distroOf[n]
    /\ \A n \in DistroNames : distroOf'[n] # NoDistro => distroOf'[n].name = n
    /\ \A n \in DistroNames : distroOf[n] # NoDistro => distroOf'[n] # NoDistro
    /\ distroOf'[id.name] # NoDistro

LEMMA ListIs ==
    ASSUME ImportTyped, NEW id \in Ids, NEW boot \in Trees, List(id, boot)
    PROVE  ListedAs(id, boot)
<1>1. /\ DOMAIN distros \subseteq Ids /\ \A k \in DOMAIN distros : distros[k] \in Trees
      /\ distroOf \in Names /\ id # NoDistro /\ id.name \in DistroNames
      /\ \A n \in DistroNames : distroOf[n] # NoDistro => distroOf[n].name = n
  BY ShelfIs, IsId DEF ImportTyped, DistroNamed
<1>2. distros' = [k \in DOMAIN distros \cup {id} |-> IF k = id THEN boot ELSE distros[k]]
  BY DEF List
<1>3. distros' \in [DOMAIN distros \cup {id} -> Trees]
  BY <1>1, <1>2
<1>4. distros' \in Shelves
  BY <1>1, <1>3 DEF Shelves
<1>5. distroOf' \in Names /\ \A n \in DistroNames : distroOf'[n] = IF n = id.name THEN id ELSE distroOf[n]
  BY <1>1 DEF List, Names
<1> QED
  BY <1>1, <1>2, <1>4, <1>5 DEF ListedAs

LEMMA OneMoves ==
    ASSUME ImportInv, NEW i \in Importers, importer[i].at # "rest", NEW r \in Imports,
           importer' = [importer EXCEPT ![i] = r]
    PROVE  /\ importer' \in [Importers -> Imports] /\ importer'[i] = r
           /\ \A k \in Importers \ {i} : importer'[k] = importer[k]
<1> QED
  BY DEF ImportInv, ImportTyped

\* Only the import that acts can be one that met nobody.
LEMMA OthersStay ==
    ASSUME ImportInv, NEW i \in Importers, importer[i].at # "rest", NEW r \in Imports,
           importer' = [importer EXCEPT ![i] = r], r.alone = importer[i].alone,
           ByItself(i) => ImportUndisturbed(i)'
    PROVE  \A k \in Importers : ByItself(k)' => ImportUndisturbed(k)'
<1> SUFFICES ASSUME NEW k \in Importers, ByItself(k)' PROVE ImportUndisturbed(k)'
  OBVIOUS
<1>1. importer'[i] = r /\ \A h \in Importers \ {i} : importer'[h] = importer[h]
  BY OneMoves
<1>2. CASE k = i
  <2>1. r.alone
    BY <1>1, <1>2 DEF ByItself
  <2> QED
    BY <1>2, <2>1 DEF ByItself
<1>3. CASE k # i
  <2>1. ByItself(k)
    BY <1>1, <1>3 DEF ByItself
  <2>2. Keeps(k)
    BY <2>1 DEF ImportInv, ImportUndisturbed
  <2> QED
    BY <1>3, <2>2 DEF Keeps
<1> QED
  BY <1>2, <1>3

\* A step of import i that leaves the items alone.
LEMMA QuietMoves ==
    ASSUME ImportInv, NEW i \in Importers, NEW r \in Imports,
           importer[i].at \in {"run", "scan", "winpe", "walk", "dir", "entry", "repos"},
           importer' = [importer EXCEPT ![i] = r],
           UNCHANGED <<items, imports>>, onDisk' \in SUBSET Mirrors,
           importmgr' \in [path : Trees, autoinstall : BOOLEAN,
                           signature : {"none", "redhat", "suse", "windows", "unknown"}],
           r.at \notin {"add", "profile", "rest"},
           r.alone = importer[i].alone, r.before = importer[i].before, r.kept = importer[i].kept,
           r.mirror = importer[i].mirror, r.added = importer[i].added, r.search \subseteq r.added \cup importer[i].search,
           ByItself(i) /\ ImportUndisturbed(i) /\ r.at # "failed" =>
               Manages(i)' /\ Covers(i)' /\ r.search \subseteq r.added
    PROVE  ImportInv'
<1>1. /\ importer' \in [Importers -> Imports] /\ importer'[i] = r
      /\ \A k \in Importers \ {i} : importer'[k] = importer[k]
  BY OneMoves
<1>2. UNCHANGED <<distros, distroOf, profileOf, links, imports>>
  BY DEF items
<1>3. ImportTyped'
  BY <1>1, <1>2 DEF ImportInv, ImportTyped, DistroNamed
<1>4. Stamped'
  BY <1>1, <1>2 DEF ImportInv, Stamped
<1>5. Linked'
  BY <1>1, <1>2 DEF ImportInv, Linked, DistroNamed
<1>6. ASSUME ByItself(i) PROVE ImportUndisturbed(i)'
  <2>1. ImportUndisturbed(i) /\ Keeps(i) /\ Makes(i)
    BY <1>6 DEF ImportInv, ImportUndisturbed
  <2>2. Keeps(i)'
    BY <1>1, <1>2, <2>1 DEF Keeps
  <2>3. CASE r.at = "failed"
    BY <1>1, <2>2, <2>3 DEF ImportUndisturbed
  <2>4. CASE r.at # "failed"
    <3>1. Manages(i)' /\ Covers(i)' /\ r.search \subseteq r.added
      BY <1>6, <2>1, <2>4
    <3>2. Makes(i)'
      BY <1>1, <1>2, <2>1, <3>1 DEF Makes, DistroNamed
    <3> QED
      BY <2>2, <3>1, <3>2 DEF ImportUndisturbed
  <2> QED
    BY <2>3, <2>4
<1>7. \A k \in Importers : ByItself(k)' => ImportUndisturbed(k)'
  BY <1>6, OthersStay
<1> QED
  BY <1>3, <1>4, <1>5, <1>7 DEF ImportInv

LEMMA FailsKeeps ==
    ASSUME ImportInv, NEW i \in Importers, Raise(i),
           importer[i].at \in {"run", "scan", "winpe", "walk", "dir", "entry", "repos"},
           UNCHANGED <<items, imports>>, onDisk' \in SUBSET Mirrors,
           importmgr' \in [path : Trees, autoinstall : BOOLEAN,
                           signature : {"none", "redhat", "suse", "windows", "unknown"}]
    PROVE  ImportInv'
<1> DEFINE r == [importer[i] EXCEPT !.at = "failed"]
<1>1. importer[i] \in Imports
  BY DEF ImportInv, ImportTyped
<1>2. /\ r \in Imports /\ r.at = "failed" /\ r.alone = importer[i].alone
      /\ r.before = importer[i].before /\ r.kept = importer[i].kept
      /\ r.mirror = importer[i].mirror /\ r.added = importer[i].added /\ r.search = importer[i].search
  BY <1>1 DEF Imports
<1>3. importer' = [importer EXCEPT ![i] = r]
  BY DEF Raise, Step, Move
<1> HIDE DEF r
<1> QED
  BY <1>2, <1>3, QuietMoves

LEMMA RunKept ==
    ASSUME ImportInv, NEW i \in Importers, Run(i)
    PROVE  ImportInv'
<1> DEFINE r == [importer[i] EXCEPT !.at = "scan"]
<1>1. importer[i] \in Imports /\ importer[i].at = "run" /\ onDisk' \in SUBSET Mirrors
  BY DEF ImportInv, ImportTyped, Run, InStep, disk
<1>2. /\ r \in Imports /\ r.at = "scan" /\ r.alone = importer[i].alone
      /\ r.before = importer[i].before /\ r.kept = importer[i].kept /\ r.dirs = importer[i].dirs
      /\ r.mirror = importer[i].mirror /\ r.added = importer[i].added
      /\ r.search = importer[i].search /\ r.dir = importer[i].dir
  BY <1>1 DEF Imports
<1>3. importer' = [importer EXCEPT ![i] = r] /\ UNCHANGED <<items, imports>>
  BY DEF Run, Step, Move
<1>4. /\ importmgr' \in [path : Trees, autoinstall : BOOLEAN,
                         signature : {"none", "redhat", "suse", "windows", "unknown"}]
      /\ importmgr'.path = importer[i].mirror
  BY <1>1 DEF Run, ImportInv, ImportTyped, Imports
<1> HIDE DEF r
<1>5. importer'[i] = r
  BY <1>1, <1>2, <1>3, OneMoves
<1>6. ASSUME ImportUndisturbed(i) PROVE Manages(i)' /\ Covers(i)' /\ r.search \subseteq r.added
  BY <1>1, <1>2, <1>4, <1>5, <1>6 DEF ImportUndisturbed, Manages, Covers, Makes
<1> QED
  BY <1>1, <1>2, <1>3, <1>4, <1>6, QuietMoves

LEMMA ScanKept ==
    ASSUME ImportInv, NEW i \in Importers, ScanSignatures(i)
    PROVE  ImportInv'
<1> DEFINE found == importmgr.path \in onDisk /\ Breed[importmgr.path] # "unknown"
<1>1. /\ importer[i] \in Imports /\ importer[i].at = "scan" /\ onDisk' = onDisk
      /\ onDisk \in SUBSET Mirrors /\ UNCHANGED <<items, imports>>
      /\ importmgr \in [path : Trees, autoinstall : BOOLEAN,
                        signature : {"none", "redhat", "suse", "windows", "unknown"}]
  BY DEF ImportInv, ImportTyped, ScanSignatures, InStep, disk
<1>2. CASE ~found
  <2>1. importmgr' = [importmgr EXCEPT !.signature = "none"] /\ Raise(i)
    BY <1>2 DEF ScanSignatures
  <2> QED
    BY <1>1, <2>1, FailsKeeps
<1>3. CASE found
  <2> DEFINE a == IF Breed[importmgr.path] = "windows" THEN "winpe" ELSE "walk"
             r == [importer[i] EXCEPT !.at = a]
  <2>1. /\ importmgr' = [importmgr EXCEPT !.signature = Breed[importmgr.path], !.autoinstall = TRUE]
        /\ importer' = [importer EXCEPT ![i] = r]
    BY <1>3 DEF ScanSignatures, Step, Move
  <2>2. /\ r \in Imports /\ r.at \in {"winpe", "walk"} /\ r.alone = importer[i].alone
        /\ r.before = importer[i].before /\ r.kept = importer[i].kept /\ r.dirs = importer[i].dirs
        /\ r.mirror = importer[i].mirror /\ r.added = importer[i].added
        /\ r.search = importer[i].search /\ r.dir = importer[i].dir
    BY <1>1 DEF Imports
  <2>3. Breed[importmgr.path] \in {"redhat", "suse", "windows", "unknown"}
    BY <1>1, <1>3, ImportAssumption
  <2>4. /\ importmgr' \in [path : Trees, autoinstall : BOOLEAN,
                           signature : {"none", "redhat", "suse", "windows", "unknown"}]
        /\ importmgr'.path = importmgr.path /\ importmgr'.signature = Breed[importmgr.path]
    BY <1>1, <2>1, <2>3
  <2> HIDE DEF r, a
  <2>5. importer'[i] = r
    BY <1>1, <2>1, <2>2, OneMoves
  <2>6. ASSUME ImportUndisturbed(i) PROVE Manages(i)' /\ Covers(i)' /\ r.search \subseteq r.added
    <3>1. importmgr.path = importer[i].mirror /\ Covers(i) /\ Makes(i)
      BY <1>1, <2>6 DEF ImportUndisturbed, Manages
    <3>2. Manages(i)'
      BY <1>1, <1>3, <2>2, <2>4, <2>5, <3>1 DEF Manages
    <3>3. Covers(i)'
      BY <1>1, <2>2, <2>5, <3>1 DEF Covers
    <3> QED
      BY <2>2, <3>1, <3>2, <3>3 DEF Makes
  <2> QED
    BY <1>1, <2>1, <2>2, <2>4, <2>6, QuietMoves
<1> QED
  BY <1>2, <1>3

LEMMA WinpeKept ==
    ASSUME ImportInv, NEW i \in Importers, ImportWinpe(i)
    PROVE  ImportInv'
<1>1. /\ importer[i] \in Imports /\ importer[i].at = "winpe" /\ onDisk' = onDisk
      /\ onDisk \in SUBSET Mirrors /\ UNCHANGED <<items, imports>> /\ importmgr' = importmgr
      /\ importmgr \in [path : Trees, autoinstall : BOOLEAN,
                        signature : {"none", "redhat", "suse", "windows", "unknown"}]
  BY DEF ImportInv, ImportTyped, ImportWinpe, InStep
<1>2. CASE Raise(i)
  BY <1>1, <1>2, FailsKeeps
<1>3. CASE Step(i, "walk")
  <2> DEFINE r == [importer[i] EXCEPT !.at = "walk"]
  <2>1. importer' = [importer EXCEPT ![i] = r]
    BY <1>3 DEF Step, Move
  <2>2. /\ r \in Imports /\ r.at = "walk" /\ r.alone = importer[i].alone
        /\ r.before = importer[i].before /\ r.kept = importer[i].kept /\ r.dirs = importer[i].dirs
        /\ r.mirror = importer[i].mirror /\ r.added = importer[i].added
        /\ r.search = importer[i].search /\ r.dir = importer[i].dir
    BY <1>1 DEF Imports
  <2> HIDE DEF r
  <2>3. importer'[i] = r
    BY <1>1, <2>1, <2>2, OneMoves
  <2>4. ASSUME ImportUndisturbed(i) PROVE Manages(i)' /\ Covers(i)' /\ r.search \subseteq r.added
    BY <1>1, <2>2, <2>3, <2>4 DEF ImportUndisturbed, Manages, Covers, Makes
  <2> QED
    BY <1>1, <2>1, <2>2, <2>4, QuietMoves
<1> QED
  BY <1>2, <1>3 DEF ImportWinpe, ExtractWinpe, ExtractFilesFromWim, UpdateWinpe

LEMMA WalkKept ==
    ASSUME ImportInv, NEW i \in Importers, Walk(i)
    PROVE  ImportInv'
<1> DEFINE ds == {d \in Dirs : MirrorOf[d] = importmgr.path /\ importmgr.path \in onDisk}
           r == [importer[i] EXCEPT !.at = "dir", !.dirs = ds]
<1>1. /\ importer[i] \in Imports /\ importer[i].at = "walk" /\ onDisk' = onDisk
      /\ onDisk \in SUBSET Mirrors /\ UNCHANGED <<items, imports>> /\ importmgr' = importmgr
      /\ importmgr \in [path : Trees, autoinstall : BOOLEAN,
                        signature : {"none", "redhat", "suse", "windows", "unknown"}]
  BY DEF ImportInv, ImportTyped, Walk, InStep, disk
<1>2. importer' = [importer EXCEPT ![i] = r]
  BY DEF Walk, Move
<1>3. /\ r \in Imports /\ r.at = "dir" /\ r.alone = importer[i].alone /\ r.dirs = ds
      /\ r.before = importer[i].before /\ r.kept = importer[i].kept
      /\ r.mirror = importer[i].mirror /\ r.added = importer[i].added
      /\ r.search = importer[i].search /\ r.dir = importer[i].dir
  BY <1>1 DEF Imports
<1> HIDE DEF r
<1>4. importer'[i] = r
  BY <1>1, <1>2, <1>3, OneMoves
<1>5. ASSUME ImportUndisturbed(i) PROVE Manages(i)' /\ Covers(i)' /\ r.search \subseteq r.added
  <2>1. /\ importmgr.path = importer[i].mirror /\ importer[i].mirror \in onDisk
        /\ Covers(i) /\ Makes(i) /\ Manages(i)
    BY <1>1, <1>5 DEF ImportUndisturbed, Manages
  <2>2. Manages(i)'
    BY <1>1, <1>3, <1>4, <2>1 DEF Manages
  <2>3. \A n \in OwnNames(i)' : n[1] \in r.dirs
    BY <1>1, <1>3, <1>4, <2>1 DEF OwnNames, DistroNames
  <2>4. Covers(i)'
    BY <1>1, <1>3, <1>4, <2>1, <2>3 DEF Covers
  <2> QED
    BY <1>3, <2>1, <2>2, <2>4 DEF Makes
<1> QED
  BY <1>1, <1>2, <1>3, <1>5, QuietMoves

LEMMA AdderKept ==
    ASSUME ImportInv, NEW i \in Importers, DistroAdder(i)
    PROVE  ImportInv'
<1>1. /\ importer[i] \in Imports /\ importer[i].at = "dir" /\ onDisk' = onDisk
      /\ onDisk \in SUBSET Mirrors /\ UNCHANGED <<items, imports>> /\ importmgr' = importmgr
      /\ importmgr \in [path : Trees, autoinstall : BOOLEAN,
                        signature : {"none", "redhat", "suse", "windows", "unknown"}]
  BY DEF ImportInv, ImportTyped, DistroAdder, InStep, disk
<1> DEFINE Kernel(d) == MirrorOf[d] \in onDisk /\ Breed[MirrorOf[d]] = importmgr.signature
           R(d) == [importer[i] EXCEPT !.dirs = @ \ {d}, !.dir = {d},
                       !.archs = IF Kernel(d) THEN ArchsFound ELSE {}, !.at = "entry"]
<1>2. PICK d \in importer[i].dirs : importer' = [importer EXCEPT ![i] = R(d)]
  BY DEF DistroAdder, Move
<1> DEFINE r == R(d)
<1>3. ArchsFound \in SUBSET Archs
  BY <1>1, ImportAssumption DEF ArchsFound
<1>4. d \in Dirs
  BY <1>1 DEF Imports
<1>5. /\ r \in Imports /\ r.at = "entry" /\ r.alone = importer[i].alone
      /\ r.dirs = importer[i].dirs \ {d} /\ r.dir = {d}
      /\ r.archs = IF Kernel(d) THEN ArchsFound ELSE {}
      /\ r.before = importer[i].before /\ r.kept = importer[i].kept
      /\ r.mirror = importer[i].mirror /\ r.added = importer[i].added
      /\ r.search = importer[i].search
  BY <1>1, <1>3, <1>4 DEF Imports
<1>6. importer' = [importer EXCEPT ![i] = r]
  BY <1>2
<1> HIDE DEF r
<1>7. importer'[i] = r
  BY <1>1, <1>5, <1>6, OneMoves
<1>8. ASSUME ImportUndisturbed(i) PROVE Manages(i)' /\ Covers(i)' /\ r.search \subseteq r.added
  <2>1. /\ importmgr.path = importer[i].mirror /\ importer[i].mirror \in onDisk
        /\ importmgr.signature = Breed[importer[i].mirror]
        /\ Covers(i) /\ Makes(i) /\ Manages(i)
    BY <1>1, <1>8 DEF ImportUndisturbed, Manages
  <2>2. Manages(i)'
    BY <1>1, <1>5, <1>7, <2>1 DEF Manages
  <2>3. r.archs = ArchsIn[importer[i].mirror]
    BY <1>5, <2>1 DEF Covers, ArchsFound
  <2>4. OwnNames(i)' = OwnNames(i) /\ \A n \in OwnNames(i) : n[2] \in r.archs
    BY <1>5, <1>7, <2>3 DEF OwnNames
  <2>5. \A n \in OwnNames(i) : n[1] \in importer[i].dirs \/ DistroNamed(n)
    BY <1>1, <2>1 DEF Covers
  <2>6. UNCHANGED distroOf
    BY <1>1 DEF items
  <2>7. \A n \in OwnNames(i)' : n[1] \in r.dirs \/ (n[1] \in r.dir /\ n[2] \in r.archs) \/ DistroNamed(n)'
    BY <1>5, <2>4, <2>5, <2>6 DEF DistroNamed
  <2>8. Covers(i)'
    BY <1>5, <1>7, <2>1, <2>7 DEF Covers
  <2> QED
    BY <1>5, <2>1, <2>2, <2>8 DEF Makes
<1> QED
  BY <1>1, <1>5, <1>6, <1>8, QuietMoves

\* The name of an architecture of the directory is taken, or there is none left.
LEMMA EntrySkips ==
    ASSUME ImportInv, NEW i \in Importers, NEW r \in Imports,
           importer[i].at = "entry", importer' = [importer EXCEPT ![i] = r],
           UNCHANGED <<disk, importmgr, items, imports>>,
           r.alone = importer[i].alone, r.before = importer[i].before, r.kept = importer[i].kept,
           r.mirror = importer[i].mirror, r.added = importer[i].added,
           r.search = importer[i].search, r.dirs = importer[i].dirs,
           \/ r.at = "dir" /\ importer[i].archs = {} /\ r.dir = {}
           \/ \E d \in importer[i].dir, a \in importer[i].archs :
                /\ DistroNamed(<<d, a>>) /\ r.at = "entry"
                /\ r.dir = importer[i].dir /\ r.archs = importer[i].archs \ {a}
    PROVE  ImportInv'
<1>1. /\ onDisk' = onDisk /\ onDisk \in SUBSET Mirrors /\ importmgr' = importmgr
      /\ importmgr \in [path : Trees, autoinstall : BOOLEAN,
                        signature : {"none", "redhat", "suse", "windows", "unknown"}]
      /\ UNCHANGED distroOf
  BY DEF ImportInv, ImportTyped, disk, items
<1>2. importer'[i] = r
  BY OneMoves
<1>3. ASSUME ImportUndisturbed(i) PROVE Manages(i)' /\ Covers(i)' /\ r.search \subseteq r.added
  <2>1. Covers(i) /\ Makes(i) /\ Manages(i)
    BY <1>3 DEF ImportUndisturbed
  <2>2. Manages(i)'
    BY <1>1, <1>2, <2>1 DEF Manages
  <2>3. OwnNames(i)' = OwnNames(i) /\ OwnNames(i) \subseteq DistroNames
    BY <1>2 DEF OwnNames
  <2>4. \A n \in OwnNames(i) : \/ n[1] \in importer[i].dirs \/ DistroNamed(n)
                               \/ n[1] \in importer[i].dir /\ n[2] \in importer[i].archs
    BY <2>1 DEF Covers
  <2>5. ASSUME NEW n \in OwnNames(i)
        PROVE  n[1] \in r.dirs \/ (n[1] \in r.dir /\ n[2] \in r.archs) \/ DistroNamed(n)'
    <3>1. DistroNamed(n)' <=> DistroNamed(n)
      BY <1>1 DEF DistroNamed
    <3>2. CASE r.at = "dir" /\ importer[i].archs = {} /\ r.dir = {}
      BY <2>4, <3>1, <3>2
    <3>3. ASSUME NEW d \in importer[i].dir, NEW a \in importer[i].archs,
                 DistroNamed(<<d, a>>), r.dir = importer[i].dir, r.archs = importer[i].archs \ {a},
                 n[1] \in importer[i].dir, n[2] \in importer[i].archs, n[2] \notin r.archs
          PROVE  DistroNamed(n)
      <4>1. n[1] = d /\ n[2] = a
        BY <2>1, <3>3 DEF Covers
      <4>2. n \in Dirs \X Archs
        BY <2>3 DEF DistroNames
      <4>3. n = <<d, a>>
        BY <4>1, <4>2
      <4> QED
        BY <3>3, <4>3
    <3> QED
      BY <2>4, <3>1, <3>2, <3>3
  <2>6. Covers(i)'
    BY <1>2, <2>1, <2>3, <2>5 DEF Covers
  <2> QED
    BY <2>1, <2>2, <2>6 DEF Makes
<1> QED
  BY <1>1, <1>3, QuietMoves

\* A distro is made for an architecture of the directory.
LEMMA EntryMakes ==
    ASSUME ImportInv, NEW i \in Importers, NEW d \in importer[i].dir, NEW a \in importer[i].archs,
           importer[i].at = "entry", ~DistroNamed(<<d, a>>),
           links' = TreeLocation(<<d, a>>),
           Move(i, [importer[i] EXCEPT !.archs = @ \ {a}, !.at = "add",
                      !.id = [by |-> <<i, imports>>, name |-> <<d, a>>], !.boot = importmgr.path]),
           UNCHANGED <<disk, importmgr, distros, distroOf, profileOf, template, imports>>
    PROVE  ImportInv'
<1> DEFINE n == <<d, a>>
           id == [by |-> <<i, imports>>, name |-> n]
           r == [importer[i] EXCEPT !.archs = @ \ {a}, !.at = "add", !.id = id, !.boot = importmgr.path]
<1>1. /\ importer[i] \in Imports /\ n \in DistroNames /\ imports \in Nat
      /\ importmgr.path \in Trees /\ links \in [DistroNames -> Trees]
  BY DEF ImportInv, ImportTyped, Imports, DistroNames
<1>2. id \in Ids /\ id.by[2] = imports /\ id.name = n
  BY <1>1 DEF Ids
<1>3. importer' = [importer EXCEPT ![i] = r]
  BY DEF Move
<1> HIDE DEF id
<1>4. /\ r \in Imports /\ r.at = "add" /\ r.id = id /\ r.boot = importmgr.path
      /\ r.archs = importer[i].archs \ {a} /\ r.dirs = importer[i].dirs /\ r.dir = importer[i].dir
      /\ r.alone = importer[i].alone /\ r.before = importer[i].before /\ r.kept = importer[i].kept
      /\ r.mirror = importer[i].mirror /\ r.added = importer[i].added
      /\ r.search = importer[i].search
  BY <1>1, <1>2 DEF Imports
<1> HIDE DEF r
<1>5. /\ importer' \in [Importers -> Imports] /\ importer'[i] = r
      /\ \A k \in Importers \ {i} : importer'[k] = importer[k]
  BY <1>3, <1>4, OneMoves
<1> HIDE DEF n
<1>6. /\ links' \in [DistroNames -> Trees]
      /\ \A k \in DistroNames : links'[k] = IF k = n /\ links[n] = NoMirror THEN importmgr.path ELSE links[k]
  BY <1>1 DEF TreeLocation, n
<1>7. ImportTyped'
  BY <1>2, <1>4, <1>5, <1>6 DEF ImportInv, ImportTyped, disk, DistroNamed
<1>8. Stamped'
  BY <1>1, <1>2, <1>4, <1>5 DEF ImportInv, Stamped
<1>9. Linked'
  <2> SUFFICES ASSUME NEW m \in DistroNames, links'[m] # NoMirror
               PROVE  DistroNamed(m)' \/ \E k \in Importers : importer'[k].at = "add" /\ importer'[k].id.name = m
    BY DEF Linked
  <2>1. CASE m = n
    BY <1>2, <1>4, <1>5, <2>1
  <2>2. CASE m # n
    <3>1. links[m] # NoMirror
      BY <1>6, <2>2
    <3>2. DistroNamed(m) \/ \E k \in Importers : importer[k].at = "add" /\ importer[k].id.name = m
      BY <3>1 DEF ImportInv, Linked
    <3> QED
      BY <1>5, <3>2 DEF DistroNamed
  <2> QED
    BY <2>1, <2>2
<1>10. ASSUME ByItself(i) PROVE ImportUndisturbed(i)'
  <2>1. Keeps(i) /\ Covers(i) /\ Makes(i) /\ Manages(i)
    BY <1>10 DEF ImportInv, ImportUndisturbed
  <2>2. Keeps(i)'
    BY <1>4, <1>5, <2>1 DEF Keeps
  <2>3. Manages(i)'
    BY <1>4, <1>5, <2>1 DEF Manages, disk
  <2>4. importmgr.path = importer[i].mirror /\ importer[i].mirror \in Mirrors
    BY <2>1 DEF Manages, Keeps
  <2>5. importer[i].kept[2][n] = NoDistro
    BY <1>1, <2>1 DEF Keeps, DistroNamed, n
  <2>6. links'[n] = importer[i].mirror
    BY <1>1, <1>6, <2>1, <2>4, <2>5 DEF Makes
  <2>7. \A k \in DistroNames : links[k] = importer[i].mirror => links'[k] = importer[i].mirror
    BY <1>6, <2>4
  <2>8. Makes(i)'
    <3>1. \A k \in importer[i].added : k.name \in DistroNames
      BY <1>1, IsId DEF Imports
    <3>2. /\ r.search \subseteq r.added /\ r.at # "profile"
          /\ \A k \in DistroNames : r.kept[2][k] = NoDistro =>
               /\ DistroNamed(k)' => distroOf'[k] \in r.added
               /\ links'[k] \in {NoMirror, r.mirror}
      BY <1>4, <1>6, <2>1, <2>4 DEF Makes, DistroNamed
    <3>3. \A k \in r.added : k.by[2] = imports' /\ k \in DOMAIN distros' /\ distros'[k] = r.mirror
                  /\ r.kept[2][k.name] = NoDistro /\ links'[k.name] = r.mirror
                  /\ profileOf'[k.name] # NoDistro
      BY <1>4, <2>1, <2>7, <3>1 DEF Makes
    <3>4. r.id.by[2] = imports' /\ r.boot = r.mirror /\ r.kept[2][r.id.name] = NoDistro
          /\ links'[r.id.name] = r.mirror
      BY <1>2, <1>4, <2>4, <2>5, <2>6
    <3> QED
      BY <1>5, <3>2, <3>3, <3>4 DEF Makes
  <2>9. Covers(i)'
    <3>1. OwnNames(i)' = OwnNames(i) /\ OwnNames(i) \subseteq DistroNames
      BY <1>4, <1>5 DEF OwnNames
    <3>2. \A m \in OwnNames(i) : \/ m[1] \in importer[i].dirs \/ DistroNamed(m)
                                 \/ m[1] \in importer[i].dir /\ m[2] \in importer[i].archs
      BY <2>1 DEF Covers
    <3>3. ASSUME NEW m \in OwnNames(i), m[1] \in importer[i].dir, m[2] = a PROVE m = n
      <4>1. m \in Dirs \X Archs /\ m[1] = d
        BY <2>1, <3>1, <3>3 DEF Covers, DistroNames
      <4> QED
        BY <3>3, <4>1 DEF n
    <3>4. \A m \in OwnNames(i) : \/ m[1] \in r.dirs
                                 \/ m[1] \in r.dir /\ m[2] \in r.archs
                                 \/ DistroNamed(m)'
                                 \/ r.id.name = m
      BY <1>2, <1>4, <3>2, <3>3 DEF DistroNamed
    <3> QED
      BY <1>4, <1>5, <2>1, <3>1, <3>4 DEF Covers
  <2> QED
    BY <2>2, <2>3, <2>8, <2>9 DEF ImportUndisturbed
<1>11. \A k \in Importers : ByItself(k)' => ImportUndisturbed(k)'
  BY <1>3, <1>4, <1>10, OthersStay
<1> QED
  BY <1>7, <1>8, <1>9, <1>11 DEF ImportInv

LEMMA EntryKept ==
    ASSUME ImportInv, NEW i \in Importers, AddEntry(i)
    PROVE  ImportInv'
<1>1. /\ importer[i] \in Imports /\ importer[i].at = "entry"
      /\ onDisk' = onDisk /\ onDisk \in SUBSET Mirrors /\ importmgr' = importmgr
      /\ importmgr \in [path : Trees, autoinstall : BOOLEAN,
                        signature : {"none", "redhat", "suse", "windows", "unknown"}]
      /\ UNCHANGED <<disk, importmgr, distros, distroOf, profileOf, template, imports>>
  BY DEF ImportInv, ImportTyped, AddEntry, InStep, disk
<1>2. CASE importer[i].archs = {}
  <2> DEFINE r == [importer[i] EXCEPT !.at = "dir", !.dir = {}]
  <2>1. importer' = [importer EXCEPT ![i] = r] /\ UNCHANGED links
    BY <1>2 DEF AddEntry, Move
  <2>2. /\ r \in Imports /\ r.at = "dir" /\ r.dir = {} /\ r.dirs = importer[i].dirs
        /\ r.alone = importer[i].alone /\ r.before = importer[i].before /\ r.kept = importer[i].kept
        /\ r.mirror = importer[i].mirror /\ r.added = importer[i].added
        /\ r.search = importer[i].search
    BY <1>1 DEF Imports
  <2> HIDE DEF r
  <2> QED
    BY <1>1, <1>2, <2>1, <2>2, EntrySkips DEF items
<1>3. CASE importer[i].archs # {}
  <2>1. PICK d \in importer[i].dir, a \in importer[i].archs :
          IF DistroNamed(<<d, a>>)
          THEN Move(i, [importer[i] EXCEPT !.archs = @ \ {a}]) /\ UNCHANGED links
          ELSE IF MirrorOf[d] \notin onDisk THEN Raise(i) /\ UNCHANGED links
          ELSE /\ Move(i, [importer[i] EXCEPT !.archs = @ \ {a}, !.at = "add",
                      !.id = [by |-> <<i, imports>>, name |-> <<d, a>>], !.boot = importmgr.path])
               /\ links' = TreeLocation(<<d, a>>)
    BY <1>3 DEF AddEntry
  <2>2. CASE DistroNamed(<<d, a>>)
    <3> DEFINE r == [importer[i] EXCEPT !.archs = @ \ {a}]
    <3>1. importer' = [importer EXCEPT ![i] = r] /\ UNCHANGED links
      BY <2>1, <2>2 DEF Move
    <3>2. /\ r \in Imports /\ r.at = "entry" /\ r.dir = importer[i].dir /\ r.dirs = importer[i].dirs
          /\ r.archs = importer[i].archs \ {a}
          /\ r.alone = importer[i].alone /\ r.before = importer[i].before /\ r.kept = importer[i].kept
          /\ r.mirror = importer[i].mirror /\ r.added = importer[i].added
          /\ r.search = importer[i].search
      BY <1>1 DEF Imports
    <3> HIDE DEF r
    <3>3. \E c \in importer[i].dir, b \in importer[i].archs :
             /\ DistroNamed(<<c, b>>) /\ r.at = "entry"
             /\ r.dir = importer[i].dir /\ r.archs = importer[i].archs \ {b}
      BY <2>2, <3>2
    <3> QED
      BY <1>1, <3>1, <3>2, <3>3, EntrySkips DEF items
  <2>3. CASE ~DistroNamed(<<d, a>>) /\ MirrorOf[d] \notin onDisk
    BY <1>1, <2>1, <2>3, FailsKeeps DEF items
  <2>4. CASE ~DistroNamed(<<d, a>>) /\ MirrorOf[d] \in onDisk
    BY <1>1, <2>1, <2>4, EntryMakes
  <2> QED
    BY <2>2, <2>3, <2>4
<1> QED
  BY <1>2, <1>3

LEMMA AddDistroKept ==
    ASSUME ImportInv, NEW i \in Importers, AddDistro(i)
    PROVE  ImportInv'
<1>0. /\ importer[i] \in Imports /\ importer[i].at = "add" /\ importer[i].id \in Ids
      /\ importer[i].boot \in Trees /\ imports \in Nat
  BY DEF ImportInv, ImportTyped, AddDistro, InStep, Imports
<1> PICK id \in Ids, boot \in Trees : id = importer[i].id /\ boot = importer[i].boot
  BY <1>0
<1> DEFINE r == [importer[i] EXCEPT !.at = "profile", !.added = @ \cup {id}]
<1>1. /\ importer[i] \in Imports /\ importer[i].at = "add" /\ id \in Ids /\ id.name \in DistroNames
      /\ imports \in Nat
      /\ UNCHANGED <<disk, importmgr, profileOf, links, template, imports>>
  BY <1>0, IsId DEF AddDistro
<1>2. /\ r \in Imports /\ r.at = "profile" /\ r.id = id /\ r.dir = importer[i].dir
      /\ r.dirs = importer[i].dirs /\ r.archs = importer[i].archs
      /\ r.alone = importer[i].alone /\ r.before = importer[i].before /\ r.kept = importer[i].kept
      /\ r.mirror = importer[i].mirror /\ r.added = importer[i].added \cup {id}
      /\ r.search = importer[i].search
  BY <1>1 DEF Imports
<1>3. importer' = [importer EXCEPT ![i] = r]
  BY DEF AddDistro, Move
<1> HIDE DEF r
<1>4. /\ importer' \in [Importers -> Imports] /\ importer'[i] = r
      /\ \A k \in Importers \ {i} : importer'[k] = importer[k]
  BY <1>1, <1>2, <1>3, OneMoves
<1>5. /\ distros' \in Shelves /\ DOMAIN distros' = DOMAIN distros \cup {id}
      /\ \A k \in DOMAIN distros' : distros'[k] = IF k = id THEN boot ELSE distros[k]
      /\ distroOf' \in Names
      /\ \A n \in DistroNames : distroOf'[n] = IF n = id.name THEN id ELSE distroOf[n]
      /\ \A n \in DistroNames : DistroNamed(n)' => distroOf'[n].name = n
      /\ \A n \in DistroNames : DistroNamed(n) => DistroNamed(n)'
      /\ DistroNamed(id.name)'
  <2>1. ImportTyped /\ List(id, boot)
    BY DEF ImportInv, AddDistro
  <2>2. ListedAs(id, boot)
    BY <2>1, ListIs
  <2> QED
    BY <1>1, <2>2 DEF ListedAs, DistroNamed
<1>6. ImportTyped'
  BY <1>1, <1>2, <1>4, <1>5 DEF ImportInv, ImportTyped, disk
<1>7. Stamped'
  BY <1>1, <1>2, <1>4, <1>5 DEF ImportInv, Stamped
<1>8. Linked'
  <2> SUFFICES ASSUME NEW m \in DistroNames, links[m] # NoMirror
               PROVE  DistroNamed(m)' \/ \E k \in Importers : importer'[k].at = "add" /\ importer'[k].id.name = m
    BY <1>1 DEF Linked
  <2>1. DistroNamed(m) \/ \E k \in Importers : importer[k].at = "add" /\ importer[k].id.name = m
    BY DEF ImportInv, Linked
  <2> QED
    BY <1>4, <1>5, <2>1
<1>9. ASSUME ByItself(i) PROVE ImportUndisturbed(i)'
  <2>1. Keeps(i) /\ Covers(i) /\ Makes(i) /\ Manages(i)
    BY <1>1, <1>9 DEF ImportInv, ImportUndisturbed
  <2>2. id.by[2] = imports /\ boot = importer[i].mirror
        /\ importer[i].kept[2][id.name] = NoDistro /\ links[id.name] = importer[i].mirror
    BY <1>1, <2>1 DEF Makes
  <2>3. Keeps(i)'
    <3>1. \A k \in r.before : k.by[2] < imports' /\ k \in DOMAIN distros' /\ distros'[k] = r.kept[1][k]
      BY <1>1, <1>2, <1>5, <2>1, <2>2 DEF Keeps
    <3>2. \A n \in DistroNames :
            /\ r.kept[2][n] # NoDistro => distroOf'[n] = r.kept[2][n]
            /\ r.kept[3][n] # NoDistro => profileOf'[n] = r.kept[3][n]
      BY <1>1, <1>2, <1>5, <2>1, <2>2 DEF Keeps
    <3> QED
      BY <1>2, <1>4, <2>1, <3>1, <3>2 DEF Keeps
  <2>4. Manages(i)'
    BY <1>1, <1>2, <1>4, <2>1 DEF Manages, disk
  <2>5. Makes(i)'
    <3>1. \A k \in r.added : k.by[2] = imports' /\ k \in DOMAIN distros' /\ distros'[k] = r.mirror
                  /\ r.kept[2][k.name] = NoDistro /\ links'[k.name] = r.mirror
                  /\ (profileOf'[k.name] = NoDistro => r.at = "profile" /\ r.id = k)
      BY <1>1, <1>2, <1>5, <2>1, <2>2 DEF Makes
    <3>2. \A n \in DistroNames : r.kept[2][n] = NoDistro =>
               /\ DistroNamed(n)' => distroOf'[n] \in r.added
               /\ links'[n] \in {NoMirror, r.mirror}
      BY <1>1, <1>2, <1>5, <2>1 DEF Makes, DistroNamed
    <3>3. r.search \subseteq r.added /\ r.id \in r.added
      BY <1>2, <2>1 DEF Makes
    <3> QED
      BY <1>2, <1>4, <3>1, <3>2, <3>3 DEF Makes
  <2>6. Covers(i)'
    <3>1. OwnNames(i)' = OwnNames(i) /\ OwnNames(i) \subseteq DistroNames
      BY <1>2, <1>4 DEF OwnNames
    <3>2. \A m \in OwnNames(i) : \/ m[1] \in importer[i].dirs \/ DistroNamed(m) \/ id.name = m
                                 \/ m[1] \in importer[i].dir /\ m[2] \in importer[i].archs
      BY <1>1, <2>1 DEF Covers
    <3>3. \A m \in OwnNames(i) : \/ m[1] \in r.dirs
                                 \/ m[1] \in r.dir /\ m[2] \in r.archs
                                 \/ DistroNamed(m)'
      BY <1>2, <1>5, <3>1, <3>2
    <3> QED
      BY <1>1, <1>2, <1>4, <2>1, <3>1, <3>3 DEF Covers
  <2> QED
    BY <2>3, <2>4, <2>5, <2>6 DEF ImportUndisturbed
<1>10. \A k \in Importers : ByItself(k)' => ImportUndisturbed(k)'
  BY <1>1, <1>2, <1>3, <1>9, OthersStay
<1> QED
  BY <1>6, <1>7, <1>8, <1>10 DEF ImportInv

LEMMA AddProfileKept ==
    ASSUME ImportInv, NEW i \in Importers, AddProfile(i)
    PROVE  ImportInv'
<1> DEFINE id == importer[i].id
           R(a) == [importer[i] EXCEPT !.at = a]
<1>1. /\ importer[i] \in Imports /\ importer[i].at = "profile" /\ id \in Ids /\ id.name \in DistroNames
      /\ id # NoDistro /\ imports \in Nat /\ profileOf \in Names
      /\ UNCHANGED <<disk, importmgr, distros, distroOf, links, template, imports>>
  BY IsId DEF ImportInv, ImportTyped, AddProfile, InStep, Imports
<1>2. PICK a \in {"entry", "failed"} :
        /\ importer' = [importer EXCEPT ![i] = R(a)]
        /\ profileOf' \in Names
        /\ a = "entry" => profileOf'[id.name] # NoDistro
        /\ \A n \in DistroNames : profileOf[n] # NoDistro => profileOf'[n] = profileOf[n]
  BY <1>1 DEF AddProfile, Raise, Step, Move, Names
<1> DEFINE r == R(a)
<1>3. /\ r \in Imports /\ r.at = a /\ r.id = id /\ r.dir = importer[i].dir
      /\ r.dirs = importer[i].dirs /\ r.archs = importer[i].archs
      /\ r.alone = importer[i].alone /\ r.before = importer[i].before /\ r.kept = importer[i].kept
      /\ r.mirror = importer[i].mirror /\ r.added = importer[i].added
      /\ r.search = importer[i].search
  BY <1>1 DEF Imports
<1>4. importer' = [importer EXCEPT ![i] = r]
  BY <1>2
<1> HIDE DEF r
<1>5. /\ importer' \in [Importers -> Imports] /\ importer'[i] = r
      /\ \A k \in Importers \ {i} : importer'[k] = importer[k]
  BY <1>1, <1>3, <1>4, OneMoves
<1>6. ImportTyped'
  BY <1>1, <1>2, <1>3, <1>5 DEF ImportInv, ImportTyped, disk, DistroNamed
<1>7. Stamped'
  BY <1>1, <1>3, <1>5 DEF ImportInv, Stamped
<1>8. Linked'
  BY <1>1, <1>3, <1>5 DEF ImportInv, Linked, DistroNamed
<1>9. ASSUME ByItself(i) PROVE ImportUndisturbed(i)'
  <2>1. Keeps(i) /\ Covers(i) /\ Makes(i) /\ Manages(i)
    BY <1>1, <1>9 DEF ImportInv, ImportUndisturbed
  <2>2. Keeps(i)'
    <3>1. \A n \in DistroNames : r.kept[3][n] # NoDistro => profileOf'[n] = r.kept[3][n]
      BY <1>1, <1>2, <1>3, <2>1 DEF Keeps
    <3> QED
      BY <1>1, <1>3, <1>5, <2>1, <3>1 DEF Keeps
  <2>3. CASE a = "failed"
    BY <1>3, <1>5, <2>2, <2>3 DEF ImportUndisturbed
  <2>4. CASE a = "entry"
    <3>1. Manages(i)'
      BY <1>1, <1>3, <1>5, <2>1, <2>4 DEF Manages, disk
    <3>2. Makes(i)'
      <4>1. \A k \in r.added : k.name \in DistroNames
        BY <1>3, IsId DEF Imports
      <4>2. \A k \in r.added : k.by[2] = imports' /\ k \in DOMAIN distros' /\ distros'[k] = r.mirror
                  /\ r.kept[2][k.name] = NoDistro /\ links'[k.name] = r.mirror
                  /\ profileOf'[k.name] # NoDistro
        BY <1>1, <1>2, <1>3, <2>1, <2>4, <4>1 DEF Makes
      <4>3. /\ r.search \subseteq r.added
            /\ \A n \in DistroNames : r.kept[2][n] = NoDistro =>
               /\ DistroNamed(n)' => distroOf'[n] \in r.added
               /\ links'[n] \in {NoMirror, r.mirror}
        BY <1>1, <1>3, <2>1 DEF Makes, DistroNamed
      <4> QED
        BY <1>3, <1>5, <2>4, <4>2, <4>3 DEF Makes
    <3>3. Covers(i)'
      <4>1. OwnNames(i)' = OwnNames(i)
        BY <1>3, <1>5 DEF OwnNames
      <4> QED
        BY <1>1, <1>3, <1>5, <2>1, <2>4, <4>1 DEF Covers, DistroNamed
    <3> QED
      BY <2>2, <3>1, <3>2, <3>3 DEF ImportUndisturbed
  <2> QED
    BY <2>3, <2>4
<1>10. \A k \in Importers : ByItself(k)' => ImportUndisturbed(k)'
  BY <1>1, <1>3, <1>4, <1>9, OthersStay
<1> QED
  BY <1>6, <1>7, <1>8, <1>10 DEF ImportInv

LEMMA WalkEndsKept ==
    ASSUME ImportInv, NEW i \in Importers, WalkEnds(i)
    PROVE  ImportInv'
<1> DEFINE a == IF importer[i].added = {} THEN "done" ELSE "repos"
           r == [importer[i] EXCEPT !.at = a, !.search = importer[i].added]
<1>1. /\ importer[i] \in Imports /\ importer[i].at = "dir" /\ importer[i].dirs = {}
      /\ onDisk' = onDisk /\ onDisk \in SUBSET Mirrors /\ importmgr' = importmgr
      /\ importmgr \in [path : Trees, autoinstall : BOOLEAN,
                        signature : {"none", "redhat", "suse", "windows", "unknown"}]
      /\ UNCHANGED <<items, imports>>
  BY DEF ImportInv, ImportTyped, WalkEnds, InStep, disk
<1>2. importer' = [importer EXCEPT ![i] = r]
  BY DEF WalkEnds, Move
<1>3. /\ r \in Imports /\ r.at \in {"done", "repos"} /\ r.id = importer[i].id /\ r.dir = importer[i].dir
      /\ r.dirs = importer[i].dirs /\ r.archs = importer[i].archs
      /\ r.alone = importer[i].alone /\ r.before = importer[i].before /\ r.kept = importer[i].kept
      /\ r.mirror = importer[i].mirror /\ r.added = importer[i].added
      /\ r.search = importer[i].added
  BY <1>1 DEF Imports
<1> HIDE DEF r, a
<1>4. importer'[i] = r
  BY <1>1, <1>2, <1>3, OneMoves
<1>5. ASSUME ImportUndisturbed(i) PROVE Manages(i)' /\ Covers(i)' /\ r.search \subseteq r.added
  <2>1. Covers(i) /\ Makes(i) /\ Manages(i)
    BY <1>1, <1>5 DEF ImportUndisturbed
  <2>2. Manages(i)'
    BY <1>1, <1>3, <1>4, <2>1 DEF Manages
  <2>3. OwnNames(i)' = OwnNames(i) /\ UNCHANGED distroOf
    BY <1>1, <1>3, <1>4 DEF OwnNames, items
  <2>4. Covers(i)'
    BY <1>1, <1>3, <1>4, <2>1, <2>3 DEF Covers, DistroNamed
  <2> QED
    BY <1>3, <2>2, <2>4
<1> QED
  BY <1>1, <1>2, <1>3, <1>5, QuietMoves

LEMMA FinderKept ==
    ASSUME ImportInv, NEW i \in Importers, RepoFinder(i)
    PROVE  ImportInv'
<1>1. /\ importer[i] \in Imports /\ importer[i].at = "repos" /\ imports \in Nat
      /\ onDisk' = onDisk /\ onDisk \in SUBSET Mirrors /\ importmgr' = importmgr
      /\ importmgr \in [path : Trees, autoinstall : BOOLEAN,
                        signature : {"none", "redhat", "suse", "windows", "unknown"}]
      /\ UNCHANGED <<disk, importmgr, profileOf, links, template, imports>>
      /\ DOMAIN distros \subseteq Ids /\ \A k \in DOMAIN distros : distros[k] \in Trees
  BY ShelfIs DEF ImportInv, ImportTyped, RepoFinder, InStep, disk
<1>2. CASE Step(i, "done") /\ UNCHANGED <<distros, distroOf>> /\ importer[i].search = {}
  <2> DEFINE r == [importer[i] EXCEPT !.at = "done"]
  <2>1. importer' = [importer EXCEPT ![i] = r] /\ UNCHANGED items
    BY <1>1, <1>2 DEF Step, Move, items
  <2>2. /\ r \in Imports /\ r.at = "done" /\ r.dir = importer[i].dir
        /\ r.dirs = importer[i].dirs /\ r.archs = importer[i].archs
        /\ r.alone = importer[i].alone /\ r.before = importer[i].before /\ r.kept = importer[i].kept
        /\ r.mirror = importer[i].mirror /\ r.added = importer[i].added
        /\ r.search = importer[i].search
    BY <1>1 DEF Imports
  <2> HIDE DEF r
  <2>3. importer'[i] = r
    BY <1>1, <2>1, <2>2, OneMoves
  <2>4. ASSUME ImportUndisturbed(i) PROVE Manages(i)' /\ Covers(i)' /\ r.search \subseteq r.added
    <3>1. Covers(i) /\ Makes(i) /\ Manages(i)
      BY <1>1, <2>4 DEF ImportUndisturbed
    <3>2. Manages(i)'
      BY <1>1, <2>2, <2>3, <3>1 DEF Manages
    <3>3. OwnNames(i)' = OwnNames(i)
      BY <2>2, <2>3 DEF OwnNames
    <3>4. Covers(i)'
      BY <1>1, <1>2, <2>2, <2>3, <3>1, <3>3 DEF Covers, DistroNamed
    <3> QED
      BY <2>2, <3>1, <3>2, <3>4 DEF Makes
  <2> QED
    BY <1>1, <2>1, <2>2, <2>4, QuietMoves
<1>3. ASSUME NEW x \in importer[i].search,
             List(x, IF x \in DOMAIN distros THEN distros[x] ELSE importer[i].boot),
             Move(i, [importer[i] EXCEPT !.search = @ \ {x}])
      PROVE  ImportInv'
  <2>1. x \in Ids /\ importer[i].boot \in Trees
    BY <1>1 DEF Imports
  <2>2. PICK id \in Ids, boot \in Trees :
           id = x /\ boot = IF x \in DOMAIN distros THEN distros[x] ELSE importer[i].boot
    BY <1>1, <2>1
  <2> DEFINE r == [importer[i] EXCEPT !.search = @ \ {id}]
  <2>3. /\ r \in Imports /\ r.at = "repos" /\ r.dir = importer[i].dir
        /\ r.dirs = importer[i].dirs /\ r.archs = importer[i].archs
        /\ r.alone = importer[i].alone /\ r.before = importer[i].before /\ r.kept = importer[i].kept
        /\ r.mirror = importer[i].mirror /\ r.added = importer[i].added
        /\ r.search = importer[i].search \ {id}
    BY <1>1 DEF Imports
  <2>4. importer' = [importer EXCEPT ![i] = r]
    BY <1>3, <2>2 DEF Move
  <2> HIDE DEF r
  <2>5. /\ importer' \in [Importers -> Imports] /\ importer'[i] = r
        /\ \A k \in Importers \ {i} : importer'[k] = importer[k]
    BY <1>1, <2>3, <2>4, OneMoves
  <2>6. /\ distros' \in Shelves /\ DOMAIN distros' = DOMAIN distros \cup {id}
        /\ \A k \in DOMAIN distros' : distros'[k] = IF k = id THEN boot ELSE distros[k]
        /\ distroOf' \in Names
        /\ \A n \in DistroNames : distroOf'[n] = IF n = id.name THEN id ELSE distroOf[n]
        /\ \A n \in DistroNames : DistroNamed(n)' => distroOf'[n].name = n
        /\ \A n \in DistroNames : DistroNamed(n) => DistroNamed(n)'
    <3>1. ImportTyped /\ List(id, boot)
      BY <1>3, <2>2 DEF ImportInv, List
    <3>2. ListedAs(id, boot)
      BY <3>1, ListIs
    <3> QED
      BY <3>2 DEF ListedAs, DistroNamed
  <2>7. ImportTyped'
    BY <1>1, <2>3, <2>5, <2>6 DEF ImportInv, ImportTyped
  <2>8. Stamped'
    <3>1. id.by[2] \leq imports
      BY <1>3, <2>2 DEF ImportInv, Stamped
    <3>2. \A k \in DOMAIN distros' : k.by[2] \leq imports'
      BY <1>1, <2>6, <3>1 DEF ImportInv, Stamped
    <3> QED
      BY <1>1, <2>3, <2>5, <3>2 DEF ImportInv, Stamped
  <2>9. Linked'
    <3> SUFFICES ASSUME NEW m \in DistroNames, links[m] # NoMirror
                 PROVE  DistroNamed(m)' \/ \E k \in Importers : importer'[k].at = "add" /\ importer'[k].id.name = m
      BY <1>1 DEF Linked
    <3>1. DistroNamed(m) \/ \E k \in Importers : importer[k].at = "add" /\ importer[k].id.name = m
      BY DEF ImportInv, Linked
    <3> QED
      BY <1>1, <2>3, <2>5, <2>6, <3>1
  <2>10. ASSUME ByItself(i) PROVE ImportUndisturbed(i)'
    <3>1. Keeps(i) /\ Covers(i) /\ Makes(i) /\ Manages(i)
      BY <1>1, <2>10 DEF ImportInv, ImportUndisturbed
    <3>2. id \in importer[i].added /\ id.by[2] = imports /\ importer[i].kept[2][id.name] = NoDistro
          /\ boot = distros[id] /\ id \in DOMAIN distros
      BY <1>3, <2>2, <3>1 DEF Makes
    <3>3. DOMAIN distros' = DOMAIN distros /\ \A k \in DOMAIN distros : distros'[k] = distros[k]
      BY <2>6, <3>2
    <3>4. Keeps(i)'
      <4>1. \A n \in DistroNames : r.kept[2][n] # NoDistro => distroOf'[n] = r.kept[2][n]
        BY <2>3, <2>6, <3>1, <3>2 DEF Keeps
      <4> QED
        BY <1>1, <2>3, <2>5, <3>1, <3>3, <4>1 DEF Keeps
    <3>5. Manages(i)'
      BY <1>1, <2>3, <2>5, <3>1 DEF Manages
    <3>6. Makes(i)'
      <4>1. \A n \in DistroNames : r.kept[2][n] = NoDistro => (DistroNamed(n)' => distroOf'[n] \in r.added)
        BY <2>3, <2>6, <3>1, <3>2 DEF Makes, DistroNamed
      <4> QED
        BY <1>1, <2>3, <2>5, <3>1, <3>3, <4>1 DEF Makes
    <3>7. Covers(i)'
      <4>1. OwnNames(i)' = OwnNames(i) /\ OwnNames(i) \subseteq DistroNames
        BY <2>3, <2>5 DEF OwnNames
      <4> QED
        BY <1>1, <2>3, <2>5, <2>6, <3>1, <4>1 DEF Covers
    <3> QED
      BY <3>4, <3>5, <3>6, <3>7 DEF ImportUndisturbed
  <2>11. \A k \in Importers : ByItself(k)' => ImportUndisturbed(k)'
    BY <1>1, <2>3, <2>4, <2>10, OthersStay
  <2> QED
    BY <2>7, <2>8, <2>9, <2>11 DEF ImportInv
<1> QED
  BY <1>2, <1>3 DEF RepoFinder

\* What becomes of an import that another one meets.
LEMMA JoinedIs ==
    ASSUME NEW j \in Imports
    PROVE  LET w == Joined(j) IN
           /\ w \in Imports /\ ~(w.alone /\ w.at # "rest")
           /\ w.added \subseteq j.added /\ w.search \subseteq j.search
           /\ j.at \in {"rest", "done", "failed"} => w.at = "rest" /\ w.added = {} /\ w.search = {}
           /\ j.at \notin {"rest", "done", "failed"} => w.at = j.at /\ w.id = j.id
<1>1. CASE j.at \in {"rest", "done", "failed"}
  <2>1. Joined(j) = Waiting
    BY <1>1 DEF Joined
  <2>2. /\ Waiting.at = "rest" /\ Waiting.added = {} /\ Waiting.search = {}
        /\ Waiting \in Imports
    BY DEF Waiting, Imports, Trees
  <2> QED
    BY <1>1, <2>1, <2>2
<1>2. CASE j.at \notin {"rest", "done", "failed"}
  <2> DEFINE w == [j EXCEPT !.alone = FALSE, !.before = {}, !.kept = <<>>]
  <2>1. Joined(j) = w
    BY <1>2 DEF Joined
  <2>2. /\ w.at = j.at /\ w.id = j.id /\ w.added = j.added /\ w.search = j.search
        /\ w.alone = FALSE
    BY DEF Imports
  <2>3. <<>> \in {<<>>} \cup (Shelves \X Names \X Names)
    OBVIOUS
  <2>4. w \in Imports
    BY <2>3 DEF Imports
  <2> QED
    BY <1>2, <2>1, <2>2, <2>4
<1> QED
  BY <1>1, <1>2

\* What a new import or a client makes of the others.
LEMMA DisturbedIs ==
    ASSUME ImportInv
    PROVE  /\ Disturbed \in [Importers -> Imports]
           /\ \A k \in Importers : LET j == Disturbed[k] IN
                /\ ~(j.alone /\ j.at # "rest")
                /\ AtRest(k) => j.at = "rest"
                /\ j.at # "rest" => j.at = importer[k].at
                /\ j.added \subseteq importer[k].added /\ j.search \subseteq importer[k].search
                /\ j.at \in {"add", "profile"} => j.id = importer[k].id
                /\ importer[k].at = "add" => j.at = "add" /\ j.id = importer[k].id
<1> SUFFICES ASSUME NEW k \in Importers
             PROVE  LET j == Joined(importer[k]) IN
                    /\ j \in Imports
                    /\ ~(j.alone /\ j.at # "rest")
                    /\ AtRest(k) => j.at = "rest"
                    /\ j.at # "rest" => j.at = importer[k].at
                    /\ j.added \subseteq importer[k].added /\ j.search \subseteq importer[k].search
                    /\ j.at \in {"add", "profile"} => j.id = importer[k].id
                    /\ importer[k].at = "add" => j.at = "add" /\ j.id = importer[k].id
  BY DEF Disturbed
<1>1. importer[k] \in Imports
  BY DEF ImportInv, ImportTyped
<1> QED
  BY <1>1, JoinedIs DEF AtRest

LEMMA MirrorKept ==
    ASSUME ImportInv, NEW i \in Importers, Mirror(i)
    PROVE  ImportInv'
<1>1. PICK m \in Mirrors : \E copied \in BOOLEAN :
        /\ onDisk' = onDisk \cup {m}
        /\ importer' = [Disturbed EXCEPT ![i] =
             LET new == [Waiting EXCEPT !.at = IF copied THEN "run" ELSE "failed", !.mirror = m,
                                        !.before = DOMAIN distros, !.kept = Listed]
             IN IF \A j \in Importers \ {i} : AtRest(j) THEN new ELSE Joined(new)]
  BY DEF Mirror
<1>2. PICK copied \in BOOLEAN :
        /\ onDisk' = onDisk \cup {m}
        /\ importer' = [Disturbed EXCEPT ![i] =
             LET new == [Waiting EXCEPT !.at = IF copied THEN "run" ELSE "failed", !.mirror = m,
                                        !.before = DOMAIN distros, !.kept = Listed]
             IN IF \A j \in Importers \ {i} : AtRest(j) THEN new ELSE Joined(new)]
  BY <1>1
<1> DEFINE begins == IF copied THEN "run" ELSE "failed"
           new == [Waiting EXCEPT !.at = begins, !.mirror = m, !.before = DOMAIN distros, !.kept = Listed]
           r == IF \A j \in Importers \ {i} : AtRest(j) THEN new ELSE Joined(new)
<1>3. /\ UNCHANGED <<winpe, importmgr, items, template>> /\ imports \in Nat /\ imports' = imports + 1
      /\ AtRest(i) /\ UNCHANGED <<distros, distroOf, profileOf, links>>
      /\ DOMAIN distros \subseteq Ids /\ Listed \in Shelves \X Names \X Names
  BY ShelfIs DEF Mirror, items, ImportInv, ImportTyped, Listed
<1>4. /\ new \in Imports /\ new.at = begins /\ new.mirror = m /\ new.before = DOMAIN distros
      /\ new.kept = Listed /\ new.alone /\ new.added = {} /\ new.search = {} /\ new.dir = {}
      /\ new.dirs = {}
  BY <1>3 DEF Waiting, Imports, Trees
<1> HIDE DEF new
<1>5. /\ r \in Imports /\ r.at \in {"rest", "run", "failed"} /\ r.added = {} /\ r.search = {}
      /\ r.alone /\ r.at # "rest" => r = new /\ \A j \in Importers \ {i} : AtRest(j)
  <2>2. /\ Joined(new) \in Imports /\ Joined(new).at \in {"rest", "run"}
        /\ Joined(new).added = {} /\ Joined(new).search = {}
        /\ ~(Joined(new).alone /\ Joined(new).at # "rest")
    <3>1. PICK j \in Imports : j = new
      BY <1>4
    <3> QED
      BY <1>4, <3>1, JoinedIs
  <2> HIDE DEF begins
  <2>3. begins \in {"run", "failed"}
    BY DEF begins
  <2> QED
    BY <1>4, <2>2, <2>3
<1>6. importer' = [Disturbed EXCEPT ![i] = r]
  BY <1>2 DEF new
<1> HIDE DEF r
<1>7. importer' \in [Importers -> Imports] /\ importer'[i] = r
      /\ \A k \in Importers \ {i} : importer'[k] = Disturbed[k]
  BY <1>5, <1>6, DisturbedIs
<1>8. ImportTyped'
  BY <1>2, <1>3, <1>5, <1>7, DisturbedIs DEF ImportInv, ImportTyped, DistroNamed
<1>9. Stamped'
  <2>1. \A k \in DOMAIN distros' : k.by[2] \leq imports'
    BY <1>3 DEF ImportInv, Stamped, Ids
  <2>2. ASSUME NEW k \in Importers
        PROVE  /\ importer'[k].at \in {"add", "profile"} => importer'[k].id.by[2] \leq imports'
               /\ \A x \in importer'[k].added \cup importer'[k].search : x.by[2] \leq imports'
    <3>1. CASE k = i
      BY <1>5, <1>7, <3>1
    <3>2. CASE k # i
      <4>1. importer'[k] = Disturbed[k] /\ importer[k] \in Imports
        BY <1>7, <3>2 DEF ImportInv, ImportTyped
      <4>2. /\ importer[k].at \in {"add", "profile"} => /\ importer[k].id \in Ids
                                                        /\ importer[k].id.by[2] \leq imports
            /\ importer[k].added \cup importer[k].search \subseteq Ids
            /\ \A x \in importer[k].added \cup importer[k].search : x.by[2] \leq imports
        BY <4>1 DEF ImportInv, ImportTyped, Stamped, Imports
      <4>3. \A x \in Ids : x.by[2] \in Nat
        BY DEF Ids
      <4> QED
        BY <1>3, <4>1, <4>2, <4>3, DisturbedIs
    <3> QED
      BY <3>1, <3>2
  <2> QED
    BY <2>1, <2>2 DEF Stamped
<1>10. Linked'
  <2> SUFFICES ASSUME NEW n \in DistroNames, links[n] # NoMirror
               PROVE  DistroNamed(n)' \/ \E k \in Importers : importer'[k].at = "add" /\ importer'[k].id.name = n
    BY <1>3 DEF Linked
  <2>1. DistroNamed(n) \/ \E k \in Importers : importer[k].at = "add" /\ importer[k].id.name = n
    BY DEF ImportInv, Linked
  <2>2. ASSUME NEW k \in Importers, importer[k].at = "add", importer[k].id.name = n
        PROVE  importer'[k].at = "add" /\ importer'[k].id.name = n
    BY <1>3, <1>7, <2>2, DisturbedIs DEF AtRest
  <2> QED
    BY <1>3, <2>1, <2>2 DEF DistroNamed
<1>11. ASSUME NEW k \in Importers, ByItself(k)' PROVE ImportUndisturbed(k)'
  <2>1. k = i
    BY <1>7, <1>11, DisturbedIs DEF ByItself
  <2>2. r = new /\ \A j \in Importers \ {i} : AtRest(j)
    BY <1>5, <1>7, <1>11, <2>1 DEF ByItself
  <2>3. Keeps(i)'
    <3>1. \A j \in Importers \ {i} : importer'[j].at = "rest"
      BY <1>7, <2>2, DisturbedIs
    <3>2. Listed[1] = distros /\ Listed[2] = distroOf /\ Listed[3] = profileOf
      BY DEF Listed
    <3>3. \A x \in DOMAIN distros : x.by[2] < imports'
      BY <1>3 DEF ImportInv, Stamped, Ids
    <3> QED
      BY <1>3, <1>4, <1>7, <2>2, <3>1, <3>2, <3>3 DEF Keeps
  <2>4. CASE r.at = "failed"
    BY <1>7, <2>1, <2>3, <2>4 DEF ImportUndisturbed
  <2>5. CASE r.at = "run"
    <3>1. Manages(i)' /\ Covers(i)'
      BY <1>4, <1>7, <2>2, <2>5 DEF Manages, Covers
    <3>2. ASSUME NEW n \in DistroNames, Listed[2][n] = NoDistro
          PROVE  ~DistroNamed(n)' /\ links'[n] = NoMirror
      <4>1. ~DistroNamed(n) /\ ~DistroNamed(n)'
        BY <1>3, <3>2 DEF Listed, DistroNamed
      <4>2. \A k1 \in Importers : importer[k1].at # "add"
        BY <1>3, <2>2 DEF AtRest
      <4> QED
        BY <1>3, <4>1, <4>2 DEF ImportInv, Linked
    <3>3. Makes(i)'
      BY <1>4, <1>7, <2>2, <2>5, <3>2 DEF Makes
    <3> QED
      BY <2>1, <2>3, <3>1, <3>3 DEF ImportUndisturbed
  <2> QED
    BY <1>5, <1>7, <1>11, <2>1, <2>4, <2>5 DEF ByItself
<1> QED
  BY <1>8, <1>9, <1>10, <1>11 DEF ImportInv

\* After a request of a client no import is one that met nobody.
LEMMA ClientComes ==
    ASSUME ImportInv, ByClient
    PROVE  /\ importer' \in [Importers -> Imports] /\ imports' \in Nat
           /\ \A i \in Importers : importer'[i].at \in {"add", "profile"} => importer'[i].id \in Ids
           /\ \A i \in Importers : ByItself(i)' => ImportUndisturbed(i)'
           /\ \A i \in Importers : importer[i].at = "add" => importer'[i].at = "add" /\ importer'[i].id = importer[i].id
           /\ (\A k \in DOMAIN distros : k.by[2] \leq imports') /\ (DOMAIN distros' \subseteq DOMAIN distros => Stamped')
<1>1. importer' = Disturbed /\ imports \in Nat /\ imports' = imports + 1
  BY DEF ByClient, ImportInv, ImportTyped
<1>2. \A i \in Importers : ~ByItself(i)'
  BY <1>1, DisturbedIs DEF ByItself
<1>3. \A i \in Importers : importer'[i].at \in {"add", "profile"} => importer'[i].id \in Ids
  BY <1>1, DisturbedIs DEF ImportInv, ImportTyped
<1>4. \A k \in DOMAIN distros : k.by[2] \leq imports'
  <2>1. DOMAIN distros \subseteq Ids
    BY ShelfIs DEF ImportInv, ImportTyped
  <2> QED
    BY <1>1, <2>1 DEF ImportInv, Stamped, Ids
<1>5. ASSUME NEW k \in Importers
      PROVE  /\ importer'[k].at \in {"add", "profile"} => importer'[k].id.by[2] \leq imports'
             /\ \A x \in importer'[k].added \cup importer'[k].search : x.by[2] \leq imports'
  <2>1. importer'[k] = Disturbed[k] /\ importer[k] \in Imports
    BY <1>1 DEF ImportInv, ImportTyped
  <2>2. /\ importer[k].at \in {"add", "profile"} => /\ importer[k].id \in Ids
                                                    /\ importer[k].id.by[2] \leq imports
        /\ importer[k].added \cup importer[k].search \subseteq Ids
        /\ \A x \in importer[k].added \cup importer[k].search : x.by[2] \leq imports
    BY <2>1 DEF ImportInv, ImportTyped, Stamped, Imports
  <2>3. \A x \in Ids : x.by[2] \in Nat
    BY DEF Ids
  <2> QED
    BY <1>1, <2>1, <2>2, <2>3, DisturbedIs
<1> QED
  BY <1>1, <1>2, <1>3, <1>4, <1>5, DisturbedIs DEF Stamped

LEMMA RemoveKept ==
    ASSUME ImportInv, NEW n \in DistroNames, RemoveImported(n)
    PROVE  ImportInv'
<1>0. DOMAIN distros \subseteq Ids /\ (\A k \in DOMAIN distros : distros[k] \in Trees)
      /\ distroOf[n] \in Ids
  BY ShelfIs DEF ImportInv, ImportTyped, RemoveImported, DistroNamed, Names
<1>1. PICK id \in Ids : id = distroOf[n]
  BY <1>0
<1> DEFINE stays == DOMAIN distros \ {id}
<1>2. /\ ByClient /\ UNCHANGED <<importmgr, template>>
      /\ distros' = [k \in stays |-> distros[k]]
      /\ distroOf' = [distroOf EXCEPT ![n] = NoDistro]
      /\ profileOf' = [k \in DistroNames |-> IF profileOf[k] = id THEN NoDistro ELSE profileOf[k]]
      /\ links' = [links EXCEPT ![n] = NoMirror]
      /\ onDisk' \subseteq onDisk
  BY <1>1 DEF RemoveImported, disk
<1>3. distros' \in Shelves /\ DOMAIN distros' \subseteq DOMAIN distros
  <2>1. distros' \in [stays -> Trees] /\ stays \in SUBSET Ids
    BY <1>0, <1>2
  <2> QED
    BY <1>2, <2>1 DEF Shelves
<1>4. /\ distroOf' \in Names /\ profileOf' \in Names /\ links' \in [DistroNames -> Trees]
      /\ \A k \in DistroNames : distroOf'[k] = IF k = n THEN NoDistro ELSE distroOf[k]
      /\ \A k \in DistroNames : links'[k] = IF k = n THEN NoMirror ELSE links[k]
  BY <1>2 DEF ImportInv, ImportTyped, Names, Trees
<1>5. ImportTyped'
  BY <1>2, <1>3, <1>4, ClientComes DEF ImportInv, ImportTyped, DistroNamed
<1>6. Linked'
  BY <1>2, <1>4, ClientComes DEF ImportInv, Linked, DistroNamed
<1> QED
  BY <1>2, <1>3, <1>5, <1>6, ClientComes DEF ImportInv

LEMMA TemplateKept ==
    ASSUME ImportInv, EditTemplate
    PROVE  ImportInv'
<1>1. ByClient /\ UNCHANGED <<onDisk, importmgr, distros, distroOf, profileOf, links>>
  BY DEF EditTemplate, disk, items
<1>2. ImportTyped'
  BY <1>1, ClientComes DEF ImportInv, ImportTyped, DistroNamed
<1>3. Linked'
  BY <1>1, ClientComes DEF ImportInv, Linked, DistroNamed
<1> QED
  BY <1>1, <1>2, <1>3, ClientComes DEF ImportInv

LEMMA ImportStarts == IInit => ImportInv
<1> SUFFICES ASSUME IInit PROVE ImportInv
  OBVIOUS
<1>1. Waiting \in Imports /\ Waiting.at = "rest" /\ Waiting.added = {} /\ Waiting.search = {}
  BY DEF Waiting, Imports, Trees
<1>2. importer \in [Importers -> Imports] /\ \A i \in Importers : importer[i] = Waiting
  BY <1>1 DEF IInit
<1>3. distros \in Shelves /\ DOMAIN distros = {}
  <2>1. distros \in [{} -> Trees]
    BY DEF IInit
  <2> QED
    BY <2>1 DEF Shelves
<1>4. ImportTyped
  BY <1>1, <1>2, <1>3 DEF IInit, ImportTyped, Trees, Names, DistroNamed
<1>5. Stamped /\ Linked
  BY <1>1, <1>2, <1>3 DEF IInit, Stamped, Linked
<1>6. \A i \in Importers : ~ByItself(i)
  BY <1>1, <1>2 DEF ByItself
<1> QED
  BY <1>4, <1>5, <1>6 DEF ImportInv

LEMMA ImportStutters ==
    ASSUME ImportInv, UNCHANGED ivars
    PROVE  ImportInv'
<1>1. UNCHANGED <<onDisk, importmgr, importer, distros, distroOf, profileOf, links, imports>>
  BY DEF ivars
<1>2. ImportTyped' /\ Stamped' /\ Linked'
  BY <1>1 DEF ImportInv, ImportTyped, Stamped, Linked, DistroNamed
<1>3. ASSUME NEW i \in Importers, ByItself(i)' PROVE ImportUndisturbed(i)'
  <2>1. ImportUndisturbed(i)
    BY <1>1, <1>3 DEF ByItself, ImportInv
  <2>2. Keeps(i)'
    BY <1>1, <2>1 DEF ImportUndisturbed, Keeps
  <2>3. CASE importer[i].at = "failed"
    BY <1>1, <2>2, <2>3 DEF ImportUndisturbed
  <2>4. CASE importer[i].at # "failed"
    <3>1. Manages(i)' /\ Makes(i)'
      BY <1>1, <2>1, <2>4 DEF ImportUndisturbed, Manages, Makes, DistroNamed
    <3>2. OwnNames(i)' = OwnNames(i)
      BY <1>1 DEF OwnNames
    <3>3. Covers(i)'
      BY <1>1, <2>1, <2>4, <3>2 DEF ImportUndisturbed, Covers, DistroNamed
    <3> QED
      BY <2>2, <3>1, <3>3 DEF ImportUndisturbed
  <2> QED
    BY <2>3, <2>4
<1> QED
  BY <1>2, <1>3 DEF ImportInv

\* The invariant of the import: what an import that met nobody found is as it was, what it
\* has made is its own, and what it has not made it is still going to meet.
THEOREM ImportInvariant == ISpec => []ImportInv
<1>1. ImportInv /\ [INext]_ivars => ImportInv'
  <2> SUFFICES ASSUME ImportInv, [INext]_ivars PROVE ImportInv'
    OBVIOUS
  <2>1. ASSUME NEW i \in Importers, Mirror(i) PROVE ImportInv'
    BY <2>1, MirrorKept
  <2>2. ASSUME NEW i \in Importers, Run(i) PROVE ImportInv'
    BY <2>2, RunKept
  <2>3. ASSUME NEW i \in Importers, ScanSignatures(i) PROVE ImportInv'
    BY <2>3, ScanKept
  <2>4. ASSUME NEW i \in Importers, ImportWinpe(i) PROVE ImportInv'
    BY <2>4, WinpeKept
  <2>5. ASSUME NEW i \in Importers, Walk(i) PROVE ImportInv'
    BY <2>5, WalkKept
  <2>6. ASSUME NEW i \in Importers, DistroAdder(i) PROVE ImportInv'
    BY <2>6, AdderKept
  <2>7. ASSUME NEW i \in Importers, AddEntry(i) PROVE ImportInv'
    BY <2>7, EntryKept
  <2>8. ASSUME NEW i \in Importers, AddDistro(i) PROVE ImportInv'
    BY <2>8, AddDistroKept
  <2>9. ASSUME NEW i \in Importers, AddProfile(i) PROVE ImportInv'
    BY <2>9, AddProfileKept
  <2>10. ASSUME NEW i \in Importers, WalkEnds(i) PROVE ImportInv'
    BY <2>10, WalkEndsKept
  <2>11. ASSUME NEW i \in Importers, RepoFinder(i) PROVE ImportInv'
    BY <2>11, FinderKept
  <2>12. ASSUME NEW n \in DistroNames, RemoveImported(n) PROVE ImportInv'
    BY <2>12, RemoveKept
  <2>13. CASE EditTemplate
    BY <2>13, TemplateKept
  <2>14. CASE UNCHANGED ivars
    BY <2>14, ImportStutters
  <2> QED
    BY <2>1, <2>2, <2>3, <2>4, <2>5, <2>6, <2>7, <2>8, <2>9, <2>10, <2>11, <2>12, <2>13, <2>14 DEF INext
<1> QED
  BY <1>1, ImportStarts, PTL DEF ISpec

LEMMA ImportTells ==
    ASSUME ImportInv
    PROVE  ImportExact
<1> SUFFICES ASSUME NEW i \in Importers, importer[i].alone, importer[i].at \in {"done", "failed"}
             PROVE  LET j == importer[i] IN
                    /\ \A id \in j.before : id \in DOMAIN distros /\ distros[id] = j.kept[1][id]
                    /\ \A n \in DistroNames :
                         /\ j.kept[2][n] # NoDistro => distroOf[n] = j.kept[2][n]
                         /\ j.kept[3][n] # NoDistro => profileOf[n] = j.kept[3][n]
                    /\ j.at = "done" => \A n \in OwnNames(i) :
                         /\ DistroNamed(n)
                         /\ j.kept[2][n] = NoDistro =>
                              /\ distros[distroOf[n]] = j.mirror /\ links[n] = j.mirror
                              /\ profileOf[n] # NoDistro
  BY DEF ImportExact
<1>1. ImportUndisturbed(i)
  BY DEF ImportInv, ByItself
<1>2. ASSUME importer[i].at = "done", NEW n \in OwnNames(i)
      PROVE  /\ DistroNamed(n)
             /\ importer[i].kept[2][n] = NoDistro =>
                  /\ distros[distroOf[n]] = importer[i].mirror /\ links[n] = importer[i].mirror
                  /\ profileOf[n] # NoDistro
  <2>1. Covers(i) /\ Makes(i) /\ n \in DistroNames
    BY <1>1, <1>2 DEF ImportUndisturbed, OwnNames
  <2>2. DistroNamed(n)
    BY <1>2, <2>1 DEF Covers
  <2>3. distroOf[n].name = n
    BY <2>1, <2>2 DEF ImportInv, ImportTyped
  <2> QED
    BY <1>2, <2>1, <2>2, <2>3 DEF Makes
<1> QED
  BY <1>1, <1>2 DEF ImportUndisturbed, Keeps

\* An import that met nobody and came to its end has made, for every kernel and every
\* architecture of its tree whose name was free, a distro that boots from that tree, its
\* link and its profile; and whatever was listed before any import that met nobody is as it
\* was, whether that import succeeded or raised: the walk of import_signatures.py.
THEOREM ImportsAreExact == ISpec => []ImportExact
<1>1. ImportInv => ImportExact
  BY ImportTells
<1> QED
  BY <1>1, ImportInvariant, PTL

-----------------------------------------------------------------------------
(***************************************************************************)
(* Replicate, for any items and dependencies: a replication that nobody    *)
(* disturbed takes over what it should and loses nothing else.             *)
(***************************************************************************)

Entries == [name : Objects \cup {Spare}, mtime : Nat]
Databases == [Objects -> Entries \cup {Nothing}]
ObjectKinds == {"distro", "profile", "system", "repo", "image"}
Runs == [at : {"rest", "map", "prune", "copy", "add", "replace", "done", "failed"},
         remote : Databases, local : Databases,
         include : SUBSET ((ObjectKinds \X (Objects \cup {Spare})) \cup (ObjectKinds \X {"uid"} \X Objects)),
         patterns : SUBSET (ObjectKinds \X Objects), all : BOOLEAN, prune : BOOLEAN, omit : BOOLEAN,
         type : 1..5, todo : SUBSET Objects, alone : BOOLEAN]
ReplicaTyped == master \in Databases /\ slave \in Databases /\ run \in Runs /\ moves \in Nat

\* A name is that of one object of its type.
OneNamed(db) ==
    \A x, y \in In(db) : KindOf[x] = KindOf[y] /\ db[x].name = db[y].name => x = y

\* Why an object may have been removed: something it depends on is gone or renamed.
Lost(y) == run.remote[y] = Nothing \/ run.remote[y].name # run.local[y].name
OnlyLostGone ==
    \A x \in Objects :
        /\ slave[x] \in {Nothing, run.local[x]}
        /\ slave[x] # run.local[x] => \E y \in In(run.local) : x \in Below(y) /\ Lost(y)
DueLost ==
    /\ run.at = "prune" => \A x \in run.todo : x \in In(run.local) /\ run.remote[x] = Nothing
    /\ run.at = "replace" => \A x \in run.todo : x \in In(run.local)

\* What the prune still has to remove is among what it will look at.
Spared(k) == k = "system" /\ \A p \in run.patterns : p[1] # "system"
Doomed == {x \in In(slave) : run.prune /\ run.remote[x] = Nothing /\ ~Spared(KindOf[x])}
PruneMeets ==
    /\ run.at = "prune" =>
         \A x \in Doomed : x \in run.todo \/ \E i \in 1..5 : run.type < i /\ KindOf[x] = ObjTypes[i]
    /\ run.at \in {"copy", "add", "replace", "done"} => Doomed = {}

MapFirst ==
    /\ IncludeMapRaises => run.at \in {"map", "failed"} /\ slave = run.local
    /\ run.at = "map" => slave = run.local

ReplicaInv ==
    /\ ReplicaTyped /\ OneNamed(slave)
    /\ run.at # "rest" => OneNamed(run.local)
    /\ DueLost
    /\ run.alone /\ run.at # "rest" => OnlyLostGone /\ PruneMeets /\ MapFirst

-----------------------------------------------------------------------------

LEMMA EntryIs == \A e \in Entries : e # Nothing /\ e.name \in Objects \cup {Spare}
BY ReplicateAssumption DEF Entries

LEMMA RemoveIs ==
    ASSUME NEW db \in Databases, NEW x \in Objects
    PROVE  /\ Remove(db, x) \in Databases /\ Remove(db, x)[x] = Nothing /\ x \in Below(x)
           /\ \A y \in Objects : Remove(db, x)[y] = IF y \in Below(x) THEN Nothing ELSE db[y]
<1>1. x \in Below(x)
  BY DEF Below
<1> HIDE DEF Below
<1>2. \A y \in Objects : db[y] \in Entries \cup {Nothing}
  BY DEF Databases
<1> QED
  BY <1>1, <1>2 DEF Remove, Databases

\* Where a part of a database is, no name is that of two.
LEMMA PartNamed ==
    ASSUME NEW db \in Databases, OneNamed(db), NEW r, \A y \in Objects : r[y] \in {Nothing, db[y]}
    PROVE  OneNamed(r)
BY DEF OneNamed, In

\* A removal by type and name removes the object of that name, and what is below it.
Removes(db, x, n, r) ==
    /\ r \in Databases /\ \A y \in Objects : r[y] \in {Nothing, db[y]}
    /\ \/ r = db /\ ~(x \in In(db) /\ db[x].name = n)
       \/ \E z \in In(db) : r = Remove(db, z) /\ KindOf[z] = KindOf[x] /\ db[z].name = n

LEMMA RemoveNamedIs ==
    ASSUME NEW db \in Databases, NEW x \in Objects, NEW n, OneNamed(db)
    PROVE  Removes(db, x, n, RemoveNamed(db, KindOf[x], n))
<1> DEFINE named == {z \in In(db) : KindOf[z] = KindOf[x] /\ db[z].name = n}
<1>1. CASE named = {}
  BY <1>1 DEF RemoveNamed, In, Removes
<1>2. CASE named # {}
  <2>1. PICK z \in named : RemoveNamed(db, KindOf[x], n) = Remove(db, z)
    <3>1. (CHOOSE z \in named : TRUE) \in named
      BY <1>2
    <3>2. RemoveNamed(db, KindOf[x], n) = Remove(db, CHOOSE z \in named : TRUE)
      BY <1>2 DEF RemoveNamed
    <3> HIDE DEF named
    <3> QED
      BY <3>1, <3>2
  <2>2. z \in Objects
    BY DEF In
  <2> QED
    BY <2>1, <2>2, RemoveIs DEF Removes
<1> QED
  BY <1>1, <1>2

-----------------------------------------------------------------------------

LEMMA ReplicaStarts == RInit => ReplicaInv
<1> SUFFICES ASSUME RInit PROVE ReplicaInv
  OBVIOUS
<1>1. \A x \in Objects : Own(x) \in Entries /\ Own(x).name = x
  BY DEF Own, Entries
<1>2. master \in Databases /\ slave = master /\ \A x \in Objects : slave[x] = Own(x)
  BY <1>1 DEF RInit, Databases
<1>3. run = NoRun /\ NoRun \in Runs /\ run.at = "rest"
  BY <1>2 DEF RInit, NoRun, Runs
<1>4. OneNamed(slave)
  BY <1>1, <1>2 DEF OneNamed, In
<1> QED
  BY <1>2, <1>3, <1>4 DEF RInit, ReplicaInv, ReplicaTyped, DueLost

\* What a client may make of a database.
LEMMA ChangedIs ==
    ASSUME NEW db \in Databases, NEW e, e \in Changed(db), moves \in Nat
    PROVE  e \in Databases /\ (OneNamed(db) => OneNamed(e))
<1>1. CASE \E x \in In(db) : e = Remove(db, x)
  <2>1. PICK x \in In(db) : e = Remove(db, x)
    BY <1>1
  <2>2. x \in Objects
    BY DEF In
  <2>3. e \in Databases /\ \A y \in Objects : e[y] \in {Nothing, db[y]}
    BY <2>1, <2>2, RemoveIs
  <2> QED
    BY <2>3, PartNamed
<1>2. CASE \E x \in Objects, n \in Objects \cup {Spare} :
             ~Named(db, x, n) /\ e = [db EXCEPT ![x] = [name |-> n, mtime |-> moves + 2]]
  <2>1. PICK x \in Objects, n \in Objects \cup {Spare} :
             ~Named(db, x, n) /\ e = [db EXCEPT ![x] = [name |-> n, mtime |-> moves + 2]]
    BY <1>2
  <2>2. PICK v \in Entries : v = [name |-> n, mtime |-> moves + 2] /\ v.name = n
    <3>1. [name |-> n, mtime |-> moves + 2] \in Entries
      BY DEF Entries
    <3> QED
      BY <3>1
  <2>3. e \in Databases /\ \A y \in Objects : e[y] = IF y = x THEN v ELSE db[y]
    BY <2>1, <2>2 DEF Databases
  <2>4. \A y \in Objects : y # x /\ db[y] # Nothing /\ KindOf[y] = KindOf[x] => db[y].name # n
    BY <2>1 DEF Named, In
  <2>5. OneNamed(db) => OneNamed(e)
    BY <2>2, <2>3, <2>4 DEF OneNamed, In
  <2> QED
    BY <2>3, <2>5
<1> QED
  BY <1>1, <1>2 DEF Changed, Free

LEMMA RequestKept ==
    ASSUME ReplicaInv, Request
    PROVE  ReplicaInv'
<1>1. run' \in Runs /\ run'.alone = FALSE /\ run'.at = run.at /\ run'.local = run.local
      /\ run'.remote = run.remote /\ run'.todo = run.todo
  <2>1. PICK f \in BOOLEAN : f = FALSE /\ run' = [run EXCEPT !.alone = f]
    BY DEF Request
  <2> QED
    BY <2>1 DEF ReplicaInv, ReplicaTyped, Runs
<1>2. moves \in Nat /\ moves' \in Nat
  BY DEF ReplicaInv, ReplicaTyped, Request, Moved
<1>3. master' \in Databases /\ slave' \in Databases /\ OneNamed(slave')
  BY <1>2, ChangedIs DEF ReplicaInv, ReplicaTyped, Request
<1> QED
  BY <1>1, <1>2, <1>3 DEF ReplicaInv, ReplicaTyped, DueLost

LEMMA RunBeginsKept ==
    ASSUME ReplicaInv, RunBegins
    PROVE  ReplicaInv'
<1>1. PICK all \in BOOLEAN, prune \in BOOLEAN, omit \in BOOLEAN,
           ps \in {{}} \cup {{<<KindOf[x], x>>} : x \in Objects} :
         run' = [NoRun EXCEPT !.at = "map", !.all = all, !.prune = prune, !.omit = omit, !.patterns = ps]
  BY DEF RunBegins
<1>2. ps \in SUBSET (ObjectKinds \X Objects)
  BY ReplicateAssumption DEF ObjectKinds
<1>3. NoRun \in Runs /\ NoRun.remote = master /\ NoRun.local = slave /\ NoRun.alone = TRUE
      /\ NoRun.todo = {}
  BY DEF ReplicaInv, ReplicaTyped, NoRun, Runs
<1>4. run' \in Runs /\ run'.at = "map" /\ run'.local = slave
  <2>1. PICK r \in Runs : r = NoRun
    BY <1>3
  <2>2. run' = [r EXCEPT !.at = "map", !.all = all, !.prune = prune, !.omit = omit, !.patterns = ps]
    BY <1>1, <2>1
  <2>3. run'.at = "map" /\ run'.local = r.local
    BY <2>2 DEF Runs
  <2>4. run' \in Runs
    <3>1. PICK q \in Runs : q = [r EXCEPT !.at = "map", !.patterns = ps]
      BY <1>2 DEF Runs
    <3>2. PICK qa \in Runs : qa = [q EXCEPT !.all = all]
      BY DEF Runs
    <3>3. PICK qb \in Runs : qb = [qa EXCEPT !.prune = prune]
      BY DEF Runs
    <3>4. PICK qc \in Runs : qc = [qb EXCEPT !.omit = omit]
      BY DEF Runs
    <3>5. run' = [q EXCEPT !.all = all, !.prune = prune, !.omit = omit]
      BY <2>2, <3>1 DEF Runs
    <3>6. run' = [qa EXCEPT !.prune = prune, !.omit = omit]
      BY <3>5, <3>2 DEF Runs
    <3>7. run' = [qb EXCEPT !.omit = omit]
      BY <3>6, <3>3 DEF Runs
    <3> QED
      BY <3>7, <3>4
  <2> QED
    BY <1>3, <2>1, <2>3, <2>4
<1>5. UNCHANGED <<master, slave>> /\ moves' \in Nat
  BY DEF RunBegins, Moved, ReplicaInv, ReplicaTyped
<1>6. ReplicaTyped' /\ OneNamed(slave)' /\ OneNamed(run.local)' /\ DueLost'
  BY <1>4, <1>5 DEF ReplicaInv, ReplicaTyped, DueLost
<1>7. OnlyLostGone' /\ PruneMeets' /\ MapFirst'
  BY <1>4, <1>5 DEF OnlyLostGone, PruneMeets, MapFirst
<1> QED
  BY <1>6, <1>7 DEF ReplicaInv

-----------------------------------------------------------------------------
(* The steps of a run keep its snapshots and its options.                   *)

SameRun == /\ run'.remote = run.remote /\ run'.local = run.local /\ run'.all = run.all
           /\ run'.patterns = run.patterns /\ run'.prune = run.prune /\ run'.alone = run.alone

LEMMA SameMap ==
    ASSUME SameRun
    PROVE  /\ IncludeMapRaises' <=> IncludeMapRaises
           /\ \A k : Spared(k)' <=> Spared(k)
           /\ \A y : Lost(y)' <=> Lost(y)
BY DEF SameRun, IncludeMapRaises, Wanted, In, Spared, Lost

\* A step of a run that leaves the databases alone.
LEMMA RunSteps ==
    ASSUME ReplicaInv, run' \in Runs, SameRun, UNCHANGED <<master, slave, moves>>, run.at # "rest",
           run'.at # "map",
           DueLost',
           run.alone => /\ IncludeMapRaises => run'.at = "failed" /\ slave = run.local
                        /\ run'.at = "prune" =>
                             \A x \in Doomed : x \in run'.todo \/ \E i \in 1..5 : run'.type < i /\ KindOf[x] = ObjTypes[i]
                        /\ run'.at \in {"copy", "add", "replace", "done"} => Doomed = {}
    PROVE  ReplicaInv'
<1>1. ReplicaTyped' /\ OneNamed(slave)' /\ OneNamed(run.local)'
  BY DEF ReplicaInv, ReplicaTyped, SameRun
<1>2. ASSUME run.alone PROVE OnlyLostGone' /\ PruneMeets' /\ MapFirst'
  <2>1. OnlyLostGone
    BY <1>2 DEF ReplicaInv
  <2>2. OnlyLostGone'
    BY <2>1, SameMap DEF OnlyLostGone, SameRun
  <2>3. Doomed' = Doomed
    BY SameMap DEF Doomed, SameRun
  <2>4. PruneMeets'
    BY <1>2, <2>3 DEF PruneMeets
  <2>5. MapFirst'
    BY <1>2, SameMap DEF MapFirst, SameRun
  <2> QED
    BY <2>2, <2>4, <2>5
<1> QED
  BY <1>1, <1>2 DEF ReplicaInv, SameRun

LEMMA TypesAre ==
    /\ Len(ObjTypes) = 5 /\ \A i \in 1..5 : ObjTypes[i] \in ObjectKinds
    /\ \A k \in ObjectKinds : \E i \in 1..5 : k = ObjTypes[i]
<1>1. ObjTypes[1] = "distro" /\ ObjTypes[2] = "profile" /\ ObjTypes[3] = "system"
      /\ ObjTypes[4] = "repo" /\ ObjTypes[5] = "image"
  BY DEF ObjTypes
<1>2. Len(ObjTypes) = 5
  BY DEF ObjTypes
<1> QED
  BY <1>1, <1>2 DEF ObjectKinds

\* What the snapshots say of an object that a prune of a lone run still has to remove.
LEMMA DoomedIs ==
    ASSUME ReplicaTyped, OnlyLostGone, NEW x \in Doomed
    PROVE  /\ x \in Objects /\ slave[x] = run.local[x] /\ x \in Pruned(KindOf[x])
           /\ \E i \in 1..5 : KindOf[x] = ObjTypes[i]
<1>1. x \in Objects /\ slave[x] # Nothing /\ run.prune /\ run.remote[x] = Nothing /\ ~Spared(KindOf[x])
  BY DEF Doomed, In
<1>2. slave[x] = run.local[x]
  BY <1>1 DEF OnlyLostGone
<1>3. x \in Pruned(KindOf[x])
  BY <1>1, <1>2 DEF Pruned, In, GoneFromMaster, Spared
<1>4. KindOf[x] \in ObjectKinds
  BY <1>1, ReplicateAssumption DEF ObjectKinds
<1> QED
  BY <1>1, <1>2, <1>3, <1>4, TypesAre

LEMMA PrunedIs ==
    ASSUME ReplicaTyped, NEW t
    PROVE  Pruned(t) \in SUBSET Objects
           /\ \A x \in Pruned(t) : x \in In(run.local) /\ run.remote[x] = Nothing /\ KindOf[x] = t
BY DEF Pruned, In, GoneFromMaster

LEMMA IncludeTyped ==
    ASSUME ReplicaTyped
    PROVE  Include \in SUBSET ((ObjectKinds \X (Objects \cup {Spare})) \cup (ObjectKinds \X {"uid"} \X Objects))
<1>1. \A x \in Wanted : x \in Objects /\ run.remote[x] \in Entries
  BY DEF Wanted, In, ReplicaTyped, Runs, Databases
<1>2. \A x \in Objects : KindOf[x] \in ObjectKinds /\ Refers[x] \subseteq Objects
  BY ReplicateAssumption DEF ObjectKinds
<1>3. \A x \in Wanted : <<KindOf[x], run.remote[x].name>> \in ObjectKinds \X (Objects \cup {Spare})
  BY <1>1, <1>2, EntryIs
<1>4. \A x \in Wanted : \A y \in Refers[x] : <<KindOf[y], "uid", y>> \in ObjectKinds \X {"uid"} \X Objects
  BY <1>1, <1>2
<1> QED
  BY <1>3, <1>4 DEF Include

LEMMA IncludeMapKept ==
    ASSUME ReplicaInv, IncludeMap
    PROVE  ReplicaInv'
<1>1. /\ run.at = "map" /\ UNCHANGED <<master, slave, moves>> /\ ReplicaTyped /\ run \in Runs
  BY DEF IncludeMap, ReplicaInv, ReplicaTyped
<1>2. CASE IncludeMapRaises
  <2>1. run' = [run EXCEPT !.at = "failed"]
    BY <1>2 DEF IncludeMap, Goes
  <2>2. run' \in Runs /\ SameRun /\ run'.at = "failed"
    BY <1>1, <2>1 DEF Runs, SameRun
  <2>3. run.alone => slave = run.local
    BY <1>1 DEF ReplicaInv, MapFirst
  <2>4. DueLost'
    BY <2>2 DEF DueLost
  <2> QED
    BY <1>1, <2>2, <2>3, <2>4, RunSteps
<1>3. CASE ~IncludeMapRaises
  <2> DEFINE ds == Pruned(ObjTypes[1])
  <2>1. run' = [[run EXCEPT !.at = "prune", !.type = 1, !.todo = ds] EXCEPT !.include = Include]
    BY <1>3 DEF IncludeMap, Enter
  <2>2. ds \in SUBSET Objects /\ \A x \in ds : x \in In(run.local) /\ run.remote[x] = Nothing
    BY <1>1, PrunedIs
  <2> HIDE DEF ds
  <2>3. run' \in Runs /\ SameRun /\ run'.at = "prune" /\ run'.type = 1 /\ run'.todo = ds
    <3>1. PICK d \in SUBSET Objects : d = ds
      BY <2>2
    <3>2. PICK inc \in SUBSET ((ObjectKinds \X (Objects \cup {Spare})) \cup (ObjectKinds \X {"uid"} \X Objects)) :
             inc = Include
      BY <1>1, IncludeTyped
    <3>3. PICK r \in Runs : r = run
      BY <1>1
    <3> DEFINE e == [r EXCEPT !.at = "prune", !.type = 1, !.todo = d]
    <3>4. /\ e \in Runs /\ e.at = "prune" /\ e.type = 1 /\ e.todo = d
          /\ e.remote = r.remote /\ e.local = r.local /\ e.all = r.all
          /\ e.patterns = r.patterns /\ e.prune = r.prune /\ e.alone = r.alone
      <4>1. 1 \in 1..5
        OBVIOUS
      <4>2. e \in Runs
        BY <4>1 DEF Runs
      <4> QED
        BY <4>2 DEF Runs
    <3>5. run' = [e EXCEPT !.include = inc]
      BY <2>1, <3>1, <3>2, <3>3
    <3> HIDE DEF e
    <3>6. run' \in Runs
      BY <3>4, <3>5 DEF Runs
    <3> QED
      BY <3>1, <3>3, <3>4, <3>5, <3>6 DEF Runs, SameRun
  <2>4. DueLost'
    BY <2>2, <2>3 DEF DueLost, SameRun
  <2>5. ASSUME run.alone, NEW x \in Doomed
        PROVE  x \in ds \/ \E i \in 1..5 : 1 < i /\ KindOf[x] = ObjTypes[i]
    <3>1. OnlyLostGone
      BY <1>1, <2>5 DEF ReplicaInv
    <3>2. x \in Pruned(KindOf[x]) /\ \E i \in 1..5 : KindOf[x] = ObjTypes[i]
      BY <1>1, <3>1, DoomedIs
    <3> QED
      BY <3>2 DEF ds
  <2> QED
    BY <1>1, <1>3, <2>3, <2>4, <2>5, RunSteps
<1> QED
  BY <1>2, <1>3

LEMMA CopyTreesKept ==
    ASSUME ReplicaInv, CopyTrees
    PROVE  ReplicaInv'
<1>1. run.at = "copy" /\ UNCHANGED <<master, slave, moves>> /\ run \in Runs
  BY DEF CopyTrees, ReplicaInv, ReplicaTyped
<1>2. PICK p \in {"add", "failed"} : run' = [run EXCEPT !.at = p]
  BY DEF CopyTrees, Goes
<1>3. run' \in Runs /\ SameRun /\ run'.at = p
  BY <1>1, <1>2 DEF Runs, SameRun
<1>4. DueLost'
  BY <1>3 DEF DueLost
<1>5. run.alone => ~IncludeMapRaises /\ Doomed = {}
  BY <1>1 DEF ReplicaInv, MapFirst, PruneMeets
<1> QED
  BY <1>1, <1>3, <1>4, <1>5, RunSteps

LEMMA AddObjectsKept ==
    ASSUME ReplicaInv, AddObjectsNotOnLocal
    PROVE  ReplicaInv'
<1> DEFINE ds == Newer(ObjTypes[1])
<1>1. run.at = "add" /\ UNCHANGED <<master, slave, moves>> /\ run \in Runs
  BY DEF AddObjectsNotOnLocal, ReplicaInv, ReplicaTyped
<1>2. run' = [run EXCEPT !.at = "replace", !.type = 1, !.todo = ds]
  BY DEF AddObjectsNotOnLocal, Enter
<1>3. ds \in SUBSET Objects /\ ds \subseteq In(run.local)
  BY DEF Newer, In
<1> HIDE DEF ds
<1>4. run' \in Runs /\ SameRun /\ run'.at = "replace" /\ run'.todo = ds
  <2>1. PICK d \in SUBSET Objects : d = ds
    BY <1>3
  <2>2. run' = [run EXCEPT !.at = "replace", !.type = 1, !.todo = d]
    BY <1>2, <2>1
  <2>3. PICK r \in Runs : r = run
    BY <1>1
  <2>4. run' = [r EXCEPT !.at = "replace", !.type = 1, !.todo = d]
    BY <2>2, <2>3
  <2>5. /\ run' \in Runs /\ run'.at = "replace" /\ run'.todo = d
        /\ run'.remote = r.remote /\ run'.local = r.local /\ run'.all = r.all
        /\ run'.patterns = r.patterns /\ run'.prune = r.prune /\ run'.alone = r.alone
    <3>1. 1 \in 1..5
      OBVIOUS
    <3>2. run' \in Runs
      BY <2>4, <3>1 DEF Runs
    <3> QED
      BY <2>4, <3>2 DEF Runs
  <2> QED
    BY <2>1, <2>3, <2>5 DEF SameRun
<1>5. DueLost'
  BY <1>3, <1>4 DEF DueLost, SameRun
<1>6. run.alone => ~IncludeMapRaises /\ Doomed = {}
  BY <1>1 DEF ReplicaInv, MapFirst, PruneMeets
<1> QED
  BY <1>1, <1>4, <1>5, <1>6, RunSteps

\* A removal by the run: of an object of the snapshot that is lost, with what is below it.
LEMMA RunRemoves ==
    ASSUME ReplicaInv, run' \in Runs, SameRun, UNCHANGED <<master, moves>>,
           run.at \in {"prune", "replace"}, run'.at = run.at, run'.type = run.type,
           NEW x \in run.todo, run'.todo = run.todo \ {x}, Lost(x),
           slave' = RemoveNamed(slave, KindOf[x], run.local[x].name)
    PROVE  ReplicaInv'
<1>1. /\ slave \in Databases /\ OneNamed(slave) /\ OneNamed(run.local) /\ run.local \in Databases
      /\ x \in Objects /\ x \in In(run.local) /\ ReplicaTyped /\ run \in Runs
  BY DEF ReplicaInv, ReplicaTyped, Runs, DueLost
<1>2. PICK n : n = run.local[x].name
  OBVIOUS
<1>3. PICK db \in Databases : db = slave
  BY <1>1
<1> DEFINE r == RemoveNamed(db, KindOf[x], n)
<1>4. /\ r \in Databases /\ \A y \in Objects : r[y] \in {Nothing, db[y]}
      /\ \/ r = db /\ ~(x \in In(db) /\ db[x].name = n)
         \/ \E z \in In(db) : r = Remove(db, z) /\ KindOf[z] = KindOf[x] /\ db[z].name = n
  <2>1. x \in Objects /\ OneNamed(db)
    BY <1>1, <1>3
  <2> QED
    <3>1. Removes(db, x, n, r)
      BY <2>1, RemoveNamedIs
    <3> HIDE DEF r
    <3> QED
      BY <3>1 DEF Removes
<1> HIDE DEF r
<1>5. slave' = r
  BY <1>2, <1>3 DEF r
<1>6. \/ slave' = db /\ ~(x \in In(db) /\ db[x].name = n)
      \/ \E z \in In(db) : slave' = Remove(db, z) /\ KindOf[z] = KindOf[x] /\ db[z].name = n
  BY <1>5, <1>4
<1>7. slave' \in Databases /\ \A y \in Objects : slave'[y] \in {Nothing, db[y]}
  BY <1>5, <1>4
<1>8. ReplicaTyped' /\ OneNamed(slave)' /\ OneNamed(run.local)'
  BY <1>1, <1>3, <1>7, PartNamed DEF SameRun, ReplicaTyped
<1>9. DueLost'
  BY DEF ReplicaInv, DueLost, SameRun
<1>10. ASSUME run.alone PROVE OnlyLostGone' /\ PruneMeets' /\ MapFirst'
  <2>1. OnlyLostGone /\ PruneMeets /\ ~IncludeMapRaises
    BY <1>10 DEF ReplicaInv, MapFirst
  <2>2. MapFirst'
    BY <2>1, SameMap DEF MapFirst
  <2>3. \A z \in In(db) : db[z] = run.local[z] /\ z \in Objects /\ z \in In(run.local)
    BY <1>3, <2>1 DEF OnlyLostGone, In
  <2>4. \/ slave' = db /\ ~(x \in In(db) /\ db[x].name = n)
        \/ slave' = Remove(db, x)
    <3>1. ASSUME NEW z \in In(db), KindOf[z] = KindOf[x], db[z].name = n PROVE z = x
      BY <1>1, <1>2, <2>3, <3>1 DEF OneNamed
    <3> QED
      BY <1>6, <3>1
  <2>5. OnlyLostGone'
    <3> SUFFICES ASSUME NEW y \in Objects
                 PROVE  /\ slave'[y] \in {Nothing, run.local[y]}
                        /\ slave'[y] # run.local[y] => \E z \in In(run.local) : y \in Below(z) /\ Lost(z)
      BY SameMap DEF OnlyLostGone, SameRun
    <3>1. /\ slave[y] \in {Nothing, run.local[y]}
          /\ slave[y] # run.local[y] => \E z \in In(run.local) : y \in Below(z) /\ Lost(z)
      BY <2>1 DEF OnlyLostGone
    <3>2. CASE slave'[y] = db[y]
      BY <1>3, <3>1, <3>2
    <3>3. CASE slave'[y] # db[y]
      <4>1. y \in Below(x) /\ slave'[y] = Nothing
        BY <1>1, <2>4, <3>3, RemoveIs
      <4> QED
        BY <1>1, <4>1
    <3> QED
      BY <3>2, <3>3
  <2>6. Doomed' \subseteq Doomed
    BY <1>3, <1>7, SameMap DEF Doomed, In, SameRun
  <2>7. PruneMeets'
    <3>1. CASE run.at = "replace"
      BY <2>1, <2>6, <3>1 DEF PruneMeets
    <3>2. CASE run.at = "prune"
      <4>1. x \notin In(slave')
        <5>1. CASE slave' = Remove(db, x)
          BY <1>1, <5>1, RemoveIs DEF In
        <5>2. CASE slave' = db /\ ~(x \in In(db) /\ db[x].name = n)
          BY <1>2, <2>3, <5>2
        <5> QED
          BY <2>4, <3>2, <5>1, <5>2
      <4>2. x \notin Doomed'
        BY <4>1 DEF Doomed
      <4>3. \A y \in Doomed : y \in run.todo \/ \E i \in 1..5 : run.type < i /\ KindOf[y] = ObjTypes[i]
        BY <2>1, <3>2 DEF PruneMeets
      <4> QED
        BY <2>6, <3>2, <4>2, <4>3 DEF PruneMeets
    <3> QED
      BY <3>1, <3>2
  <2> QED
    BY <2>2, <2>5, <2>7
<1> QED
  BY <1>8, <1>9, <1>10 DEF ReplicaInv, SameRun

LEMMA RemoveObjectsKept ==
    ASSUME ReplicaInv, RemoveObjectsNotOnMaster
    PROVE  ReplicaInv'
<1>1. /\ run.at = "prune" /\ UNCHANGED <<master, moves>> /\ run \in Runs /\ ReplicaTyped
      /\ \A x \in run.todo : x \in In(run.local) /\ run.remote[x] = Nothing
  BY DEF RemoveObjectsNotOnMaster, ReplicaInv, ReplicaTyped, DueLost
<1>2. PICK r \in Runs : r = run
  BY <1>1
<1>3. ASSUME NEW x \in run.todo, slave' = RemoveNamed(slave, KindOf[x], run.local[x].name),
             run' = [run EXCEPT !.todo = @ \ {x}]
      PROVE  ReplicaInv'
  <2>1. run' = [r EXCEPT !.todo = @ \ {x}]
    BY <1>2, <1>3
  <2>2. run' \in Runs /\ SameRun /\ run'.at = run.at /\ run'.type = run.type /\ run'.todo = run.todo \ {x}
    BY <1>2, <2>1 DEF Runs, SameRun
  <2>3. Lost(x)
    BY <1>1 DEF Lost
  <2> QED
    BY <1>1, <1>3, <2>2, <2>3, RunRemoves
<1>4. CASE run.todo = {} /\ UNCHANGED slave /\ run' = Following([run EXCEPT !.at = "copy"], Pruned)
  <2>1. run.alone => ~IncludeMapRaises /\ OnlyLostGone
    BY <1>1 DEF ReplicaInv, MapFirst
  <2>2. run.alone => \A x \in Doomed : \E i \in 1..5 : run.type < i /\ KindOf[x] = ObjTypes[i]
    BY <1>1, <1>4 DEF ReplicaInv, PruneMeets
  <2>3. run.type \in 1..5
    BY <1>1 DEF Runs
  <2>4. CASE run.type = 5
    <3>1. run' = [r EXCEPT !.at = "copy"]
      BY <1>2, <1>4, <2>4, TypesAre DEF Following
    <3>2. run' \in Runs /\ SameRun /\ run'.at = "copy"
      BY <1>2, <3>1 DEF Runs, SameRun
    <3>3. DueLost'
      BY <3>2 DEF DueLost
    <3>4. run.alone => Doomed = {}
      BY <2>2, <2>4
    <3> QED
      BY <1>1, <1>4, <2>1, <3>2, <3>3, <3>4, RunSteps
  <2>5. CASE run.type # 5
    <3>1. PICK t \in 1..5 : t = run.type + 1
      BY <2>3, <2>5
    <3>2. PICK d \in SUBSET Objects : d = Pruned(ObjTypes[t])
      BY <1>1, PrunedIs
    <3>3. run' = [r EXCEPT !.type = t, !.todo = d]
      BY <1>2, <1>4, <2>5, <3>1, <3>2, TypesAre DEF Following
    <3>4. run' \in Runs
      BY <3>3 DEF Runs
    <3>5. SameRun /\ run'.at = "prune" /\ run'.todo = d /\ run'.type = t
      BY <1>1, <1>2, <3>3 DEF Runs, SameRun
    <3>6. DueLost'
      BY <1>1, <3>2, <3>5, PrunedIs DEF DueLost, SameRun
    <3>7. ASSUME run.alone, NEW x \in Doomed
          PROVE  x \in d \/ \E i \in 1..5 : t < i /\ KindOf[x] = ObjTypes[i]
      <4>1. PICK i \in 1..5 : run.type < i /\ KindOf[x] = ObjTypes[i]
        BY <2>2, <3>7
      <4>2. x \in Pruned(KindOf[x])
        BY <1>1, <2>1, <3>7, DoomedIs
      <4>3. i = t \/ t < i
        BY <2>3, <3>1, <4>1
      <4> QED
        BY <3>2, <4>1, <4>2, <4>3
    <3> QED
      BY <1>1, <1>4, <2>1, <3>4, <3>5, <3>6, <3>7, RunSteps
  <2> QED
    BY <2>4, <2>5
<1> QED
  BY <1>3, <1>4 DEF RemoveObjectsNotOnMaster

LEMMA ReplaceKept ==
    ASSUME ReplicaInv, ReplaceObjectsNewerOnRemote
    PROVE  ReplicaInv'
<1>1. /\ run.at = "replace" /\ UNCHANGED <<master, moves>> /\ run \in Runs /\ ReplicaTyped
      /\ run.alone => ~IncludeMapRaises /\ Doomed = {}
  BY DEF ReplaceObjectsNewerOnRemote, ReplicaInv, ReplicaTyped, MapFirst, PruneMeets
<1>2. PICK r \in Runs : r = run
  BY <1>1
<1>3. ASSUME NEW x \in run.todo, run' = [run EXCEPT !.todo = @ \ {x}],
             slave' = IF run.local[x].name = run.remote[x].name THEN slave
                      ELSE RemoveNamed(slave, KindOf[x], run.local[x].name)
      PROVE  ReplicaInv'
  <2>1. run' = [r EXCEPT !.todo = @ \ {x}]
    BY <1>2, <1>3
  <2>2. run' \in Runs /\ SameRun /\ run'.at = run.at /\ run'.type = run.type /\ run'.todo = run.todo \ {x}
    BY <1>2, <2>1 DEF Runs, SameRun
  <2>3. CASE run.local[x].name = run.remote[x].name
    <3>1. DueLost'
      BY <1>1, <2>2 DEF ReplicaInv, DueLost, SameRun
    <3> QED
      BY <1>1, <1>3, <2>2, <2>3, <3>1, RunSteps
  <2>4. CASE run.local[x].name # run.remote[x].name
    <3>1. Lost(x)
      BY <2>4 DEF Lost
    <3> QED
      BY <1>1, <1>3, <2>2, <2>4, <3>1, RunRemoves
  <2> QED
    BY <2>3, <2>4
<1>4. CASE run.todo = {} /\ UNCHANGED slave /\ run' = Following([run EXCEPT !.at = "done"], Newer)
  <2>1. run.type \in 1..5
    BY <1>1 DEF Runs
  <2>2. CASE run.type = 5
    <3>1. run' = [r EXCEPT !.at = "done"]
      BY <1>2, <1>4, <2>2, TypesAre DEF Following
    <3>2. run' \in Runs /\ SameRun /\ run'.at = "done"
      BY <1>2, <3>1 DEF Runs, SameRun
    <3>3. DueLost'
      BY <3>2 DEF DueLost
    <3> QED
      BY <1>1, <1>4, <3>2, <3>3, RunSteps
  <2>3. CASE run.type # 5
    <3>1. PICK t \in 1..5 : t = run.type + 1
      BY <2>1, <2>3
    <3>2. PICK d \in SUBSET Objects : d = Newer(ObjTypes[t])
      BY DEF Newer, In
    <3>3. d \subseteq In(run.local)
      BY <3>2 DEF Newer
    <3>4. run' = [r EXCEPT !.type = t, !.todo = d]
      BY <1>2, <1>4, <2>3, <3>1, <3>2, TypesAre DEF Following
    <3>5. run' \in Runs
      BY <3>4 DEF Runs
    <3>6. SameRun /\ run'.at = "replace" /\ run'.todo = d
      BY <1>1, <1>2, <3>4 DEF Runs, SameRun
    <3>7. DueLost'
      BY <3>3, <3>6 DEF DueLost, SameRun
    <3> QED
      BY <1>1, <1>4, <3>5, <3>6, <3>7, RunSteps
  <2> QED
    BY <2>2, <2>3
<1> QED
  BY <1>3, <1>4 DEF ReplaceObjectsNewerOnRemote

LEMMA ReplicaStutters ==
    ASSUME ReplicaInv, UNCHANGED rvars
    PROVE  ReplicaInv'
<1>1. UNCHANGED <<master, slave, run, moves>>
  BY DEF rvars
<1>2. SameRun
  BY <1>1 DEF SameRun
<1>3. ReplicaTyped' /\ OneNamed(slave)' /\ DueLost'
  BY <1>1 DEF ReplicaInv, ReplicaTyped, DueLost
<1>4. run.at # "rest" => OneNamed(run.local)'
  BY <1>1 DEF ReplicaInv
<1>5. ASSUME run.alone /\ run.at # "rest" PROVE OnlyLostGone' /\ PruneMeets' /\ MapFirst'
  <2>1. OnlyLostGone /\ PruneMeets /\ MapFirst
    BY <1>5 DEF ReplicaInv
  <2>2. OnlyLostGone'
    BY <1>1, <1>2, <2>1, SameMap DEF OnlyLostGone
  <2>3. Doomed' = Doomed
    BY <1>1, <1>2, SameMap DEF Doomed
  <2>4. PruneMeets'
    BY <1>1, <2>1, <2>3 DEF PruneMeets
  <2>5. MapFirst'
    BY <1>1, <1>2, <2>1, SameMap DEF MapFirst
  <2> QED
    BY <2>2, <2>4, <2>5
<1> QED
  BY <1>1, <1>3, <1>4, <1>5 DEF ReplicaInv

LEMMA ReplicaInvariant == RSpec => []ReplicaInv
<1>1. ReplicaInv /\ [RNext]_rvars => ReplicaInv'
  BY RequestKept, RunBeginsKept, IncludeMapKept, RemoveObjectsKept, CopyTreesKept,
     AddObjectsKept, ReplaceKept, ReplicaStutters DEF RNext
<1> QED
  BY <1>1, ReplicaStarts, PTL DEF RSpec

LEMMA ReplicaTells ==
    ASSUME ReplicaInv
    PROVE  ReplicaSound
<1> SUFFICES ASSUME run.alone, run.at \in {"done", "failed"}
             PROVE  /\ \A x \in In(run.local) :
                         (\A y \in Above(x) : /\ run.remote[y] # Nothing
                                              /\ run.remote[y].name = run.local[y].name)
                             => slave[x] = run.local[x]
                    /\ IncludeMapRaises => slave = run.local
                    /\ run.at = "done" /\ run.prune => \A x \in In(slave) :
                         run.remote[x] = Nothing => KindOf[x] = "system"
                                              /\ \A p \in run.patterns : p[1] # "system"
  BY DEF ReplicaSound
<1>1. OnlyLostGone /\ PruneMeets /\ MapFirst
  BY DEF ReplicaInv
<1>2. ASSUME NEW x \in In(run.local),
             \A y \in Above(x) : run.remote[y] # Nothing /\ run.remote[y].name = run.local[y].name
      PROVE  slave[x] = run.local[x]
  <2>1. ASSUME NEW y \in In(run.local), x \in Below(y) PROVE ~Lost(y)
    <3>1. y \in Above(x)
      BY <2>1 DEF Above, In
    <3> QED
      BY <1>2, <3>1 DEF Lost
  <2> QED
    BY <1>1, <2>1 DEF OnlyLostGone, In
<1>3. ASSUME run.at = "done", run.prune, NEW x \in In(slave), run.remote[x] = Nothing
      PROVE  Spared(KindOf[x])
  BY <1>1, <1>3 DEF PruneMeets, Doomed
<1> QED
  BY <1>1, <1>2, <1>3 DEF MapFirst, Spared

\* A replication that no other change met has removed from the slave only what has no
\* counterpart on the master, or another name there, and what is below that; a run that
\* raised over its include map has removed nothing; and a prune that came to its end has
\* left nothing that the master lacks, but systems nobody asked for: replicate.py.
THEOREM ReplicasAreSound == RSpec => []ReplicaSound
<1>1. ReplicaInv => ReplicaSound
  BY ReplicaTells
<1> QED
  BY <1>1, ReplicaInvariant, PTL

=============================================================================
