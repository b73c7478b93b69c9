------------------------------ MODULE Replicate ------------------------------
(***************************************************************************)
(* The replication of one Cobbler server from another one, its master.  A  *)
(* run takes a snapshot of both databases, decides by name what it is      *)
(* interested in, removes what the master lacks, copies trees, and goes    *)
(* over the two snapshots once more to add and to update; meanwhile        *)
(* clients change both databases.  An item that is to be added or updated  *)
(* is made without its data, and so fails its check for a name: the log    *)
(* has a line, and the database stays as it is.                            *)
(***************************************************************************)
EXTENDS Naturals, Sequences, FiniteSets

CONSTANTS
    Objects,     \* the uids, of both databases
    KindOf,      \* [Objects -> the object types]
    Refers,      \* [Objects -> SUBSET Objects]  what an object cannot do without
    Spare,       \* a name that any object may take instead of its own
    Nothing,     \* not in the database
    MaxMoves     \* bound on runs and requests of clients in a behaviour

ObjTypes == <<"distro", "profile", "system", "repo", "image">>

\* What is not there is no entry, and the spare name is nobody's own.
ASSUME ReplicateAssumption ==
    /\ KindOf \in [Objects -> {"distro", "profile", "system", "repo", "image"}]
    /\ Refers \in [Objects -> SUBSET Objects]
    /\ Spare \notin Objects
    /\ Nothing \notin [name : Objects \cup {Spare}, mtime : Nat]

VARIABLES
    master,      \* [Objects -> Nothing, or the name and the time of change]
    slave,       \* the same of the database that is replicated to
    run,         \* the run: where it is, its options and its snapshots
    moves        \* history: runs and requests so far, at most MaxMoves
rvars == <<master, slave, run, moves>>

NoRun == [at |-> "rest", remote |-> master, local |-> slave, include |-> {}, all |-> FALSE,
          patterns |-> {}, prune |-> FALSE, omit |-> FALSE, type |-> 1, todo |-> {},
          alone |-> TRUE]
In(db) == {x \in Objects : db[x] # Nothing}
Own(x) == [name |-> x, mtime |-> 1]

\* The slave starts as a copy of the master.
RInit ==
    /\ master = [x \in Objects |-> Own(x)] /\ slave = master
    /\ run = NoRun /\ moves = 0

\* An object, what refers to it, what refers to that, and so on; and the other way round.
Below(x) == {y \in Objects : \A S \in SUBSET Objects :
                x \in S /\ (\A z \in Objects : Refers[z] \cap S # {} => z \in S) => y \in S}
Above(x) == {y \in Objects : x \in Below(y)}

Remove(db, x) == [y \in Objects |-> IF y \in Below(x) THEN Nothing ELSE db[y]]
\* remove_item, by type and name: whatever has it now, and all that depends on that.
RemoveNamed(db, t, n) ==
    LET named == {x \in In(db) : KindOf[x] = t /\ db[x].name = n} IN
    IF named = {} THEN db ELSE Remove(db, CHOOSE x \in named : TRUE)

-----------------------------------------------------------------------------
(* Clients of either server.                                                *)

Moved == moves < MaxMoves /\ moves' = moves + 1
Bare(db, x) == \A y \in Refers[x] : y \in In(db)
\* A name of its own or the spare one, if nobody has it; the time moves on.
Named(db, x, n) == {y \in In(db) \ {x} : db[y].name = n /\ KindOf[y] = KindOf[x]} # {}
Free(db, x) == {n \in {x, Spare} : Bare(db, x) /\ ~Named(db, x, n)}
Changed(db) ==
    {Remove(db, x) : x \in In(db)}
    \cup UNION {{[db EXCEPT ![x] = [name |-> n, mtime |-> moves + 2]] : n \in Free(db, x)} : x \in Objects}
Request ==
    /\ Moved
    /\ run' = [run EXCEPT !.alone = FALSE]
    /\ \/ master' \in Changed(master) /\ UNCHANGED slave
       \/ slave' \in Changed(slave) /\ UNCHANGED master

-----------------------------------------------------------------------------
(* The run.                                                                 *)

Goes(p) == run' = [run EXCEPT !.at = p]
\* The objects a step of the run still has to see, type after type.
Enter(p, due(_)) == [run EXCEPT !.at = p, !.type = 1, !.todo = due(ObjTypes[1])]
Following(p, due(_)) ==
    IF run.type = Len(ObjTypes) THEN p
    ELSE [run EXCEPT !.type = @ + 1, !.todo = due(ObjTypes[run.type + 1])]

\* generate_include_map: the names that are asked for, and what they refer to, which is
\* entered by uid.  A profile below another one is entered while the profiles are walked,
\* and the profile of a system is looked up by a name it does not have: both raise.
Wanted == {x \in In(run.remote) :
              run.all \/ <<KindOf[x], run.remote[x].name>> \in run.patterns}
IncludeMapRaises ==
    ~run.all /\ \E x \in Wanted : \E y \in Refers[x] :
                   KindOf[x] \in {"system", "profile"} /\ KindOf[y] = "profile"
Include ==
    {<<KindOf[x], run.remote[x].name>> : x \in Wanted}
    \cup (IF run.all THEN {}
          ELSE UNION {{<<KindOf[y], "uid", y>> : y \in Refers[x]} : x \in Wanted})

\* Snapshots of the two databases; the options are those of the request.
RunBegins ==
    /\ run.at \in {"rest", "done", "failed"} /\ Moved
    /\ \E all, prune, omit \in BOOLEAN, ps \in {{}} \cup {{<<KindOf[x], x>>} : x \in Objects} :
         /\ all => ps = {}
         /\ run' = [NoRun EXCEPT !.at = "map", !.all = all, !.prune = prune, !.omit = omit,
                                 !.patterns = ps]
    /\ UNCHANGED <<master, slave>>

\* A slip: what this run is not about counts as gone.
NotIncluded(x) == run.remote[x] = Nothing \/ <<KindOf[x], run.remote[x].name>> \notin Include

\* What the slave has and the master has not; without a pattern for them, systems are spared.
GoneFromMaster(x) == run.remote[x] = Nothing
Pruned(t) ==
    IF ~run.prune \/ (t = "system" /\ \A p \in run.patterns : p[1] # "system") THEN {}
    ELSE {x \in In(run.local) : KindOf[x] = t /\ GoneFromMaster(x)}
IncludeMap ==
    /\ run.at = "map"
    /\ IF IncludeMapRaises THEN Goes("failed")
       ELSE run' = [Enter("prune", Pruned) EXCEPT !.include = Include]
    /\ UNCHANGED <<master, slave, moves>>

RemoveObjectsNotOnMaster ==
    /\ run.at = "prune"
    /\ \/ \E x \in run.todo :
            /\ slave' = RemoveNamed(slave, KindOf[x], run.local[x].name)
            /\ run' = [run EXCEPT !.todo = @ \ {x}]
       \/ run.todo = {} /\ UNCHANGED slave
          /\ run' = Following([run EXCEPT !.at = "copy"], Pruned)
    /\ UNCHANGED <<master, moves>>

\* The distros are asked for by name once more; an answer that is not one ends the run.
Copyable(n) == \E x \in In(master) : KindOf[x] = "distro" /\ n = <<"distro", master[x].name>>
CopyTrees ==
    /\ run.at = "copy"
    /\ IF run.omit \/ \A n \in run.include : n[1] = "distro" => Copyable(n)
       THEN Goes("add") ELSE Goes("failed")
    /\ UNCHANGED <<master, slave, moves>>

\* replace_objects_newer_on_remote: an object that has another name is removed first.
Newer(t) == {x \in In(run.local) \cap In(run.remote) :
                KindOf[x] = t /\ run.local[x].mtime < run.remote[x].mtime
                /\ <<t, run.remote[x].name>> \in run.include}
\* Every object that the slave lacks is made without its data, and is not added.
AddObjectsNotOnLocal ==
    /\ run.at = "add" /\ run' = Enter("replace", Newer)
    /\ UNCHANGED <<master, slave, moves>>
ReplaceObjectsNewerOnRemote ==
    /\ run.at = "replace"
    /\ \/ \E x \in run.todo :
            /\ slave' = IF run.local[x].name = run.remote[x].name THEN slave
                        ELSE RemoveNamed(slave, KindOf[x], run.local[x].name)
            /\ run' = [run EXCEPT !.todo = @ \ {x}]
       \/ run.todo = {} /\ UNCHANGED slave
          /\ run' = Following([run EXCEPT !.at = "done"], Newer)
    /\ UNCHANGED <<master, moves>>

RNext ==
    \/ Request
    \/ RunBegins \/ IncludeMap \/ RemoveObjectsNotOnMaster \/ CopyTrees
    \/ AddObjectsNotOnLocal \/ ReplaceObjectsNewerOnRemote

RSpec == RInit /\ [][RNext]_rvars

-----------------------------------------------------------------------------
\* What a run that met no other change leaves behind: every object that is on the master,
\* and whose ancestors are, under names that have not changed, is as it was; with prune,
\* a run that came to its end has removed every other object of the types it prunes; and
\* a run that raises before that has removed nothing.
ReplicaSound ==
    (run.alone /\ run.at \in {"done", "failed"}) =>
        /\ \A x \in In(run.local) :
             (\A y \in Above(x) : /\ run.remote[y] # Nothing
                                  /\ run.remote[y].name = run.local[y].name)
                 => slave[x] = run.local[x]
        /\ IncludeMapRaises => slave = run.local
        /\ run.at = "done" /\ run.prune => \A x \in In(slave) :
             run.remote[x] = Nothing => KindOf[x] = "system"
                                  /\ \A p \in run.patterns : p[1] # "system"

\* A run over everything leaves the slave with every object of its master.
ReplicaComplete ==
    run.alone /\ run.at = "done" /\ run.all => In(run.remote) \subseteq In(slave)
=============================================================================
