------------------------------ MODULE Reposync ------------------------------
(***************************************************************************)
(* The mirroring of repositories: one run goes over the repos it was asked *)
(* for, sets the environment of the daemon for each, tries it a number of  *)
(* times, and puts the environment back.  Runs are tasks in threads of one *)
(* process, so they share the environment, and the mirrors on the disk.    *)
(* External programs succeed, fail half way, or are missing.               *)
(***************************************************************************)
EXTENDS Naturals, FiniteSets

CONSTANTS
    Tasks,       \* the threads
    Repos,
    Kinds,       \* [Repos -> the pairs of a breed and of mirror_locally it may have]
    Variable,    \* [Repos -> the value a repo sets the variable to, or Unset]
    Unset, Empty,\* no such variable; the empty string
    System,      \* a value the variable may have from outside
    MaxTries, MaxTasks

VARIABLES
    breed,       \* [Repos -> the breeds], as they are configured
    locally,     \* [Repos -> BOOLEAN]  mirror_locally
    mirror,      \* [Repos -> what is on the disk]
    environ,     \* the value of the variable in the environment of the daemon
    task,        \* task[t]: where thread t is
    tasks        \* history: tasks so far, at most MaxTasks
qvars == <<breed, locally, mirror, environ, task, tasks>>

Breeds == {"yum", "rsync", "wget", "rhn", "apt"}
NoFiles == [config |-> FALSE, packages |-> "none", owned |-> FALSE]
\* queue: the repos still to do; one: the repo in work; saved: what old_env holds;
\* failed: report_failure; alone, env, files: nobody else has run, and what was there
\* when it began.
Idle == [at |-> "rest", queue |-> {}, asked |-> {}, byname |-> FALSE, nofail |-> FALSE,
          one |-> {}, tries |-> 0, saved |-> {}, good |-> {}, failed |-> FALSE,
          alone |-> TRUE, env |-> Unset, files |-> <<>>]

QInit ==
    /\ breed \in [Repos -> Breeds] /\ locally \in [Repos -> BOOLEAN]
    /\ \A r \in Repos : <<breed[r], locally[r]>> \in Kinds[r]
    /\ mirror = [r \in Repos |-> NoFiles]
    /\ environ \in {Unset, Empty, System}
    /\ task = [t \in Tasks |-> Idle] /\ tasks = 0

-----------------------------------------------------------------------------
(* One attempt: the files it may leave, and whether it comes to its end.  The index  *)
(* that createrepo makes is left out: nobody notices when createrepo fails.           *)

\* Old packages are no better than some of the new ones.
Partly(m) == [m EXCEPT !.packages = "partial"]
Fully(m) == [m EXCEPT !.packages = "full"]
LocalFile(m) == [m EXCEPT !.config = TRUE]
Raises(ms) == ms \X {FALSE}
Ends(ms) == ms \X {TRUE}

YumSync(m, local) ==
    LET c == LocalFile(m) IN
    IF ~local THEN Ends({c})
    ELSE Raises({c, Partly(c), Fully(c)}) \cup Ends({Fully(c)})
RsyncSync(m, local) ==
    IF ~local THEN Raises({m})
    ELSE Raises({Partly(m)}) \cup Ends({LocalFile(Fully(m))})
\* A slip: the result of wget is not looked at.
WgetSyncUnchecked(m, local) ==
    Raises({m}) \cup Ends({LocalFile(Partly(m)), LocalFile(Fully(m))})
WgetSync(m, local) ==
    Raises({m, Partly(m), Fully(m)}) \cup Ends({LocalFile(Fully(m))})
\* The result of the download is not looked at.
RhnSync(m, local) ==
    IF ~local THEN Raises({m})
    ELSE Raises({m}) \cup Ends({LocalFile(Fully(m)), LocalFile(Partly(m))})
AptSync(m, local) ==
    Raises({m}) \cup
    IF ~local THEN Ends({m})
    ELSE Raises({Partly(m)}) \cup Ends({Fully(m)})
Sync(r) ==
    CASE breed[r] = "yum"   -> YumSync(mirror[r], locally[r])
      [] breed[r] = "rsync" -> RsyncSync(mirror[r], locally[r])
      [] breed[r] = "wget"  -> WgetSync(mirror[r], locally[r])
      [] breed[r] = "rhn"   -> RhnSync(mirror[r], locally[r])
      [] OTHER              -> AptSync(mirror[r], locally[r])

-----------------------------------------------------------------------------
TaskAt(t, p) == task[t].at = p
Over(k) == k.at \in {"rest", "done", "failed"}
Ended(t) == Over(task[t])
Quiet == <<breed, locally, tasks>>

\* A task that another one has met: what it found at its start is not compared.
Met(k) == IF Over(k) THEN Idle
          ELSE [k EXCEPT !.alone = FALSE, !.asked = {}, !.env = Unset, !.files = <<>>]
\* Only a task that nobody has met is remembered when it is over.
Leave(k, p) == IF k.alone
               THEN [k EXCEPT !.at = p, !.one = {}, !.tries = 0, !.saved = {}, !.good = {}]
               ELSE [Idle EXCEPT !.at = p, !.alone = FALSE]

\* The repos by name, one run each, which then are not to fail; or all in one run.
Beginning(rs, byname, nofail) ==
    [Idle EXCEPT !.at = "next", !.queue = rs, !.asked = rs,
                 !.byname = byname, !.nofail = nofail, !.env = environ, !.files = mirror]
BackgroundReposync(t) ==
    /\ Ended(t) /\ tasks < MaxTasks /\ tasks' = tasks + 1
    /\ \E rs \in SUBSET Repos, byname, nofail \in BOOLEAN :
        /\ ~byname => rs = Repos
        /\ LET new == Beginning(rs, byname, nofail) IN
           task' = [u \in Tasks |->
                IF u # t THEN Met(task[u])
                ELSE IF \A v \in Tasks \ {t} : Ended(v) THEN new ELSE Met(new)]
    /\ UNCHANGED <<breed, locally, mirror, environ>>

\* The environment of the next repo: a variable that is there is saved, and kept as it is.
NextRepo(t) ==
    /\ TaskAt(t, "next")
    /\ \/ \E r \in task[t].queue :
            /\ environ' = IF Variable[r] # Unset /\ environ \in {Unset, Empty}
                          THEN Variable[r] ELSE environ
            /\ task' = [task EXCEPT ![t].at = "try", ![t].one = {r}, ![t].tries = 0,
                         ![t].queue = @ \ {r},
                         ![t].saved = IF Variable[r] # Unset /\ environ \notin {Unset, Empty}
                                      THEN {environ} ELSE {}]
       \/ /\ task[t].queue = {} /\ UNCHANGED environ
          /\ task' = [task EXCEPT ![t] = Leave(@, IF @.failed THEN "failed" ELSE "done")]
    /\ UNCHANGED <<Quiet, mirror>>

Try(t) ==
    /\ TaskAt(t, "try")
    /\ \E r \in task[t].one : \E result \in Sync(r) :
        /\ mirror' = [mirror EXCEPT ![r] = result[1]]
        /\ LET n == task[t].tries + 1 IN
           task' = [task EXCEPT ![t].tries = n,
                      ![t].good = IF result[2] THEN @ \cup {r} ELSE @,
                      ![t].at = IF result[2] \/ n = MaxTries THEN "finish" ELSE "try"]
    /\ UNCHANGED <<Quiet, environ>>

\* A slip: only what was there before is put back.
RestoredOld(t, r) ==
    IF Variable[r] = Unset THEN environ
    ELSE IF task[t].saved # {} THEN CHOOSE v \in task[t].saved : TRUE ELSE environ

\* What was saved is put back; what was not is deleted.
Restored(t, r) ==
    IF Variable[r] = Unset THEN environ
    ELSE IF task[t].saved # {} THEN CHOOSE v \in task[t].saved : TRUE ELSE Unset
\* A variable that is gone cannot be deleted.
RestoreRaises(t, r) == Variable[r] # Unset /\ task[t].saved = {} /\ environ = Unset

\* After the last try the environment is put back.  A failure ends the run, unless it is
\* to go on; then the owner of the files is set.  A run by name that failed ends its task.
FinishRepo(t) ==
    /\ TaskAt(t, "finish")
    /\ \E r \in task[t].one :
        LET k == task[t]
            bad == r \notin k.good
            stops == RestoreRaises(t, r) \/ (bad /\ ~k.nofail) IN
        /\ environ' = Restored(t, r)
        /\ mirror' = IF stops THEN mirror ELSE [mirror EXCEPT ![r].owned = TRUE]
        /\ task' = [task EXCEPT ![t] =
             IF stops \/ (bad /\ k.byname) THEN Leave(k, "failed")
             ELSE [k EXCEPT !.failed = k.failed \/ bad, !.at = "next", !.one = {}, !.tries = 0,
                            !.saved = {}]]
    /\ UNCHANGED Quiet

QNext ==
    \E t \in Tasks :
        \/ BackgroundReposync(t) \/ NextRepo(t) \/ Try(t) \/ FinishRepo(t)

QSpec == QInit /\ [][QNext]_qvars

-----------------------------------------------------------------------------
\* A run that no other one met puts the environment of the daemon back, however it ends;
\* only a variable that was empty is gone.
EnvironRestored ==
    \A t \in Tasks : task[t].alone /\ task[t].at \in {"done", "failed"} =>
        environ = task[t].env \/ task[t].env = Empty

\* A run that no other one met and that reports success has mirrored every repo it was
\* asked for: all packages of those that are kept locally (of RHN channels it does not
\* know), a configuration for the clients of all but apt, and files with their owner.
\* A run over all repos that is not to stop has tried every repo to the end; and no run
\* has touched the files of another repo.
MirrorsExact ==
    \A t \in Tasks : task[t].alone /\ task[t].at \in {"done", "failed"} =>
        /\ \A r \in Repos \ task[t].asked : mirror[r] = task[t].files[r]
        /\ task[t].at = "done" => \A r \in task[t].asked :
             /\ mirror[r].owned
             /\ locally[r] /\ breed[r] # "rhn" => mirror[r].packages = "full"
             /\ breed[r] # "apt" => mirror[r].config
        /\ task[t].nofail /\ ~task[t].byname => \A r \in task[t].asked : mirror[r].owned
=============================================================================
