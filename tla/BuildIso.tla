------------------------------ MODULE BuildIso ------------------------------
(***************************************************************************)
(* The builder of boot media.  Every request is a task in a thread of its  *)
(* own; all of them build in one directory, and most write one ISO file.   *)
(* A network ISO has an entry for every chosen profile and system, each    *)
(* with the kernel of its own distro; a standalone ISO has the entries of  *)
(* what is below the chosen profiles, all with the kernel, the tree and    *)
(* the repositories of one distro.  External programs succeed or fail.     *)
(***************************************************************************)
EXTENDS Naturals, Sequences, FiniteSets
SeqExt == INSTANCE SequencesExt

CONSTANTS
    Builders,     \* the threads
    IsoProfiles, IsoSystems, IsoDistros,
    IsoDistroOf,  \* [IsoProfiles -> IsoDistros]
    IsoProfileOf, \* [IsoSystems -> IsoProfiles]
    IsoArch,      \* [IsoDistros -> {"x86_64", "ppc64le"}]
    KernelFile,   \* [IsoDistros -> names]  the last part of the path of the kernel
    IsoRepos,     \* [IsoProfiles \cup IsoSystems -> the repos of it]
    Orders,       \* the requests that are made, see Order
    AnyDistro,
    Torn,         \* the content of a file that was not written to the end
    MaxBuilds     \* bound on builds in a behaviour

\* kind: "net", "standalone" or "airgapped"; the names that are asked for, in order,
\* none for all; the distro, or AnyDistro; whether a boot partition was given.
Order == [kind : {"net", "standalone", "airgapped"}, profiles : Seq(IsoProfiles),
          systems : Seq(IsoSystems), nosystems : BOOLEAN,
          distro : IsoDistros \cup {AnyDistro}, esp : BOOLEAN]
ASSUME BuildAssumption ==
    /\ Orders \subseteq Order
    /\ IsoDistroOf \in [IsoProfiles -> IsoDistros] /\ IsoProfileOf \in [IsoSystems -> IsoProfiles]
    /\ IsoProfiles \cap IsoSystems = {} /\ IsFiniteSet(IsoDistros)

VARIABLES
    buildisodir,  \* what is in the directory
    iso,          \* what is on the ISO
    builder,      \* builder[b]: where thread b is
    builds        \* history: builds so far, at most MaxBuilds
bvars == <<buildisodir, iso, builder, builds>>

EmptyDir == [layout |-> "none", menu |-> {}, kernels |-> {}, esp |-> "none",
             tree |-> {}, repos |-> {}, autoinstall |-> {}]
\* menu: its entries; copies: the boot files they need; torn: a file was cut off;
\* alone: nobody else has built since; wrote, was: the ISO was written, and what was
\* on it before.
Unbuilt == [at |-> "rest", order |-> {}, profiles |-> {}, systems |-> {},
            distro |-> AnyDistro, menu |-> {}, copies |-> {}, torn |-> FALSE,
            alone |-> TRUE, wrote |-> FALSE, was |-> EmptyDir]

BInit ==
    /\ buildisodir = EmptyDir /\ iso = EmptyDir
    /\ builder = [b \in Builders |-> Unbuilt] /\ builds = 0

-----------------------------------------------------------------------------
BuildAt(b, p) == builder[b].at = p
Net(j) == \A o \in j.order : o.kind = "net"
Airgapped(j) == \A o \in j.order : o.kind = "airgapped"
Built(j) == j.at \in {"rest", "done", "failed"}
\* Only a build that nobody has met is remembered when it is over.
Becomes(b, j) ==
    builder' = [builder EXCEPT ![b] =
        IF Built(j) /\ ~j.alone THEN [Unbuilt EXCEPT !.at = j.at, !.alone = FALSE] ELSE j]
Fails(b) == Becomes(b, [builder[b] EXCEPT !.at = "failed"])

\* The steps of the two kinds of ISO; only x86_64 has a boot partition.
StepAfter(j) ==
    CASE j.at = "sources"  -> IF Net(j) THEN "generate" ELSE "prepare"
      [] j.at = "generate" -> IF Net(j) THEN "prepare" ELSE "layout"
      [] j.at = "prepare"  -> IF Net(j) THEN "layout" ELSE "generate"
      [] j.at = "layout"   -> IF IsoArch[j.distro] = "x86_64" THEN "esp" ELSE "menus"
      [] j.at = "esp"      -> "menus"
      [] j.at = "menus"    -> IF Net(j) THEN "kernels" ELSE "tree"
      [] j.at = "tree"     -> "kernels"
      [] j.at = "kernels"  -> IF Net(j) THEN "xorriso" ELSE "repos"
      [] j.at = "repos"    -> "autoinstall"
      [] OTHER             -> "xorriso"
Proceeds(b, j) == Becomes(b, [j EXCEPT !.at = StepAfter(builder[b])])
OnDisk(b, dir) == buildisodir' = dir /\ Proceeds(b, builder[b]) /\ UNCHANGED <<iso, builds>>
Raising(b) == Fails(b) /\ UNCHANGED <<buildisodir, iso, builds>>

\* A build that another one has met: what it started from is not compared.
Overlapped(j) == IF Built(j) THEN Unbuilt ELSE [j EXCEPT !.alone = FALSE, !.was = EmptyDir]
BackgroundBuildiso(b) ==
    /\ Built(builder[b]) /\ builds < MaxBuilds /\ builds' = builds + 1
    /\ \E o \in Orders :
        LET new == [Unbuilt EXCEPT !.at = "sources", !.order = {o}, !.was = iso] IN
        builder' = [c \in Builders |->
            IF c # b THEN Overlapped(builder[c])
            ELSE IF \A a \in Builders \ {b} : Built(builder[a]) THEN new ELSE Overlapped(new)]
    /\ UNCHANGED <<buildisodir, iso>>

\* filter_items: a name that is found is taken out of the list that is gone over,
\* so the one after it is not looked at.
Found(names, all) ==
    LET left[n \in 0..Len(names)] ==
          IF n = 0 THEN names
          ELSE IF n <= Len(left[n - 1]) /\ left[n - 1][n] \in all
               THEN SeqExt!RemoveFirst(left[n - 1], left[n - 1][n]) ELSE left[n - 1]
    IN {x \in all : \E n \in 1..Len(names) : n <= Len(left[n - 1]) /\ left[n - 1][n] = x}
FilterItems(names, all) == IF names = <<>> THEN all ELSE Found(names, all)

PrepareSources(b) ==
    /\ BuildAt(b, "sources")
    /\ \E o \in builder[b].order :
        LET ps == FilterItems(o.profiles, IsoProfiles)
            ss == IF o.nosystems THEN {} ELSE FilterItems(o.systems, IsoSystems)
            none == ps = {} \/ (ss = {} /\ o.systems # <<>> /\ ~o.nosystems) IN
        IF none THEN Fails(b)
        ELSE \E d \in IF o.distro # AnyDistro THEN {o.distro} ELSE {IsoDistroOf[p] : p \in ps} :
               Proceeds(b, [builder[b] EXCEPT !.profiles = ps, !.systems = ss, !.distro = d])
    /\ UNCHANGED <<buildisodir, iso, builds>>

-----------------------------------------------------------------------------
(* The menus.                                                               *)

DistroAbove(x) == IsoDistroOf[IF x \in IsoSystems THEN IsoProfileOf[x] ELSE x]
\* make_shorter: every distro has a number.  A slip: the counter is not advanced.
ShorterStuck(ds) == [d \in ds |-> 1]
Shorter(ds) == CHOOSE f \in [ds -> 1..Cardinality(ds)] : \A c, d \in ds : c # d => f[c] # f[d]

\* An entry: what it is for, its kernel, where the installation comes from.
NetMenu(xs) ==
    LET short == Shorter({DistroAbove(x) : x \in xs}) IN
    [menu |-> {<<x, short[DistroAbove(x)], "net">> : x \in xs},
     copies |-> {<<short[DistroAbove(x)], DistroAbove(x)>> : x \in xs}]
CdMenu(xs, d) ==
    [menu |-> {<<x, KernelFile[d], "cdrom">> : x \in xs}, copies |-> {<<KernelFile[d], d>>}]
\* Standalone: systems are met below the chosen profiles only.
Chosen(j) ==
    j.profiles \cup IF Net(j) THEN j.systems
                    ELSE {s \in j.systems : IsoProfileOf[s] \in j.profiles}
ReposFor(j) == UNION {IsoRepos[x] : x \in Chosen(j)}

\* A bond without a slave, an item without a template, or a repo that is not mirrored
\* ends the build.
Generate(b) ==
    /\ BuildAt(b, "generate")
    /\ LET j == builder[b]
           m == IF Net(j) THEN NetMenu(Chosen(j)) ELSE CdMenu(Chosen(j), j.distro) IN
       \/ Proceeds(b, [j EXCEPT !.menu = m.menu, !.copies = m.copies])
       \/ (j.systems # {} \/ ~Net(j)) /\ Fails(b)
    /\ UNCHANGED <<buildisodir, iso, builds>>

-----------------------------------------------------------------------------
(* The directory.                                                           *)

PrepareBuildisodir(b) == BuildAt(b, "prepare") /\ OnDisk(b, EmptyDir)

\* The directories are made, and must not be there; the boot loaders may be missing.
CreateDirs(b) ==
    /\ BuildAt(b, "layout")
    /\ \/ buildisodir.layout = "none"
          /\ OnDisk(b, [buildisodir EXCEPT !.layout = IsoArch[builder[b].distro]])
       \/ Raising(b)

\* Another build may have emptied the directory since, or made the other directories.
HasDirs(b) == buildisodir.layout = IsoArch[builder[b].distro]

\* A given partition is copied for a network ISO and only named for the other; the one of
\* the tree is taken for a network ISO; else one is made, and nobody looks whether GRUB
\* got there.
CopyEsp(b) ==
    /\ BuildAt(b, "esp")
    /\ LET given == \A o \in builder[b].order : o.esp IN
       \/ Net(builder[b]) /\ given /\ OnDisk(b, [buildisodir EXCEPT !.esp = "given"])
       \/ Net(builder[b]) /\ ~given /\ OnDisk(b, [buildisodir EXCEPT !.esp = "distro"])
       \/ ~Net(builder[b]) /\ given /\ OnDisk(b, buildisodir)
       \/ ~given /\ \E e \in {"grub", "empty"} : OnDisk(b, [buildisodir EXCEPT !.esp = e])
       \/ Raising(b)

WriteMenus(b) ==
    /\ BuildAt(b, "menus")
    /\ IF HasDirs(b) THEN OnDisk(b, [buildisodir EXCEPT !.menu = builder[b].menu])
       ELSE Raising(b)

CopyDistroFiles(b) ==
    /\ BuildAt(b, "tree")
    /\ \/ OnDisk(b, [buildisodir EXCEPT !.tree = @ \cup {builder[b].distro}])
       \/ Raising(b)

\* A file that cannot be read ends the build; one that cannot be written to its end
\* does not.
CopyBootFiles(b) ==
    /\ BuildAt(b, "kernels")
    /\ LET j == builder[b]
           names == {c[1] : c \in j.copies}
           others == {k \in buildisodir.kernels : k[1] \notin names} IN
       \/ OnDisk(b, [buildisodir EXCEPT !.kernels = others \cup j.copies])
       \/ /\ buildisodir' = [buildisodir EXCEPT !.kernels = others \cup {<<n, Torn>> : n \in names}]
          /\ Proceeds(b, [j EXCEPT !.torn = TRUE])
          /\ UNCHANGED <<iso, builds>>
       \/ Raising(b)

CopyRepos(b) ==
    /\ BuildAt(b, "repos")
    /\ \/ ~Airgapped(builder[b]) /\ OnDisk(b, buildisodir)
       \/ Airgapped(builder[b])
          /\ OnDisk(b, [buildisodir EXCEPT !.repos = @ \cup ReposFor(builder[b])])
       \/ Airgapped(builder[b]) /\ Raising(b)

WriteAutoinstall(b) ==
    /\ BuildAt(b, "autoinstall")
    /\ IF buildisodir.layout # "none"
       THEN OnDisk(b, [buildisodir EXCEPT !.autoinstall = @ \cup {m[1] : m \in builder[b].menu}])
       ELSE Raising(b)

\* A failure of xorriso is only logged, and leaves the old ISO.  On x86_64 it needs the
\* boot partition and the loader of the directory.
Xorriso(b) ==
    /\ BuildAt(b, "xorriso")
    /\ LET j == builder[b]
           x86 == IsoArch[j.distro] = "x86_64" IN
       \/ (~x86 \/ (HasDirs(b) /\ buildisodir.esp # "none"))
          /\ iso' = buildisodir /\ Becomes(b, [j EXCEPT !.at = "done", !.wrote = TRUE])
       \/ UNCHANGED iso /\ Becomes(b, [j EXCEPT !.at = "done"])
    /\ UNCHANGED <<buildisodir, builds>>

BNext ==
    \E b \in Builders :
        \/ BackgroundBuildiso(b) \/ PrepareSources(b) \/ Generate(b)
        \/ PrepareBuildisodir(b) \/ CreateDirs(b) \/ CopyEsp(b) \/ WriteMenus(b)
        \/ CopyDistroFiles(b) \/ CopyBootFiles(b) \/ CopyRepos(b) \/ WriteAutoinstall(b)
        \/ Xorriso(b)

BSpec == BInit /\ [][BNext]_bvars

-----------------------------------------------------------------------------
\* A build that met no other one leaves the ISO as it was or makes it new, from nothing
\* that an earlier build, failed half way or not, has left in the directory: what was
\* chosen is in the menu; every entry boots a kernel that is on the ISO, of its own
\* distro on a network ISO and of the one distro on the others, and no other kernel is
\* there; a standalone ISO has the tree of its distro and the answers for every entry,
\* an airgapped one their repositories.  Unless the disk was full, which nobody notices.
IsoExact ==
    \A b \in Builders : LET j == builder[b] IN
        (j.alone /\ j.at \in {"done", "failed"} /\ ~j.torn) =>
            IF ~j.wrote THEN iso = j.was
            ELSE /\ {e[1] : e \in iso.menu} = Chosen(j)
                 /\ \A e \in iso.menu :
                      {k[2] : k \in {c \in iso.kernels : c[1] = e[2]}}
                          = {IF Net(j) THEN DistroAbove(e[1]) ELSE j.distro}
                 /\ {k[1] : k \in iso.kernels} = {e[2] : e \in iso.menu}
                 /\ iso.tree = IF Net(j) THEN {} ELSE {j.distro}
                 /\ iso.autoinstall = IF Net(j) THEN {} ELSE Chosen(j)
                 /\ iso.repos = IF Airgapped(j) THEN ReposFor(j) ELSE {}
=============================================================================
