------------------------------- MODULE Import -------------------------------
(***************************************************************************)
(* The import of a mirrored installation tree: rsync, the scan for a       *)
(* signature, the walk that makes a distro and a profile for every kernel  *)
(* and architecture, and the search for repositories.  Every request runs  *)
(* in a thread of its own, and all share one import manager, whose         *)
(* attributes hold the path, the signature and the template of "the"       *)
(* import.  A step below reads and writes the manager as the code does     *)
(* between two saves.  --available-as is not given.                        *)
(***************************************************************************)
EXTENDS Naturals, FiniteSets

CONSTANTS
    Importers,   \* the threads
    Mirrors,     \* the directories below distro_mirror
    NoMirror,
    Dirs,        \* the directories that hold a kernel and an initrd
    MirrorOf,    \* [Dirs -> Mirrors]
    Archs,
    ArchsIn,     \* [Mirrors -> SUBSET Archs] what the kernel packages of a tree name
    Breed,       \* [Mirrors -> {"redhat", "suse", "windows", "unknown"}]
    MaxImports   \* bound on imports and requests of clients in a behaviour

ASSUME ImportAssumption ==
    /\ NoMirror \notin Mirrors
    /\ MirrorOf \in [Dirs -> Mirrors] /\ ArchsIn \in [Mirrors -> SUBSET Archs]
    /\ Breed \in [Mirrors -> {"redhat", "suse", "windows", "unknown"}]

\* A distro or profile is named after the directory of its kernel and the arch.
DistroNames == Dirs \X Archs
NoDistro == [by |-> <<>>, name |-> <<>>]

VARIABLES
    onDisk,      \* the trees that have been mirrored
    winpe,       \* the trees whose WinPE image is ready for the network
    importmgr,   \* the attributes of the one import manager
    importer,    \* importer[i]: where thread i is and what it has found
    distros,     \* the listing: a function of the ids in it
    distroOf,    \* the index of distros by name
    profileOf,   \* profileOf[n]: the distro of the profile n, or NoDistro
    links,       \* links[n]: where the link n below the web root leads
    template     \* the template that the signatures name exists
VARIABLES        \* history
    imports      \* imports and client requests so far, at most MaxImports
ivars == <<onDisk, winpe, importmgr, importer, distros, distroOf, profileOf, links,
           template, imports>>

\* alone: nobody else has done anything since the start; before: the distros that
\* were listed then; kept: what was listed, named and linked then.
Waiting == [at |-> "rest", mirror |-> NoMirror, dirs |-> {}, dir |-> {}, archs |-> {},
            id |-> NoDistro, boot |-> NoMirror, added |-> {}, search |-> {},
            alone |-> TRUE, before |-> {}, kept |-> <<>>]
Listed == <<distros, distroOf, profileOf>>

IInit ==
    /\ onDisk = {} /\ winpe = {} /\ template = TRUE /\ imports = 0
    /\ importmgr = [path |-> NoMirror, signature |-> "none", autoinstall |-> FALSE]
    /\ importer = [i \in Importers |-> Waiting]
    /\ distros = [d \in {} |-> NoMirror]
    /\ distroOf = [n \in DistroNames |-> NoDistro]
    /\ profileOf = [n \in DistroNames |-> NoDistro]
    /\ links = [n \in DistroNames |-> NoMirror]

-----------------------------------------------------------------------------
InStep(i, a) == importer[i].at = a
Move(i, r) == importer' = [importer EXCEPT ![i] = r]
Step(i, a) == Move(i, [importer[i] EXCEPT !.at = a])
Raise(i) == Step(i, "failed")
AtRest(i) == importer[i].at \in {"rest", "done", "failed"}
\* An import that somebody has met: what it found at its start is not compared.
Joined(j) == IF j.at \in {"rest", "done", "failed"} THEN Waiting
           ELSE [j EXCEPT !.alone = FALSE, !.before = {}, !.kept = <<>>]
Disturbed == [j \in Importers |-> Joined(importer[j])]
items == <<distros, distroOf, profileOf, links>>
disk == <<onDisk, winpe>>

\* rsync has copied the tree, or has failed half way, and the thread goes no further.
Mirror(i) ==
    /\ AtRest(i) /\ imports < MaxImports /\ imports' = imports + 1
    /\ \E m \in Mirrors, copied \in BOOLEAN :
        /\ onDisk' = onDisk \cup {m}
        /\ importer' = [Disturbed EXCEPT ![i] =
             LET new == [Waiting EXCEPT !.at = IF copied THEN "run" ELSE "failed", !.mirror = m,
                                        !.before = DOMAIN distros, !.kept = Listed]
             IN IF \A j \in Importers \ {i} : AtRest(j) THEN new ELSE Joined(new)]
    /\ UNCHANGED <<winpe, importmgr, items, template>>

\* run: the attributes of the manager are those of this import from here on.
Run(i) ==
    /\ InStep(i, "run")
    /\ importmgr' = [importmgr EXCEPT !.path = importer[i].mirror, !.autoinstall = FALSE]
    /\ Step(i, "scan")
    /\ UNCHANGED <<disk, items, template, imports>>

\* The signature of the tree at the path; the template that it names.
ScanSignatures(i) ==
    /\ InStep(i, "scan")
    /\ LET found == importmgr.path \in onDisk /\ Breed[importmgr.path] # "unknown" IN
       IF found
       THEN /\ importmgr' = [importmgr EXCEPT !.signature = Breed[importmgr.path], !.autoinstall = TRUE]
            /\ Step(i, IF Breed[importmgr.path] = "windows" THEN "winpe" ELSE "walk")
       ELSE importmgr' = [importmgr EXCEPT !.signature = "none"] /\ Raise(i)
    /\ UNCHANGED <<disk, items, template, imports>>

\* Windows: the image is removed, extracted again, ...
ExtractWinpe(i) ==
    \/ winpe' = winpe /\ Raise(i)                          \* no boot.wim
    \/ winpe' = winpe \ {importmgr.path} /\ Raise(i)       \* wimexport fails
\* ... its registry is taken out of it, ...
ExtractFilesFromWim(i) == winpe' = winpe \ {importmgr.path} /\ Raise(i)
\* ... rewritten, and put back, whether the tool succeeds or not.
UpdateWinpe(i) ==
    \/ winpe' = winpe \ {importmgr.path} /\ Raise(i)       \* no hivex
    \/ winpe' = winpe \cup {importmgr.path} /\ Step(i, "walk")
ImportWinpe(i) ==
    /\ InStep(i, "winpe")
    /\ ExtractWinpe(i) \/ ExtractFilesFromWim(i) \/ UpdateWinpe(i)
    /\ UNCHANGED <<onDisk, importmgr, items, template, imports>>

\* The walk begins at the path of the manager.
Walk(i) ==
    /\ InStep(i, "walk")
    /\ Move(i, [importer[i] EXCEPT !.at = "dir",
            !.dirs = {d \in Dirs : MirrorOf[d] = importmgr.path /\ importmgr.path \in onDisk}])
    /\ UNCHANGED <<disk, importmgr, items, template, imports>>

\* What the signature of the manager finds in the tree at the path of the manager.
ArchsFound == IF importmgr.path \in onDisk /\ Breed[importmgr.path] = importmgr.signature
              THEN ArchsIn[importmgr.path] ELSE {}

\* One directory: a kernel is recognised by the signature, archs are learnt from the tree.
DistroAdder(i) ==
    /\ InStep(i, "dir") /\ importer[i].dirs # {}
    /\ \E d \in importer[i].dirs :
         LET kernel == MirrorOf[d] \in onDisk /\ Breed[MirrorOf[d]] = importmgr.signature IN
         Move(i, [importer[i] EXCEPT !.dirs = @ \ {d}, !.dir = {d},
                     !.archs = IF kernel THEN ArchsFound ELSE {}, !.at = "entry"])
    /\ UNCHANGED <<disk, importmgr, items, template, imports>>

DistroNamed(n) == distroOf[n] # NoDistro
\* configure_tree_location: the link to the root of the import, unless there is one.
TreeLocation(n) == IF links[n] = NoMirror THEN [links EXCEPT ![n] = importmgr.path] ELSE links

\* A slip: the first name that is taken ends the work on the directory.
AddEntryOnce(i) ==
    /\ InStep(i, "entry")
    /\ LET j == importer[i]  IN
       IF j.archs = {}
       THEN Move(i, [j EXCEPT !.at = "dir", !.dir = {}]) /\ UNCHANGED links
       ELSE \E d \in j.dir, a \in j.archs :
              IF DistroNamed(<<d, a>>)
              THEN Move(i, [j EXCEPT !.archs = {}]) /\ UNCHANGED links
              ELSE IF MirrorOf[d] \notin onDisk THEN Raise(i) /\ UNCHANGED links
              ELSE /\ Move(i, [j EXCEPT !.archs = @ \ {a}, !.at = "add",
                               !.id = [by |-> <<i, imports>>, name |-> <<d, a>>], !.boot = importmgr.path])
                   /\ links' = TreeLocation(<<d, a>>)
    /\ UNCHANGED <<disk, importmgr, distros, distroOf, profileOf, template, imports>>

\* One architecture: skipped if the name is taken, else a distro whose kernel is looked
\* for on the disk, with boot files and link from the attributes of the manager.
AddEntry(i) ==
    /\ InStep(i, "entry")
    /\ LET j == importer[i]  IN
       IF j.archs = {}
       THEN Move(i, [j EXCEPT !.at = "dir", !.dir = {}]) /\ UNCHANGED links
       ELSE \E d \in j.dir, a \in j.archs :
              IF DistroNamed(<<d, a>>)
              THEN Move(i, [j EXCEPT !.archs = @ \ {a}]) /\ UNCHANGED links
              ELSE IF MirrorOf[d] \notin onDisk THEN Raise(i) /\ UNCHANGED links
              ELSE /\ Move(i, [j EXCEPT !.archs = @ \ {a}, !.at = "add",
                               !.id = [by |-> <<i, imports>>, name |-> <<d, a>>], !.boot = importmgr.path])
                   /\ links' = TreeLocation(<<d, a>>)
    /\ UNCHANGED <<disk, importmgr, distros, distroOf, profileOf, template, imports>>

\* add_distro lists it under its uid, and points the name at it.
List(id, boot) ==
    /\ distros' = [k \in DOMAIN distros \cup {id} |-> IF k = id THEN boot ELSE distros[k]]
    /\ distroOf' = [distroOf EXCEPT ![id.name] = id]

AddDistro(i) ==
    /\ InStep(i, "add")
    /\ List(importer[i].id, importer[i].boot)
    /\ Move(i, [importer[i] EXCEPT !.at = "profile", !.added = @ \cup {importer[i].id}])
    /\ UNCHANGED <<disk, importmgr, profileOf, links, template, imports>>

\* Its profile, unless the name is taken; without the template, or without the distro,
\* which has been removed meanwhile, the import ends here.
AddProfile(i) ==
    /\ InStep(i, "profile")
    /\ LET id == importer[i].id  IN
       IF profileOf[id.name] # NoDistro THEN Step(i, "entry") /\ UNCHANGED profileOf
       ELSE IF ~(importmgr.autoinstall /\ template /\ id \in DOMAIN distros) THEN Raise(i) /\ UNCHANGED profileOf
       ELSE Step(i, "entry") /\ profileOf' = [profileOf EXCEPT ![id.name] = id]
    /\ UNCHANGED <<disk, importmgr, distros, distroOf, links, template, imports>>

WalkEnds(i) ==
    /\ InStep(i, "dir") /\ importer[i].dirs = {}
    /\ Move(i, [importer[i] EXCEPT !.at = IF importer[i].added = {} THEN "done" ELSE "repos",
                                   !.search = importer[i].added])
    /\ UNCHANGED <<disk, importmgr, items, template, imports>>

\* Repositories are looked for, and every distro of the import is added once more.
RepoFinder(i) ==
    /\ InStep(i, "repos")
    /\ \/ importer[i].search = {} /\ Step(i, "done") /\ UNCHANGED <<distros, distroOf>>
       \/ \E id \in importer[i].search :
            /\ List(id, IF id \in DOMAIN distros THEN distros[id] ELSE importer[i].boot)
            /\ Move(i, [importer[i] EXCEPT !.search = @ \ {id}])
    /\ UNCHANGED <<disk, importmgr, profileOf, links, template, imports>>

-----------------------------------------------------------------------------
ByClient == imports < MaxImports /\ imports' = imports + 1 /\ importer' = Disturbed

\* A recursive removal by name: the profile, the distro, its link, and the tree
\* if no distro is left that has its kernel there.
RemoveImported(n) ==
    /\ ByClient /\ DistroNamed(n)
    /\ LET id == distroOf[n]  left == DOMAIN distros \ {id}  m == MirrorOf[n[1]] IN
       /\ distros' = [k \in left |-> distros[k]]
       /\ distroOf' = [distroOf EXCEPT ![n] = NoDistro]
       /\ profileOf' = [k \in DistroNames |-> IF profileOf[k] = id THEN NoDistro ELSE profileOf[k]]
       /\ links' = [links EXCEPT ![n] = NoMirror]
       /\ IF \E k \in left : MirrorOf[k.name[1]] = m
          THEN UNCHANGED disk
          ELSE onDisk' = onDisk \ {m} /\ winpe' = winpe \ {m}
    /\ UNCHANGED <<importmgr, template>>

\* The template that signatures name is removed, or made again.
EditTemplate ==
    /\ ByClient /\ template' = ~template
    /\ UNCHANGED <<disk, importmgr, items>>

INext ==
    \/ \E i \in Importers :
         \/ Mirror(i) \/ Run(i) \/ ScanSignatures(i) \/ ImportWinpe(i)
         \/ Walk(i) \/ DistroAdder(i) \/ AddEntry(i) \/ AddDistro(i) \/ AddProfile(i)
         \/ WalkEnds(i) \/ RepoFinder(i)
    \/ \E n \in DistroNames : RemoveImported(n)
    \/ EditTemplate

ISpec == IInit /\ [][INext]_ivars

-----------------------------------------------------------------------------
OwnNames(i) == {n \in DistroNames : MirrorOf[n[1]] = importer[i].mirror
                                     /\ n[2] \in ArchsIn[importer[i].mirror]}
\* An import that met nobody and came to its end leaves, for every kernel and every
\* architecture of its tree, a distro under the name; those it made boot from that
\* tree and are linked to it, and have a profile.  What was listed before, by an import
\* that succeeded or failed, is as it was.  An import that raised has kept it, too.
ImportExact ==
    \A i \in Importers : LET j == importer[i] IN
        (j.alone /\ j.at \in {"done", "failed"}) =>
            /\ \A id \in j.before : id \in DOMAIN distros /\ distros[id] = j.kept[1][id]
            /\ \A n \in DistroNames :
                 /\ j.kept[2][n] # NoDistro => distroOf[n] = j.kept[2][n]
                 /\ j.kept[3][n] # NoDistro => profileOf[n] = j.kept[3][n]
            /\ j.at = "done" => \A n \in OwnNames(i) :
                 /\ DistroNamed(n)
                 /\ j.kept[2][n] = NoDistro =>
                      /\ distros[distroOf[n]] = j.mirror /\ links[n] = j.mirror
                      /\ profileOf[n] # NoDistro
=============================================================================
