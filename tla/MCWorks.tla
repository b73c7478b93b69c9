------------------------------ MODULE MCWorks ------------------------------
(***************************************************************************)
(* The works of the daemon beside the items, on one small instance *)
(* each.  They share no state: part says which of them moves, and the      *)
(* others stand still.                                                     *)
(***************************************************************************)
EXTENDS TftpSync, DhcpDns, Migrations, Import, Replicate, Reposync,
        BuildIso, Installation, TLC

VARIABLE part
Parts == {"tftp", "dhcp", "mig", "import", "replica", "mirror", "iso", "install"}

CONSTANTS h1, p1, m1, mn          \* TftpSync
CONSTANTS na, nb, s1              \* DhcpDns, Migrations
CONSTANTS da, ta, ar              \* Import
CONSTANTS od, op, oq, os          \* Replicate
CONSTANTS ra, va                  \* Reposync
CONSTANTS pa, pb, sa, dx, dy, vmlinuz   \* BuildIso
CONSTANTS ba                     \* Installation

\* One system has an interface at the start, the other has none; one profile is
\* at the top of the menu, the other below.
MCProfOf == [h \in Hosts |-> p1]
MCMenuOf == [p \in Profs |-> IF p = p1 THEN NoFile ELSE mn]
MCFirstNic == [h \in Hosts |-> IF h = h1 THEN m1 ELSE NoFile]

\* One system has two interfaces, the other one.
MCMachineOf == [i \in Ifaces |-> IF i \in {na, nb} THEN s1 ELSE CHOOSE s \in Machines : s # s1]
MCNodeOf == [i \in Nics |-> IF i \in {na, nb} THEN s1 ELSE CHOOSE s \in Nodes : s # s1]

\* Two trees of two breeds, one with two architectures.
MCMirrorOf == [d \in Dirs |-> IF d = da THEN ta ELSE CHOOSE t \in Mirrors : t # ta]
MCArchsIn == [t \in Mirrors |-> IF t = ta THEN Archs ELSE {ar}]
MCBreed == [t \in Mirrors |-> IF t = ta THEN "windows" ELSE "redhat"]

\* A distro, a profile, a profile below it, and its system.
MCKindOf == [x \in Objects |->
    IF x = od THEN "distro" ELSE IF x = os THEN "system" ELSE "profile"]
MCRefers == [x \in Objects |->
    IF x = od THEN {} ELSE IF x = op THEN {od} ELSE IF x = oq THEN {op} ELSE {oq}]

\* One repo of every breed that sets the variable, and one of yum that does not.
MCVariable == [r \in Repos |-> IF r = ra THEN va ELSE Unset]
MCKinds == [r \in Repos |->
    IF r # ra THEN {<<"yum", TRUE>>}
    ELSE {<<"yum", TRUE>>, <<"yum", FALSE>>, <<"rsync", TRUE>>, <<"wget", TRUE>>,
          <<"rhn", TRUE>>, <<"apt", TRUE>>}]

\* A profile and a system of one distro, a profile of another, of the other architecture
\* and with a kernel of the same name.  Everything; two profiles by their names, and a
\* boot partition; a system by its name; a profile and its repos; every profile alone.
Ordered(k, ps, ss, ns, d, e) == [kind |-> k, profiles |-> ps, systems |-> ss,
                                 nosystems |-> ns, distro |-> d, esp |-> e]
MCOrders ==
    {Ordered("net", <<>>, <<>>, FALSE, AnyDistro, FALSE),
     Ordered("net", <<pa, pb>>, <<>>, TRUE, dy, TRUE),
     Ordered("standalone", <<>>, <<sa>>, FALSE, AnyDistro, FALSE),
     Ordered("airgapped", <<pa>>, <<>>, FALSE, dx, FALSE),
     Ordered("airgapped", <<>>, <<>>, TRUE, dx, TRUE)}
MCIsoDistroOf == [p \in IsoProfiles |-> IF p = pa THEN dx ELSE dy]
MCIsoProfileOf == [s \in IsoSystems |-> pa]
MCIsoArch == [d \in IsoDistros |-> IF d = dx THEN "x86_64" ELSE "ppc64le"]
MCKernelFile == [d \in IsoDistros |-> vmlinuz]
MCIsoRepos == [x \in IsoProfiles \cup IsoSystems |-> IF x = pb THEN {} ELSE {ra}]

\* Every machine has an address of its own.
MCAddressOf == [b \in Boxes |-> b]

\* The one initial state of a part that stands still.
NStill == manager = "isc" /\ iface[na] # Absent /\ iface[na].mac = m1
MStill == mongo = TRUE /\ nicdir = TRUE /\ templates = "none"
          /\ doc = CHOOSE d \in Installed(V337) : TRUE
QStill == breed[ra] = "apt" /\ environ = Unset
\* The environment at the start is varied with one breed, and the breeds in one environment.
QVaried == breed[ra] = "yum" \/ environ = Unset

\* The threads of four of the parts are the same two, and none is told from the other.
AnyThread == Permutations(Importers)

wvars == <<part, fvars, netvars, mvars, ivars, rvars, qvars, bvars, pvars>>

Tftp == part = "tftp" /\ FNext /\ UNCHANGED <<part, netvars, mvars, ivars, rvars, qvars, bvars, pvars>>
Dhcp == part = "dhcp" /\ NNext /\ UNCHANGED <<part, fvars, mvars, ivars, rvars, qvars, bvars, pvars>>
Mig == part = "mig" /\ MNext /\ UNCHANGED <<part, fvars, netvars, ivars, rvars, qvars, bvars, pvars>>
Imp == part = "import" /\ INext /\ UNCHANGED <<part, fvars, netvars, mvars, rvars, qvars, bvars, pvars>>
Rep == part = "replica" /\ RNext /\ UNCHANGED <<part, fvars, netvars, mvars, ivars, qvars, bvars, pvars>>
Mir == part = "mirror" /\ QNext /\ UNCHANGED <<part, fvars, netvars, mvars, ivars, rvars, bvars, pvars>>
Iso == part = "iso" /\ BNext /\ UNCHANGED <<part, fvars, netvars, mvars, ivars, rvars, qvars, pvars>>
Ins == part = "install" /\ PNext
       /\ UNCHANGED <<part, fvars, netvars, mvars, ivars, rvars, qvars, bvars>>

WInit ==
    /\ part \in Parts
    /\ FInit /\ NInit /\ (part # "dhcp" => NStill)
    /\ QInit /\ IF part = "mirror" THEN QVaried ELSE QStill
    /\ IInit /\ RInit /\ BInit /\ PInit
    /\ part # "install" => enrolled = Boxes
    /\ part # "mig" => MStill
    /\ MInit
WNext == Tftp \/ Dhcp \/ Mig \/ Imp \/ Rep \/ Mir \/ Iso \/ Ins
WSpec == WInit /\ [][WNext]_wvars
=============================================================================
