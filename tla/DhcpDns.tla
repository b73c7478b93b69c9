------------------------------ MODULE DhcpDns ------------------------------
(***************************************************************************)
(* The managers that write the configuration of the DHCP and DNS servers.  *)
(* isc and dnsmasq keep the configuration in memory and bring it up to     *)
(* date for one system, or build it anew when they cannot tell what has    *)
(* changed; bind writes its zones on a full sync only, under a serial that *)
(* counts the syncs of a day.  Requests are served one at a time, and each *)
(* call of a manager is one step.  Lines of a file are records of what     *)
(* they say of one interface; their order does not matter.                 *)
(***************************************************************************)
EXTENDS Naturals, FiniteSets

CONSTANTS
    Machines,     \* the systems
    Ifaces,       \* the interfaces
    MachineOf,    \* [Ifaces -> Machines]
    Addrs,        \* MAC addresses
    Ips, NoIp,    \* IPv4 addresses; an interface may have none
    Tags, Default,\* DHCP tags; the tag of an interface without one
    Absent,       \* no such interface; no configuration in memory
    MaxPerDay,    \* the last serial of a day: 99 in the code
    MaxDays,      \* bound on the days
    MaxChanges    \* bound on the operations

\* What a file says of one interface.
HostLine == [mac: Addrs, ip: Ips \cup {NoIp}, tag: Tags \cup {Default}]

ASSUME DhcpAssumption ==
    /\ MachineOf \in [Ifaces -> Machines]
    /\ Absent \notin HostLine
    /\ Absent \notin [tags: SUBSET (Tags \cup {Default}), lines: SUBSET HostLine]
    /\ MaxPerDay \in Nat

VARIABLES
    machines,     \* the systems that are listed
    iface,        \* [Ifaces -> [mac, ip, tag]], or Absent
    manager,      \* "isc", with bind for the names, or "dnsmasq" for both
    memory,       \* the configuration the manager holds, or Absent
    dhcpd,        \* the DHCP file: the lines of hosts by tag
    ethers,       \* the ethers file: MAC and address
    names,        \* the hosts file: interface and address
    today, serial,\* the date, and the serial file of bind: <<day, count>>
    zone,         \* the zone file: its serial, and the records
    secondary,    \* external: what the secondary name server has transferred
    todo          \* bind has counted the serial and will write the zone
VARIABLES         \* history
    unsynced,     \* systems whose interfaces changed since a save or a sync
    exhausted,    \* a day had more syncs than its serials count
    changes
netvars == <<machines, iface, manager, memory, dhcpd, ethers, names,
             today, serial, zone, secondary, todo, unsynced, exhausted, changes>>
bindvars == <<today, serial, zone, secondary, todo, exhausted>>

IfacesOf(s) == {i \in Ifaces : MachineOf[i] = s /\ iface[i] # Absent}
\* _gen_system_config: one line for every interface, all of which have a MAC here.
HostLines(s) == {iface[i] : i \in IfacesOf(s)}
Contents(ls) == [tags |-> {Default} \cup {l.tag : l \in ls}, lines |-> ls]
FullConfig == Contents(UNION {HostLines(s) : s \in machines})
EthersOf(s) == {[mac |-> l.mac, ip |-> l.ip] : l \in {k \in HostLines(s) : k.ip # NoIp}}
FullEthers == UNION {EthersOf(s) : s \in machines}
NamesOf(s) == {<<i, iface[i].ip>> : i \in {j \in IfacesOf(s) : iface[j].ip # NoIp}}
FullNames == UNION {NamesOf(s) : s \in machines}

NInit ==
    /\ machines = Machines
    /\ \E i \in Ifaces, m \in Addrs :
         iface = [j \in Ifaces |-> IF j = i THEN [mac |-> m, ip |-> NoIp, tag |-> Default]
                                   ELSE Absent]
    /\ manager \in {"isc", "dnsmasq"}
    /\ memory = Absent /\ dhcpd = {} /\ ethers = {} /\ names = {}
    /\ today = 1 /\ serial = <<1, 0>> /\ todo = FALSE
    /\ zone = [serial |-> serial, records |-> {}] /\ secondary = zone
    /\ unsynced = Machines /\ exhausted = FALSE /\ changes = 0

Counted == changes < MaxChanges /\ changes' = changes + 1

\* write_configs, and for dnsmasq regen_ethers.
BuildAll ==
    /\ memory' = FullConfig /\ dhcpd' = FullConfig.lines
    /\ ethers' = IF manager = "dnsmasq" THEN FullEthers ELSE ethers

-----------------------------------------------------------------------------
(* Interfaces are items of their own: a change of one starts no sync.       *)

Change(i, r) ==
    /\ Counted /\ MachineOf[i] \in machines
    /\ iface' = [iface EXCEPT ![i] = r]
    /\ unsynced' = unsynced \cup {MachineOf[i]}
    /\ UNCHANGED <<machines, manager, memory, dhcpd, ethers, names, bindvars>>

FreeAddrs == Addrs \ {iface[i].mac : i \in {j \in Ifaces : iface[j] # Absent}}

AddIface(i) ==
    /\ iface[i] = Absent
    /\ \E m \in FreeAddrs : Change(i, [mac |-> m, ip |-> NoIp, tag |-> Default])
SetMac(i) == \E m \in FreeAddrs : Change(i, [iface[i] EXCEPT !.mac = m])
\* Duplicate addresses may be allowed.
SetAddress(i) == \E a \in Ips \cup {NoIp} : a # iface[i].ip /\ Change(i, [iface[i] EXCEPT !.ip = a])
SetTag(i) == \E t \in Tags \cup {Default} : t # iface[i].tag /\ Change(i, [iface[i] EXCEPT !.tag = t])
EditIface(i) == iface[i] # Absent /\ (SetMac(i) \/ SetAddress(i) \/ SetTag(i))
RemoveIface(i) == iface[i] # Absent /\ Change(i, Absent)

-----------------------------------------------------------------------------
(* isc                                                                      *)

Key(l) == <<l.tag, l.mac>>
\* All interfaces are known: one may have gone, and nobody knows which.
AllCached(s) == {Key(l) : l \in HostLines(s)} \subseteq {Key(l) : l \in memory.lines}

\* A merge that keeps what it finds.
MergedOld(s) ==
    LET old == {Key(l) : l \in memory.lines}
        new == {l \in HostLines(s) : Key(l) \notin old}
    IN [tags |-> memory.tags \cup {l.tag : l \in new}, lines |-> memory.lines \cup new]
Merged(s) ==
    LET new == HostLines(s)
        kept == {l \in memory.lines : \A k \in new : Key(k) # Key(l)}
    IN [tags |-> memory.tags \cup {l.tag : l \in new}, lines |-> kept \cup new]

IscSyncSingle(s) ==
    /\ manager = "isc"
    /\ IF memory = Absent THEN BuildAll
       ELSE IF AllCached(s) THEN BuildAll
       ELSE /\ memory' = Merged(s) /\ dhcpd' = memory'.lines
            /\ UNCHANGED ethers
    /\ unsynced' = unsynced \ {s}
    /\ UNCHANGED names

-----------------------------------------------------------------------------
(* dnsmasq.  A line is looked for in the text of its section: a line without *)
(* address is part of one of the same interface with an address.            *)

Part(l, ls) == \E k \in ls : Key(k) = Key(l) /\ (k.ip = l.ip \/ l.ip = NoIp)
Unique(s) == {l \in HostLines(s) : ~Part(l, memory.lines)}

\* The lines of the last section decide which interfaces are left out of ethers.
KnownMacs(s, t) == {l.mac : l \in {k \in HostLines(s) \ Unique(s) : k.tag = t}}

NoSection(s) == {l.tag : l \in HostLines(s)} \ memory.tags

DnsmasqNames(s) ==
    LET new == NamesOf(s) \ names
    IN names' = IF NamesOf(s) = {} THEN names ELSE IF new = {} THEN FullNames ELSE names \cup new

DnsmasqSyncSingle(s) ==
    /\ manager = "dnsmasq"
    /\ memory # Absent => NoSection(s) = {}
    /\ IF memory = Absent THEN BuildAll
       ELSE IF Unique(s) = {} THEN BuildAll
       ELSE /\ memory' = [memory EXCEPT !.lines = @ \cup Unique(s)]
            /\ dhcpd' = memory'.lines
            /\ \E t \in {l.tag : l \in HostLines(s)} :
                 ethers' = ethers \cup {e \in EthersOf(s) : e.mac \notin KnownMacs(s, t)}
    /\ DnsmasqNames(s)
    /\ unsynced' = unsynced \ {s}

\* KeyError: no interface had the tag when the configuration was built.  The
\* sections before it are changed in memory, no file is.
DnsmasqFails(s) ==
    /\ manager = "dnsmasq" /\ memory # Absent /\ NoSection(s) # {}
    /\ \E done \in SUBSET memory.tags :
         memory' = [memory EXCEPT !.lines = @ \cup {l \in Unique(s) : l.tag \in done}]
    /\ UNCHANGED <<dhcpd, ethers, names, unsynced>>

SaveMachine(s) ==
    /\ Counted /\ s \in machines
    /\ IscSyncSingle(s) \/ DnsmasqSyncSingle(s) \/ DnsmasqFails(s)
    /\ UNCHANGED <<machines, iface, manager, bindvars>>

\* remove_single_system: the interfaces of the system are gone before it is, so
\* that there is no line to take out of a configuration in memory.
RemoveMachine(s) ==
    /\ Counted /\ s \in machines
    /\ machines' = machines \ {s}
    /\ iface' = [i \in Ifaces |-> IF MachineOf[i] = s THEN Absent ELSE iface[i]]
    /\ LET rest == Contents(UNION {HostLines(k) : k \in machines'})
       IN memory' = IF memory = Absent THEN rest ELSE memory
    /\ dhcpd' = memory'.lines
    /\ unsynced' = unsynced \ {s}
    /\ UNCHANGED <<manager, ethers, names, bindvars>>

-----------------------------------------------------------------------------
(* bind: the serial is counted first, the zone files follow.                *)

\* A serial that is the date alone.
NextSerialOfDay == <<today, 0>>
NextSerial ==
    IF serial[1] = today /\ serial[2] < MaxPerDay THEN <<today, serial[2] + 1>> ELSE <<today, 0>>

\* The records of the managed zones, forward and reverse.
ZoneRecords == FullNames

SyncAll ==
    /\ Counted /\ ~todo
    /\ BuildAll /\ unsynced' = {}
    /\ names' = IF manager = "dnsmasq" THEN FullNames ELSE names
    /\ IF manager = "isc"
       THEN /\ serial' = NextSerial /\ todo' = TRUE
            /\ exhausted' = (exhausted \/ serial = <<today, MaxPerDay>>)
       ELSE UNCHANGED <<serial, todo, exhausted>>
    /\ UNCHANGED <<machines, iface, manager, today, zone, secondary>>

WriteZones ==
    /\ todo /\ todo' = FALSE
    /\ zone' = [serial |-> serial, records |-> ZoneRecords]
    /\ UNCHANGED <<machines, iface, manager, memory, dhcpd, ethers, names,
                   today, serial, secondary, unsynced, exhausted, changes>>

\* The daemon stops and starts again: the configuration in memory is lost.
Restarts ==
    /\ Counted
    /\ memory' = Absent /\ todo' = FALSE
    /\ UNCHANGED <<machines, iface, manager, dhcpd, ethers, names,
                   today, serial, zone, secondary, unsynced, exhausted>>

NewDay ==
    /\ today < MaxDays /\ today' = today + 1
    /\ UNCHANGED <<machines, iface, manager, memory, dhcpd, ethers, names,
                   serial, zone, secondary, todo, unsynced, exhausted, changes>>

\* External: the secondary transfers a zone when its serial is the later one.
Later(a, b) == a[1] > b[1] \/ (a[1] = b[1] /\ a[2] > b[2])
Transfer ==
    /\ Later(zone.serial, secondary.serial) /\ secondary' = zone
    /\ UNCHANGED <<machines, iface, manager, memory, dhcpd, ethers, names,
                   today, serial, zone, todo, unsynced, exhausted, changes>>

NNext ==
    \/ \E i \in Ifaces : AddIface(i) \/ EditIface(i) \/ RemoveIface(i)
    \/ \E s \in Machines : SaveMachine(s) \/ RemoveMachine(s)
    \/ SyncAll \/ WriteZones \/ Restarts \/ NewDay \/ Transfer

NSpec == NInit /\ [][NNext]_netvars

-----------------------------------------------------------------------------
\* The incremental updates lose no host: every interface of a system that was
\* saved or synced after its last change has its line in the DHCP file, with its
\* address, and for dnsmasq in the hosts file.  The ethers file is no part of it:
\* an interface whose line is known is left out there, though the line may stem
\* from RemoveMachine, which does not write that file.
HostsComplete ==
    \A s \in machines \ unsynced, i \in Ifaces :
        i \in IfacesOf(s) =>
            /\ IF manager = "isc" \/ iface[i].ip # NoIp
               THEN iface[i] \in dhcpd ELSE Part(iface[i], dhcpd)
            /\ manager = "dnsmasq" => NamesOf(s) \subseteq names

\* A serial identifies one version of the zone, until a day has more syncs than
\* the serial can count: a secondary with the serial of the zone has its records.
SerialIdentifies ==
    ~exhausted /\ secondary.serial = zone.serial => secondary.records = zone.records
=============================================================================
