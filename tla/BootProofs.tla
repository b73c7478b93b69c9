--------------------------- MODULE BootProofs ---------------------------
(***************************************************************************)
(* Proofs about what a machine boots from: the DHCP and DNS files          *)
(* (DhcpDns), and the TFTP tree (TftpSync).                                *)
(***************************************************************************)
EXTENDS DhcpDns, TftpSync, TLAPS

-----------------------------------------------------------------------------
(***************************************************************************)
(* Proofs about DhcpDns, for any number of systems and interfaces and any  *)
(* number of operations and days: the incremental updates of the DHCP file *)
(* lose no host, and a serial identifies one version of the zone.          *)
(***************************************************************************)

Config == [tags: SUBSET (Tags \cup {Default}), lines: SUBSET HostLine]

TypesOK ==
    /\ machines \subseteq Machines
    /\ iface \in [Ifaces -> HostLine \cup {Absent}]
    /\ manager \in {"isc", "dnsmasq"}
    /\ memory \in Config \cup {Absent}

\* No two interfaces have one MAC: their lines are never taken for each other.
MacsUnique ==
    \A i, j \in Ifaces :
        iface[i] # Absent /\ iface[j] # Absent /\ iface[i].mac = iface[j].mac => i = j

\* A line is found in ls: with dnsmasq one without an address may be a part of another.
Covered(l, ls) == IF manager = "isc" \/ l.ip # NoIp THEN l \in ls ELSE Part(l, ls)

\* Both the file and the configuration in memory, from which the file is written next,
\* have the lines of a system that was saved or synced.
Written(s) ==
    \A i \in IfacesOf(s) :
        /\ Covered(iface[i], dhcpd)
        /\ memory # Absent => Covered(iface[i], memory.lines)
NamesWritten(s) == manager = "dnsmasq" => NamesOf(s) \subseteq names
HostsInv == \A s \in machines \ unsynced : Written(s) /\ NamesWritten(s)

\* The serials of the secondary, of the zone and of the file never overtake each other.
NoLater(a, b) == a = b \/ Later(b, a)
SerialInv ==
    /\ today \in Nat /\ serial \in Nat \X Nat
    /\ zone.serial \in Nat \X Nat /\ secondary.serial \in Nat \X Nat
    /\ serial[1] <= today /\ serial[2] <= MaxPerDay
    /\ ~exhausted =>
         /\ NoLater(zone.serial, serial) /\ (todo => Later(serial, zone.serial))
         /\ NoLater(secondary.serial, zone.serial)
         /\ secondary.serial = zone.serial => secondary.records = zone.records

-----------------------------------------------------------------------------
(* The serial of the zone                                                  *)

LEMMA LaterOrder ==
    ASSUME NEW a \in Nat \X Nat, NEW b \in Nat \X Nat, NEW c \in Nat \X Nat
    PROVE  /\ Later(a, b) => a # b
           /\ Later(a, b) /\ NoLater(c, b) => Later(a, c)
           /\ NoLater(b, a) /\ NoLater(c, b) => NoLater(c, a)
<1>1. \A p, q \in Nat \X Nat : p = q <=> p[1] = q[1] /\ p[2] = q[2]
  OBVIOUS
<1>2. /\ a[1] \in Nat /\ a[2] \in Nat /\ b[1] \in Nat /\ b[2] \in Nat
      /\ c[1] \in Nat /\ c[2] \in Nat
  OBVIOUS
<1> QED
  BY <1>1, <1>2 DEF Later, NoLater

LEMMA NextSerialIsLater ==
    ASSUME SerialInv
    PROVE  /\ NextSerial \in Nat \X Nat /\ NextSerial[1] <= today /\ NextSerial[2] <= MaxPerDay
           /\ serial # <<today, MaxPerDay>> => Later(NextSerial, serial)
<1>1. /\ today \in Nat /\ serial[1] \in Nat /\ serial[2] \in Nat /\ MaxPerDay \in Nat
      /\ serial[1] <= today /\ serial[2] <= MaxPerDay /\ serial = <<serial[1], serial[2]>>
  BY DhcpAssumption DEF SerialInv
<1>2. CASE serial[1] = today /\ serial[2] < MaxPerDay
  BY <1>1, <1>2 DEF NextSerial, Later
<1>3. CASE ~(serial[1] = today /\ serial[2] < MaxPerDay)
  <2>1. NextSerial = <<today, 0>>
    BY <1>3 DEF NextSerial
  <2>2. serial # <<today, MaxPerDay>> => today > serial[1]
    BY <1>1, <1>3
  <2> QED
    BY <1>1, <2>1, <2>2 DEF Later
<1> QED
  BY <1>2, <1>3

LEMMA SyncSerial ==
    ASSUME SerialInv, SyncAll
    PROVE  SerialInv'
<1>1. ~todo /\ UNCHANGED <<today, zone, secondary>>
  BY DEF SyncAll
<1>2. CASE manager = "isc"
  <2>1. /\ serial' = NextSerial /\ todo' = TRUE
        /\ exhausted' = (exhausted \/ serial = <<today, MaxPerDay>>)
    BY <1>2 DEF SyncAll
  <2>2. /\ serial' \in Nat \X Nat /\ serial'[1] <= today /\ serial'[2] <= MaxPerDay
        /\ serial # <<today, MaxPerDay>> => Later(serial', serial)
    BY <2>1, NextSerialIsLater
  <2>3. ASSUME ~exhausted'
        PROVE  /\ NoLater(zone.serial, serial') /\ Later(serial', zone.serial)
               /\ NoLater(secondary.serial, zone.serial)
               /\ secondary.serial = zone.serial => secondary.records = zone.records
    <3>1. ~exhausted /\ serial # <<today, MaxPerDay>>
      BY <2>1, <2>3
    <3>2. NoLater(zone.serial, serial) /\ Later(serial', serial)
      BY <2>2, <3>1 DEF SerialInv
    <3>3. Later(serial', zone.serial)
      BY <2>2, <3>2, LaterOrder DEF SerialInv
    <3> QED
      BY <3>1, <3>3 DEF SerialInv, NoLater
  <2> QED
    BY <1>1, <2>2, <2>3 DEF SerialInv
<1>3. CASE manager # "isc"
  <2>1. UNCHANGED <<serial, todo, exhausted>>
    BY <1>3 DEF SyncAll
  <2> QED
    BY <1>1, <2>1 DEF SerialInv
<1> QED
  BY <1>2, <1>3

LEMMA NextSerialInv == SerialInv /\ [NNext]_netvars => SerialInv'
<1> SUFFICES ASSUME SerialInv, [NNext]_netvars PROVE SerialInv'
  OBVIOUS
<1>1. ASSUME UNCHANGED bindvars  PROVE SerialInv'
  BY <1>1 DEF bindvars, SerialInv
<1>2. ASSUME NEW i \in Ifaces, AddIface(i) \/ EditIface(i) \/ RemoveIface(i)
      PROVE  SerialInv'
  <2>1. UNCHANGED bindvars
    BY <1>2 DEF AddIface, EditIface, RemoveIface, SetMac, SetAddress, SetTag, Change
  <2> QED
    BY <1>1, <2>1
<1>3. ASSUME NEW s \in Machines, SaveMachine(s) \/ RemoveMachine(s)
      PROVE  SerialInv'
  BY <1>1, <1>3 DEF SaveMachine, RemoveMachine
<1>4. CASE WriteZones
  <2>1. /\ todo /\ todo' = FALSE /\ UNCHANGED <<today, serial, secondary, exhausted>>
        /\ zone'.serial = serial
    BY <1>4 DEF WriteZones
  <2>2. ~exhausted => Later(serial, secondary.serial)
    BY <2>1, LaterOrder DEF SerialInv
  <2>3. ~exhausted => serial # secondary.serial
    BY <2>2, LaterOrder DEF SerialInv
  <2> QED
    BY <2>1, <2>2, <2>3 DEF SerialInv, NoLater
<1>5. CASE Restarts
  <2>1. todo' = FALSE /\ UNCHANGED <<today, serial, zone, secondary, exhausted>>
    BY <1>5 DEF Restarts
  <2> QED
    BY <2>1 DEF SerialInv
<1>6. CASE NewDay
  <2>1. today' = today + 1 /\ UNCHANGED <<serial, zone, secondary, todo, exhausted>>
    BY <1>6 DEF NewDay
  <2> QED
    BY <2>1 DEF SerialInv
<1>7. CASE Transfer
  <2>1. secondary' = zone /\ UNCHANGED <<today, serial, zone, todo, exhausted>>
    BY <1>7 DEF Transfer
  <2> QED
    BY <2>1 DEF SerialInv, NoLater
<1>8. CASE UNCHANGED netvars
  BY <1>1, <1>8 DEF netvars, bindvars
<1> QED
  BY <1>2, <1>3, <1>4, <1>5, <1>6, <1>7, <1>8, SyncSerial DEF NNext

LEMMA InitSerial == NInit => SerialInv
BY DhcpAssumption DEF NInit, SerialInv, NoLater

\* bind.py counts the serial before it writes the zones: through restarts in between and
\* new days, a secondary with the serial of the zone has its records, until a day has more
\* syncs than its serials can count.
THEOREM SerialNamesOneZone == NSpec => []SerialIdentifies
<1>1. SerialInv => SerialIdentifies
  BY DEF SerialInv, SerialIdentifies
<1> QED
  BY <1>1, InitSerial, NextSerialInv, PTL DEF NSpec

-----------------------------------------------------------------------------
(* The lines of the hosts                                                  *)

Inv == TypesOK /\ MacsUnique /\ HostsInv

LEMMA LinesOf ==
    ASSUME TypesOK, NEW s, NEW i \in IfacesOf(s)
    PROVE  /\ i \in Ifaces /\ MachineOf[i] = s /\ iface[i] # Absent
           /\ iface[i] \in HostLine /\ iface[i] \in HostLines(s)
BY DEF TypesOK, IfacesOf, HostLines

LEMMA LinesTyped == TypesOK => \A s : HostLines(s) \subseteq HostLine
BY DEF TypesOK, IfacesOf, HostLines

\* A line covers itself, and more lines cover no less.
LEMMA CoveredBy ==
    ASSUME NEW l, NEW ls
    PROVE  /\ l \in ls => Covered(l, ls)
           /\ \A more : ls \subseteq more /\ Covered(l, ls) => Covered(l, more)
BY DEF Covered, Part

LEMMA FullConfigTyped == TypesOK => FullConfig \in Config
<1> SUFFICES ASSUME TypesOK PROVE FullConfig \in Config
  OBVIOUS
<1> DEFINE ls == UNION {HostLines(s) : s \in machines}
<1>1. ls \subseteq HostLine
  BY LinesTyped
<1>2. {Default} \cup {l.tag : l \in ls} \in SUBSET (Tags \cup {Default})
  BY <1>1 DEF HostLine
<1>3. FullConfig = [tags |-> {Default} \cup {l.tag : l \in ls}, lines |-> ls]
  BY DEF FullConfig, Contents
<1> HIDE DEF ls
<1> QED
  BY <1>1, <1>2, <1>3 DEF Config

\* The configuration is built anew: every listed system has its lines.
LEMMA Rebuilt ==
    ASSUME TypesOK, BuildAll, UNCHANGED <<machines, iface, manager>>
    PROVE  /\ memory' \in Config
           /\ \A s \in machines : Written(s)'
<1>1. memory' = FullConfig /\ dhcpd' = FullConfig.lines
  BY DEF BuildAll
<1>2. FullConfig.lines = UNION {HostLines(s) : s \in machines}
  BY DEF FullConfig, Contents
<1>3. ASSUME NEW s \in machines, NEW i \in IfacesOf(s)
      PROVE  iface[i] \in dhcpd' /\ iface[i] \in memory'.lines
  BY <1>1, <1>2, <1>3, LinesOf
<1>4. ASSUME NEW s \in machines  PROVE Written(s)'
  <2>1. IfacesOf(s)' = IfacesOf(s)
    BY DEF IfacesOf
  <2>2. \A i \in IfacesOf(s) : iface'[i] \in dhcpd' /\ iface'[i] \in memory'.lines
    BY <1>3
  <2> QED
    BY <2>1, <2>2 DEF Written, Covered, Part
<1> QED
  BY <1>1, <1>4, FullConfigTyped

\* What covers the lines of a system before does so afterwards.
LEMMA StaysWritten ==
    ASSUME NEW s, Written(s), UNCHANGED <<iface, manager>>,
           \A i \in IfacesOf(s) : Covered(iface[i], dhcpd) => Covered(iface[i], dhcpd'),
           memory' # Absent => memory # Absent,
           memory' # Absent => \A i \in IfacesOf(s) :
               Covered(iface[i], memory.lines) => Covered(iface[i], memory'.lines)
    PROVE  Written(s)'
<1>1. IfacesOf(s)' = IfacesOf(s)
  BY DEF IfacesOf
<1>2. \A i \in IfacesOf(s) : /\ Covered(iface[i], dhcpd')
                             /\ memory' # Absent => Covered(iface[i], memory'.lines)
  BY DEF Written
<1> QED
  BY <1>1, <1>2 DEF Written, Covered, Part

LEMMA NamesStay ==
    ASSUME NEW s, NamesWritten(s), UNCHANGED <<iface, manager>>, names \subseteq names'
    PROVE  NamesWritten(s)'
<1>1. NamesOf(s)' = NamesOf(s)
  BY DEF NamesOf, IfacesOf
<1> QED
  BY <1>1 DEF NamesWritten

-----------------------------------------------------------------------------
(* Saving a system                                                         *)

LEMMA ConfigTyped ==
    ASSUME NEW c \in Config, NEW ls, ls \subseteq HostLine
    PROVE  /\ [c EXCEPT !.lines = @ \cup ls] \in Config
           /\ [c EXCEPT !.lines = @ \cup ls].lines = c.lines \cup ls
           /\ c \in Config /\ c # Absent
BY DhcpAssumption DEF Config

\* A merge takes no line of another system away, since those have other MACs.
LEMMA MergeKeeps ==
    ASSUME TypesOK, MacsUnique, NEW s, memory # Absent
    PROVE  /\ Merged(s) \in Config
           /\ HostLines(s) \subseteq Merged(s).lines
           /\ \A t : t # s => \A i \in IfacesOf(t) :
                 iface[i] \in memory.lines => iface[i] \in Merged(s).lines
<1> DEFINE new == HostLines(s)
           kept == {l \in memory.lines : \A k \in new : Key(k) # Key(l)}
           tags == memory.tags \cup {l.tag : l \in new}
<1>1. memory \in Config /\ memory.lines \subseteq HostLine
      /\ memory.tags \subseteq Tags \cup {Default} /\ new \subseteq HostLine
  BY LinesTyped DEF TypesOK, Config
<1>2. tags \in SUBSET (Tags \cup {Default}) /\ kept \cup new \in SUBSET HostLine
  BY <1>1 DEF HostLine
<1>3. Merged(s) = [tags |-> tags, lines |-> kept \cup new]
  BY DEF Merged
<1>4. ASSUME NEW t, t # s, NEW i \in IfacesOf(t), NEW k \in new
      PROVE  Key(k) # Key(iface[i])
  <2>1. PICK j \in IfacesOf(s) : k = iface[j]
    BY DEF HostLines
  <2>2. i \in Ifaces /\ j \in Ifaces /\ i # j /\ iface[i] # Absent /\ iface[j] # Absent
    BY <1>4 DEF IfacesOf
  <2>3. k.mac # iface[i].mac
    BY <2>1, <2>2 DEF MacsUnique
  <2> QED
    BY <2>3 DEF Key
<1>5. ASSUME NEW t, t # s, NEW i \in IfacesOf(t), iface[i] \in memory.lines
      PROVE  iface[i] \in kept
  BY <1>4, <1>5
<1> HIDE DEF new, kept, tags
<1>6. Merged(s) \in Config /\ Merged(s).lines = kept \cup new
  BY <1>2, <1>3 DEF Config
<1> QED
  BY <1>5, <1>6 DEF new

\* A line that dnsmasq does not add is covered by one that it has.
LEMMA NotUnique ==
    ASSUME TypesOK, manager = "dnsmasq", NEW s, memory # Absent, NEW l \in HostLines(s)
    PROVE  Covered(l, memory.lines \cup Unique(s))
<1>1. memory.lines \subseteq HostLine /\ l \in HostLine
  BY LinesTyped DEF TypesOK, Config
<1>2. CASE l \in Unique(s)
  BY <1>2, CoveredBy
<1>3. CASE l \notin Unique(s)
  <2>1. PICK k \in memory.lines : Key(k) = Key(l) /\ (k.ip = l.ip \/ l.ip = NoIp)
    BY <1>3 DEF Unique, Part
  <2>2. CASE l.ip # NoIp
    <3>1. k.tag = l.tag /\ k.mac = l.mac /\ k.ip = l.ip
      BY <2>1, <2>2 DEF Key
    <3>2. k = l
      BY <1>1, <3>1 DEF HostLine
    <3> QED
      BY <2>2, <3>2 DEF Covered
  <2>3. CASE l.ip = NoIp
    BY <2>1, <2>3 DEF Covered, Part
  <2> QED
    BY <2>2, <2>3
<1> QED
  BY <1>2, <1>3

LEMMA IscSaved ==
    ASSUME Inv, NEW s \in machines, IscSyncSingle(s), UNCHANGED <<machines, iface, manager>>
    PROVE  Inv'
<1>1. TypesOK /\ MacsUnique /\ HostsInv /\ manager = "isc" /\ unsynced' = unsynced \ {s}
  BY DEF Inv, IscSyncSingle
<1>2. MacsUnique'
  BY <1>1 DEF MacsUnique
<1>3. ASSUME NEW t \in machines  PROVE NamesWritten(t)'
  BY <1>1 DEF NamesWritten
<1>4. CASE BuildAll
  <2>1. memory' \in Config /\ \A t \in machines : Written(t)'
    BY <1>1, <1>4, Rebuilt
  <2>2. TypesOK'
    BY <1>1, <2>1 DEF TypesOK
  <2>3. HostsInv'
    BY <1>3, <2>1 DEF HostsInv
  <2> QED
    BY <1>2, <2>2, <2>3 DEF Inv
<1>5. CASE memory # Absent /\ memory' = Merged(s) /\ dhcpd' = memory'.lines
  <2>1. /\ memory' \in Config /\ HostLines(s) \subseteq memory'.lines
        /\ \A t : t # s => \A i \in IfacesOf(t) :
              iface[i] \in memory.lines => iface[i] \in memory'.lines
    BY <1>1, <1>5, MergeKeeps
  <2>2. TypesOK'
    BY <1>1, <2>1 DEF TypesOK
  <2>3. ASSUME NEW t \in machines, t \notin unsynced', NEW i \in IfacesOf(t)
        PROVE  iface[i] \in memory'.lines
    <3>1. CASE t = s
      BY <1>1, <2>1, <3>1, LinesOf
    <3>2. CASE t # s
      <4>1. t \notin unsynced
        BY <1>1, <2>3, <3>2
      <4>2. Covered(iface[i], memory.lines)
        BY <1>1, <1>5, <4>1 DEF HostsInv, Written
      <4>3. iface[i] \in memory.lines
        BY <1>1, <4>2 DEF Covered
      <4> QED
        BY <2>1, <3>2, <4>3
    <3> QED
      BY <3>1, <3>2
  <2>4. ASSUME NEW t \in machines, t \notin unsynced'  PROVE Written(t)'
    <3>1. IfacesOf(t)' = IfacesOf(t)
      BY DEF IfacesOf
    <3>2. \A i \in IfacesOf(t) : iface'[i] \in dhcpd' /\ iface'[i] \in memory'.lines
      BY <1>5, <2>3, <2>4
    <3> QED
      BY <3>1, <3>2 DEF Written, Covered, Part
  <2>5. HostsInv'
    BY <1>3, <2>4 DEF HostsInv
  <2> QED
    BY <1>2, <2>2, <2>5 DEF Inv
<1> QED
  BY <1>4, <1>5 DEF IscSyncSingle

\* Lines are added to the configuration in memory, and to the file or not.
LEMMA Grown ==
    ASSUME TypesOK, memory # Absent, NEW ls, ls \subseteq HostLine,
           memory' = [memory EXCEPT !.lines = @ \cup ls],
           UNCHANGED <<machines, iface, manager>>,
           dhcpd' = dhcpd \/ dhcpd' = memory'.lines
    PROVE  /\ TypesOK' /\ memory'.lines = memory.lines \cup ls /\ memory' # Absent
           /\ \A s : Written(s) => Written(s)'
<1>1. memory \in Config
  BY DEF TypesOK
<1>2. memory' \in Config /\ memory'.lines = memory.lines \cup ls /\ memory' # Absent
  BY <1>1, ConfigTyped
<1>3. ASSUME NEW s, Written(s)  PROVE Written(s)'
  <2>1. \A i \in IfacesOf(s) : Covered(iface[i], dhcpd) /\ Covered(iface[i], memory.lines)
    BY <1>3 DEF Written
  <2>2. \A i \in IfacesOf(s) : Covered(iface[i], memory'.lines)
    BY <1>2, <2>1, CoveredBy
  <2>3. \A i \in IfacesOf(s) : Covered(iface[i], dhcpd')
    BY <2>1, <2>2
  <2> QED
    BY <1>3, <2>2, <2>3, StaysWritten
<1> QED
  BY <1>2, <1>3 DEF TypesOK

LEMMA NamesSaved ==
    ASSUME Inv, NEW s \in machines, manager = "dnsmasq", DnsmasqNames(s),
           UNCHANGED <<machines, iface, manager>>, unsynced' = unsynced \ {s}
    PROVE  \A t \in machines \ unsynced' : NamesWritten(t)'
<1> SUFFICES ASSUME NEW t \in machines, t \notin unsynced', NEW p \in NamesOf(t)
             PROVE  p \in names'
  BY DEF NamesWritten, NamesOf, IfacesOf
<1>1. NamesOf(t) \subseteq FullNames
  BY DEF FullNames
<1>2. names' = names \/ names' = FullNames \/ names' = names \cup (NamesOf(s) \ names)
  BY DEF DnsmasqNames
<1>3. CASE t = s
  BY <1>1, <1>3 DEF DnsmasqNames
<1>4. CASE t # s
  <2>1. NamesOf(t) \subseteq names
    BY <1>4 DEF Inv, HostsInv, NamesWritten
  <2> QED
    BY <1>1, <1>2, <2>1
<1> QED
  BY <1>3, <1>4

LEMMA DnsmasqSaved ==
    ASSUME Inv, NEW s \in machines, DnsmasqSyncSingle(s), UNCHANGED <<machines, iface, manager>>
    PROVE  Inv'
<1>1. /\ TypesOK /\ MacsUnique /\ HostsInv /\ manager = "dnsmasq" /\ unsynced' = unsynced \ {s}
      /\ DnsmasqNames(s)
  BY DEF Inv, DnsmasqSyncSingle
<1>2. MacsUnique'
  BY <1>1 DEF MacsUnique
<1>3. \A t \in machines \ unsynced' : NamesWritten(t)'
  BY <1>1, NamesSaved
<1>4. CASE BuildAll
  <2>1. memory' \in Config /\ \A t \in machines : Written(t)'
    BY <1>1, <1>4, Rebuilt
  <2>2. TypesOK' /\ HostsInv'
    BY <1>1, <1>3, <2>1 DEF TypesOK, HostsInv
  <2> QED
    BY <1>2, <2>2 DEF Inv
<1>5. CASE /\ memory # Absent /\ memory' = [memory EXCEPT !.lines = @ \cup Unique(s)]
           /\ dhcpd' = memory'.lines
  <2>1. Unique(s) \subseteq HostLine
    BY <1>1, LinesTyped DEF Unique
  <2>2. /\ TypesOK' /\ memory'.lines = memory.lines \cup Unique(s) /\ memory' # Absent
        /\ \A t : Written(t) => Written(t)'
    BY <1>1, <1>5, <2>1, Grown
  <2>3. Written(s)'
    <3>1. \A i \in IfacesOf(s) : Covered(iface[i], memory'.lines)
      BY <1>1, <1>5, <2>2, NotUnique, LinesOf
    <3>2. IfacesOf(s)' = IfacesOf(s)
      BY DEF IfacesOf
    <3> QED
      BY <1>1, <1>5, <3>1, <3>2 DEF Written, Covered, Part
  <2>4. ASSUME NEW t \in machines, t \notin unsynced'  PROVE Written(t)'
    BY <1>1, <2>2, <2>3, <2>4 DEF HostsInv
  <2>5. HostsInv'
    BY <1>3, <2>4 DEF HostsInv
  <2> QED
    BY <1>2, <2>2, <2>5 DEF Inv
<1> QED
  BY <1>4, <1>5 DEF DnsmasqSyncSingle

LEMMA DnsmasqFailed ==
    ASSUME Inv, NEW s \in machines, DnsmasqFails(s), UNCHANGED <<machines, iface, manager>>
    PROVE  Inv'
<1>1. /\ TypesOK /\ MacsUnique /\ HostsInv /\ memory # Absent
      /\ UNCHANGED <<dhcpd, ethers, names, unsynced>>
  BY DEF Inv, DnsmasqFails
<1>2. PICK done : memory' = [memory EXCEPT !.lines = @ \cup {l \in Unique(s) : l.tag \in done}]
  BY DEF DnsmasqFails
<1>3. {l \in Unique(s) : l.tag \in done} \subseteq HostLine
  BY <1>1, LinesTyped DEF Unique
<1>4. TypesOK' /\ \A t : Written(t) => Written(t)'
  BY <1>1, <1>2, <1>3, Grown
<1>5. MacsUnique'
  BY <1>1 DEF MacsUnique
<1>6. HostsInv'
  BY <1>1, <1>4, NamesStay DEF HostsInv
<1> QED
  BY <1>4, <1>5, <1>6 DEF Inv

-----------------------------------------------------------------------------
(* The other operations                                                    *)

\* A change of an interface: its system is not as it was saved any more.
LEMMA Changed ==
    ASSUME Inv, NEW i \in Ifaces, NEW r \in HostLine \cup {Absent}, Change(i, r),
           \/ r = Absent
           \/ r.mac \in FreeAddrs
           \/ iface[i] # Absent /\ r.mac = iface[i].mac
    PROVE  Inv'
<1>1. /\ TypesOK /\ MacsUnique /\ HostsInv /\ iface' = [iface EXCEPT ![i] = r]
      /\ unsynced' = unsynced \cup {MachineOf[i]}
      /\ UNCHANGED <<machines, manager, memory, dhcpd, names>>
  BY DEF Inv, Change
<1>2. TypesOK'
  BY <1>1 DEF TypesOK
<1>3. iface'[i] = r /\ \A j \in Ifaces : j # i => iface'[j] = iface[j]
  BY <1>1 DEF TypesOK
<1>4. MacsUnique'
  <2> SUFFICES ASSUME r # Absent, NEW j \in Ifaces, j # i, iface[j] # Absent
               PROVE  iface[j].mac # r.mac
    BY <1>1, <1>3 DEF MacsUnique
  <2>1. CASE r.mac \in FreeAddrs
    BY <2>1 DEF FreeAddrs
  <2>2. CASE iface[i] # Absent /\ r.mac = iface[i].mac
    BY <1>1, <2>2 DEF MacsUnique
  <2> QED
    BY <2>1, <2>2
<1>5. ASSUME NEW s \in machines', s \notin unsynced'
      PROVE  Written(s)' /\ NamesWritten(s)'
  <2>1. s # MachineOf[i] /\ Written(s) /\ NamesWritten(s)
    BY <1>1, <1>5 DEF HostsInv
  <2>2. IfacesOf(s)' = IfacesOf(s) /\ \A j \in IfacesOf(s) : iface'[j] = iface[j]
    BY <1>3, <2>1 DEF IfacesOf
  <2>3. Written(s)'
    BY <1>1, <2>1, <2>2 DEF Written, Covered, Part
  <2>4. NamesOf(s)' = NamesOf(s)
    BY <2>2 DEF NamesOf
  <2> QED
    BY <1>1, <2>1, <2>3, <2>4 DEF NamesWritten
<1> QED
  BY <1>2, <1>4, <1>5 DEF Inv, HostsInv

LEMMA IfaceInv ==
    ASSUME Inv, NEW i \in Ifaces, AddIface(i) \/ EditIface(i) \/ RemoveIface(i)
    PROVE  Inv'
<1>1. iface[i] # Absent => iface[i] \in HostLine
  BY DEF Inv, TypesOK
<1>2. CASE AddIface(i)
  <2>1. PICK m \in FreeAddrs : Change(i, [mac |-> m, ip |-> NoIp, tag |-> Default])
    BY <1>2 DEF AddIface
  <2>2. [mac |-> m, ip |-> NoIp, tag |-> Default] \in HostLine
    BY DEF FreeAddrs, HostLine
  <2> QED
    BY <2>1, <2>2, Changed
<1>3. CASE iface[i] # Absent /\ SetMac(i)
  <2>1. PICK m \in FreeAddrs : Change(i, [iface[i] EXCEPT !.mac = m])
    BY <1>3 DEF SetMac
  <2>2. [iface[i] EXCEPT !.mac = m] \in HostLine /\ [iface[i] EXCEPT !.mac = m].mac = m
    BY <1>1, <1>3 DEF FreeAddrs, HostLine
  <2> QED
    BY <2>1, <2>2, Changed
<1>4. CASE iface[i] # Absent /\ SetAddress(i)
  <2>1. PICK a \in Ips \cup {NoIp} : Change(i, [iface[i] EXCEPT !.ip = a])
    BY <1>4 DEF SetAddress
  <2>2. [iface[i] EXCEPT !.ip = a] \in HostLine /\ [iface[i] EXCEPT !.ip = a].mac = iface[i].mac
    BY <1>1, <1>4 DEF HostLine
  <2> QED
    BY <1>4, <2>1, <2>2, Changed
<1>5. CASE iface[i] # Absent /\ SetTag(i)
  <2>1. PICK t \in Tags \cup {Default} : Change(i, [iface[i] EXCEPT !.tag = t])
    BY <1>5 DEF SetTag
  <2>2. [iface[i] EXCEPT !.tag = t] \in HostLine /\ [iface[i] EXCEPT !.tag = t].mac = iface[i].mac
    BY <1>1, <1>5 DEF HostLine
  <2> QED
    BY <1>5, <2>1, <2>2, Changed
<1>6. CASE RemoveIface(i)
  BY <1>6, Changed DEF RemoveIface
<1> QED
  BY <1>2, <1>3, <1>4, <1>5, <1>6 DEF EditIface

LEMMA RemoveMachineInv ==
    ASSUME Inv, NEW s \in Machines, RemoveMachine(s)
    PROVE  Inv'
<1> DEFINE rest == Contents(UNION {HostLines(k) : k \in machines'})
<1>1. /\ TypesOK /\ MacsUnique /\ HostsInv /\ machines' = machines \ {s}
      /\ iface' = [i \in Ifaces |-> IF MachineOf[i] = s THEN Absent ELSE iface[i]]
      /\ memory' = (IF memory = Absent THEN rest ELSE memory) /\ dhcpd' = memory'.lines
      /\ unsynced' = unsynced \ {s} /\ UNCHANGED <<manager, names>>
  BY DEF Inv, RemoveMachine
<1>2. rest \in Config /\ \A t \in machines' : HostLines(t) \subseteq rest.lines
  <2> DEFINE ls == UNION {HostLines(k) : k \in machines'}
  <2>1. ls \subseteq HostLine /\ \A t \in machines' : HostLines(t) \subseteq ls
    BY <1>1, LinesTyped
  <2>2. {Default} \cup {l.tag : l \in ls} \in SUBSET (Tags \cup {Default})
    BY <2>1 DEF HostLine
  <2>3. rest = [tags |-> {Default} \cup {l.tag : l \in ls}, lines |-> ls]
    BY DEF Contents
  <2> HIDE DEF ls, rest
  <2> QED
    BY <2>1, <2>2, <2>3 DEF Config
<1> HIDE DEF rest
<1>3. TypesOK'
  <2>1. memory' \in Config
    BY <1>1, <1>2 DEF TypesOK
  <2>2. iface' \in [Ifaces -> HostLine \cup {Absent}]
    BY <1>1 DEF TypesOK
  <2> QED
    BY <1>1, <2>1, <2>2 DEF TypesOK
<1>4. MacsUnique'
  BY <1>1 DEF MacsUnique
<1>5. ASSUME NEW t \in machines', t \notin unsynced'
      PROVE  Written(t)' /\ NamesWritten(t)'
  <2>1. t # s /\ t \in machines /\ Written(t) /\ NamesWritten(t)
    BY <1>1, <1>5 DEF HostsInv
  <2>2. IfacesOf(t)' = IfacesOf(t) /\ \A i \in IfacesOf(t) : iface'[i] = iface[i]
    BY <1>1, <2>1 DEF IfacesOf
  <2>3. \A i \in IfacesOf(t) : Covered(iface[i], memory'.lines)
    <3>1. CASE memory = Absent
      BY <1>1, <1>2, <1>5, <3>1, LinesOf, CoveredBy
    <3>2. CASE memory # Absent
      BY <1>1, <2>1, <3>2 DEF Written
    <3> QED
      BY <3>1, <3>2
  <2>4. Written(t)'
    BY <1>1, <2>2, <2>3 DEF Written, Covered, Part
  <2>5. NamesOf(t)' = NamesOf(t)
    BY <2>2 DEF NamesOf
  <2> QED
    BY <1>1, <2>1, <2>4, <2>5 DEF NamesWritten
<1> QED
  BY <1>3, <1>4, <1>5 DEF Inv, HostsInv

LEMMA SyncHosts ==
    ASSUME Inv, SyncAll
    PROVE  Inv'
<1>1. /\ TypesOK /\ MacsUnique /\ BuildAll /\ UNCHANGED <<machines, iface, manager>>
      /\ names' = IF manager = "dnsmasq" THEN FullNames ELSE names
  BY DEF Inv, SyncAll
<1>2. memory' \in Config /\ \A t \in machines : Written(t)'
  BY <1>1, Rebuilt
<1>3. TypesOK' /\ MacsUnique'
  BY <1>1, <1>2 DEF TypesOK, MacsUnique
<1>4. ASSUME NEW t \in machines  PROVE NamesWritten(t)'
  <2>1. NamesOf(t)' = NamesOf(t) /\ NamesOf(t) \subseteq FullNames
    BY <1>1 DEF NamesOf, IfacesOf, FullNames
  <2> QED
    BY <1>1, <2>1 DEF NamesWritten
<1> QED
  BY <1>1, <1>2, <1>3, <1>4 DEF Inv, HostsInv

\* The files stay, and so does the configuration in memory unless the daemon restarts.
LEMMA FilesStay ==
    ASSUME Inv, UNCHANGED <<machines, iface, manager, dhcpd, names, unsynced>>,
           memory' = memory \/ memory' = Absent
    PROVE  Inv'
<1>1. TypesOK' /\ MacsUnique'
  BY DEF Inv, TypesOK, MacsUnique
<1>2. ASSUME NEW s, Written(s), NamesWritten(s)  PROVE Written(s)' /\ NamesWritten(s)'
  BY <1>2, StaysWritten, NamesStay
<1> QED
  BY <1>1, <1>2 DEF Inv, HostsInv

LEMMA NextHosts == Inv /\ [NNext]_netvars => Inv'
<1> SUFFICES ASSUME Inv, [NNext]_netvars PROVE Inv'
  OBVIOUS
<1>1. ASSUME NEW i \in Ifaces, AddIface(i) \/ EditIface(i) \/ RemoveIface(i)
      PROVE  Inv'
  BY <1>1, IfaceInv
<1>2. ASSUME NEW s \in Machines, SaveMachine(s)
      PROVE  Inv'
  BY <1>2, IscSaved, DnsmasqSaved, DnsmasqFailed DEF SaveMachine
<1>3. ASSUME NEW s \in Machines, RemoveMachine(s)
      PROVE  Inv'
  BY <1>3, RemoveMachineInv
<1>4. CASE SyncAll
  BY <1>4, SyncHosts
<1>5. CASE WriteZones \/ Restarts \/ NewDay \/ Transfer \/ UNCHANGED netvars
  <2>1. UNCHANGED <<machines, iface, manager, dhcpd, names, unsynced>>
    BY <1>5 DEF WriteZones, Restarts, NewDay, Transfer, netvars
  <2>2. memory' = memory \/ memory' = Absent
    BY <1>5 DEF WriteZones, Restarts, NewDay, Transfer, netvars
  <2> QED
    BY <2>1, <2>2, FilesStay
<1> QED
  BY <1>1, <1>2, <1>3, <1>4, <1>5 DEF NNext

LEMMA InitHosts == NInit => Inv
<1> SUFFICES ASSUME NInit PROVE Inv
  OBVIOUS
<1>1. PICK i \in Ifaces, m \in Addrs :
         iface = [j \in Ifaces |-> IF j = i THEN [mac |-> m, ip |-> NoIp, tag |-> Default]
                                   ELSE Absent]
  BY DEF NInit
<1>2. [mac |-> m, ip |-> NoIp, tag |-> Default] \in HostLine
  BY DEF HostLine
<1>3. TypesOK
  BY <1>1, <1>2 DEF NInit, TypesOK
<1>4. MacsUnique
  BY <1>1 DEF MacsUnique
<1> QED
  BY <1>3, <1>4 DEF NInit, Inv, HostsInv

\* sync_single_system of isc.py and dnsmasq.py: a system that was saved or synced after its
\* last change has the lines of all its interfaces in the file, and its names, whatever
\* was saved, merged, removed, rebuilt or restarted since.
THEOREM HostsStayComplete == NSpec => []HostsComplete
<1>1. Inv => HostsComplete
  BY DEF Inv, HostsInv, Written, NamesWritten, Covered, HostsComplete
<1> QED
  BY <1>1, InitHosts, NextHosts, PTL DEF NSpec

-----------------------------------------------------------------------------
(***************************************************************************)
(* TftpSync, for any hosts, menus and boot loaders: a full sync that ended *)
(* with no edit and no other sync beside it has left the tree of the       *)
(* items, and the files of the systems are their own at all times.         *)
(***************************************************************************)

BootContents == [host : Hosts, options : [own : BOOLEAN, inherited : BOOLEAN]]
BootTrees ==
    [pxe : [Macs -> BootContents \cup {NoFile}], grub : [Macs -> BootContents \cup {NoFile}],
     link : [Hosts -> Macs \cup {NoFile}],
     menu : {NoFile} \cup SUBSET ((Menus \cup {NoFile}) \X Profs \X BOOLEAN), images : BOOLEAN]
Plans == [host : Hosts, mac : Macs \cup {NoFile}, loaders : SUBSET Formats, content : BootContents]
Syncs == [at : {"idle", "images", "systems", "lock"}, todo : SUBSET Hosts,
          plan : Plans \cup {NoPlan}, then : SUBSET {"menu", "lock"}]
HostsTyped ==
    /\ hosts \in SUBSET Hosts /\ nic \in [Hosts -> Macs \cup {NoFile}]
    /\ loaders \in [Hosts -> SUBSET Formats] /\ kopts \in [Hosts \cup Profs -> BOOLEAN]
    /\ edited \in SUBSET Hosts /\ raced \in SUBSET Hosts
TftpTyped == HostsTyped /\ tree \in BootTrees /\ full \in Syncs /\ lite \in Syncs

\* An address is that of one system, which is listed.
NicsDistinct ==
    /\ \A h \in Hosts \ hosts : nic[h] = NoFile
    /\ \A h, k \in Hosts : h # k /\ nic[h] = nic[k] => nic[h] = NoFile

\* What a request has rendered is what it will write, since no other one runs.
LiteKept ==
    /\ lite.plan # NoPlan => lite.plan.host \in lite.todo /\ lite.plan = Plan(lite.plan.host)
    /\ lite.at # "systems" => lite.todo = {}
    /\ Syncing => lite.todo \subseteq raced

\* What a full sync has rendered is that of its system, and its address that of no other
\* one, but for those that were touched since.
FullKept ==
    /\ full.plan # NoPlan =>
         LET h == full.plan.host IN
         /\ h \in full.todo
         /\ h \notin raced => /\ full.plan.mac = nic[h] /\ full.plan.loaders = loaders[h]
                              /\ full.plan.content.host = h /\ full.plan.content.options.own = kopts[h]
         /\ \A k \in hosts \ {h} : nic[k] = full.plan.mac /\ nic[k] # NoFile => k \in raced
    /\ full.at # "systems" => full.todo = {}

\* The files of a system are its own, or are still to be written.
Own(h) ==
    /\ tree.link[h] = IF "grub" \in loaders[h] THEN nic[h] ELSE NoFile
    /\ nic[h] # NoFile => \A f \in Formats :
         IF f \in loaders[h]
         THEN /\ tree[f][nic[h]] # NoFile
              /\ tree[f][nic[h]].host = h /\ tree[f][nic[h]].options.own = kopts[h]
         ELSE tree[f][nic[h]] = NoFile
OwnKept ==
    \A h \in hosts \ (edited \cup raced) :
        Own(h) \/ h \in lite.todo \/ full.at = "images" \/ h \in full.todo

\* A full sync that nothing overlaps has written the files of the systems behind it, and
\* no others.
Behind == IF full.at = "images" THEN {} ELSE hosts \ full.todo
Boot(h, f) == IF f \in loaders[h] THEN Content(h) ELSE NoFile
FilesOf(done) ==
    /\ \A f \in Formats, m \in Macs :
         /\ \A h \in done : nic[h] = m => tree[f][m] = Boot(h, f)
         /\ (\A h \in done : nic[h] # m) => tree[f][m] = NoFile
    /\ \A h \in Hosts : tree.link[h] = IF h \in done /\ "grub" \in loaders[h] THEN nic[h] ELSE NoFile
SyncKept ==
    fresh = "done" =>
        /\ lite.at = "idle" /\ full.todo \subseteq hosts
        /\ full.plan # NoPlan => full.plan = Plan(full.plan.host)
        /\ FilesOf(Behind)
        /\ full.at = "idle" => tree.menu = MenuTree

TftpInv == TftpTyped /\ NicsDistinct /\ LiteKept /\ FullKept /\ OwnKept /\ SyncKept

-----------------------------------------------------------------------------

LEMMA PlanTyped ==
    ASSUME HostsTyped, NEW h \in Hosts
    PROVE  /\ Content(h) \in BootContents /\ Content(h).host = h /\ Content(h).options.own = kopts[h]
           /\ Plan(h) \in Plans /\ Plan(h).host = h /\ Plan(h).mac = nic[h]
           /\ Plan(h).loaders = loaders[h] /\ Plan(h).content = Content(h)
<1>1. kopts[h] \in BOOLEAN /\ kopts[ProfOf[h]] \in BOOLEAN
  BY TftpAssumption DEF HostsTyped
<1>2. Content(h) \in BootContents /\ Content(h).host = h /\ Content(h).options.own = kopts[h]
  BY <1>1 DEF Content, KernelOptions, BootContents
<1>3. nic[h] \in Macs \cup {NoFile} /\ loaders[h] \in SUBSET Formats
  BY DEF HostsTyped
<1> QED
  BY <1>2, <1>3 DEF Plan, Plans

LEMMA IsPlan == \A p \in Plans : p # NoPlan /\ p.host \in Hosts
<1> SUFFICES ASSUME NEW p \in Plans PROVE p # NoPlan /\ p.host \in Hosts
  OBVIOUS
<1>1. p.host \in Hosts
  BY DEF Plans
<1>2. NoPlan.host = NoFile
  BY DEF NoPlan
<1> QED
  BY <1>1, <1>2, TftpAssumption

LEMMA IsContent == \A c \in BootContents : c # NoFile
BY TftpAssumption DEF BootContents

LEMMA MenuTyped ==
    ASSUME HostsTyped
    PROVE  MenuTree \in SUBSET ((Menus \cup {NoFile}) \X Profs \X BOOLEAN)
<1>1. \A p \in Profs : kopts[p] \in BOOLEAN
  BY DEF HostsTyped
<1>2. ASSUME NEW m \in Menus \cup {NoFile}
      PROVE  MenuLevel(m) \subseteq (Menus \cup {NoFile}) \X Profs \X BOOLEAN
  BY <1>1, <1>2 DEF MenuLevel, ProfilesIn
<1> QED
  BY <1>2 DEF MenuTree

LEMMA EmptyIs ==
    /\ EmptyTree \in BootTrees
    /\ \A f \in Formats, m \in Macs : EmptyTree[f][m] = NoFile
    /\ \A h \in Hosts : EmptyTree.link[h] = NoFile
BY DEF EmptyTree, BootTrees, Formats

LEMMA StillTyped == Still \in Syncs /\ Still.at = "idle" /\ Still.todo = {} /\ Still.plan = NoPlan
BY DEF Still, Syncs

\* What is written for a plan.
LEMMA WriteIs ==
    ASSUME NEW t \in BootTrees, NEW p \in Plans
    PROVE  LET w == WriteSystemFiles(t, p) IN
           /\ w \in BootTrees /\ w.menu = t.menu
           /\ \A f \in Formats, m \in Macs :
                w[f][m] = IF m # p.mac THEN t[f][m]
                          ELSE IF f \in p.loaders THEN p.content ELSE NoFile
           /\ \A h \in Hosts :
                w.link[h] = IF h # p.host THEN t.link[h]
                            ELSE IF "grub" \in p.loaders THEN p.mac ELSE NoFile
<1> DEFINE Put(f) == IF p.mac = NoFile THEN t[f]
                     ELSE [t[f] EXCEPT ![p.mac] = IF f \in p.loaders THEN p.content ELSE NoFile]
           mac == IF "grub" \in p.loaders THEN p.mac ELSE NoFile
           linked == [t.link EXCEPT ![p.host] = mac]
           w == WriteSystemFiles(t, p)
<1>1. p.mac \in Macs \cup {NoFile} /\ p.content \in BootContents /\ p.host \in Hosts
  BY DEF Plans
<1>2. /\ t.pxe \in [Macs -> BootContents \cup {NoFile}] /\ t.grub \in [Macs -> BootContents \cup {NoFile}]
      /\ t.link \in [Hosts -> Macs \cup {NoFile}]
      /\ t["pxe"] = t.pxe /\ t["grub"] = t.grub
  BY DEF BootTrees
<1>3. w = [t EXCEPT !.pxe = Put("pxe"), !.grub = Put("grub"), !.link = linked]
  BY DEF WriteSystemFiles
<1>4. ASSUME NEW f \in Formats
      PROVE  /\ Put(f) \in [Macs -> BootContents \cup {NoFile}]
             /\ \A m \in Macs : Put(f)[m] = IF m # p.mac THEN t[f][m]
                                            ELSE IF f \in p.loaders THEN p.content ELSE NoFile
  <2>1. t[f] \in [Macs -> BootContents \cup {NoFile}]
    BY <1>2, <1>4 DEF Formats
  <2>2. NoFile \notin Macs
    BY TftpAssumption
  <2>3. CASE p.mac = NoFile
    BY <2>1, <2>2, <2>3
  <2>4. CASE p.mac # NoFile
    <3> DEFINE c == IF f \in p.loaders THEN p.content ELSE NoFile
    <3>1. c \in BootContents \cup {NoFile}
      BY <1>1
    <3> HIDE DEF c
    <3>2. Put(f) = [t[f] EXCEPT ![p.mac] = c]
      BY <2>4 DEF c
    <3> QED
      BY <2>1, <3>1, <3>2 DEF c
  <2> QED
    BY <2>3, <2>4
<1>5. /\ linked \in [Hosts -> Macs \cup {NoFile}]
      /\ \A h \in Hosts : linked[h] = IF h # p.host THEN t.link[h] ELSE mac
  <2>1. mac \in Macs \cup {NoFile}
    BY <1>1
  <2> HIDE DEF mac
  <2> QED
    BY <1>1, <1>2, <2>1
<1> HIDE DEF Put, linked, w
<1>6. w.pxe = Put("pxe") /\ w.grub = Put("grub") /\ w.link = linked /\ w.menu = t.menu /\ w \in BootTrees
  BY <1>3, <1>4, <1>5 DEF BootTrees, Formats
<1>7. w["pxe"] = Put("pxe") /\ w["grub"] = Put("grub")
  BY <1>6
<1>8. \A f \in Formats : w[f] = Put(f)
  BY <1>7 DEF Formats
<1> QED
  BY <1>4, <1>5, <1>6, <1>8 DEF w

-----------------------------------------------------------------------------
(* What a step leaves as it was.                                            *)

SameFiles == tree'.pxe = tree.pxe /\ tree'.grub = tree.grub /\ tree'.link = tree.link
SameHost(h) == nic'[h] = nic[h] /\ loaders'[h] = loaders[h] /\ kopts'[h] = kopts[h]

LEMMA SameFile ==
    ASSUME TftpTyped, tree' \in BootTrees, SameFiles
    PROVE  \A f \in Formats : tree'[f] = tree[f]
<1>1. /\ tree["pxe"] = tree.pxe /\ tree["grub"] = tree.grub
      /\ tree'["pxe"] = tree'.pxe /\ tree'["grub"] = tree'.grub
  BY DEF TftpTyped, BootTrees
<1> QED
  BY <1>1 DEF Formats, SameFiles

LEMMA OwnStays ==
    ASSUME TftpTyped, tree' \in BootTrees, SameFiles, NEW h \in Hosts, SameHost(h), Own(h)
    PROVE  Own(h)'
<1>1. \A f \in Formats : tree'[f] = tree[f]
  BY SameFile
<1> QED
  BY <1>1 DEF Own, SameHost, SameFiles

LEMMA NicsFrame ==
    ASSUME NicsDistinct, UNCHANGED <<hosts, nic>>
    PROVE  NicsDistinct'
BY DEF NicsDistinct

\* A request touches one system, and nothing is rendered for another one.
LEMMA HostTouched ==
    ASSUME TftpInv, TftpTyped', UNCHANGED <<tree, full>>, NEW h \in Hosts, Touch(h),
           lite.at # "systems", hosts' \ {h} = hosts \ {h}, \A k \in Hosts \ {h} : SameHost(k),
           edited \subseteq edited' \cup {h}, h \in edited' \cup lite'.todo \/ h \notin hosts'
    PROVE  FullKept' /\ OwnKept'
<1>1. raced' \subseteq raced \cup {h} /\ raced \subseteq raced' /\ (Syncing => h \in raced')
  BY DEF Touch
<1>2. FullKept'
  <2>1. full'.at # "systems" => full'.todo = {}
    BY DEF TftpInv, FullKept
  <2>2. ASSUME full.plan # NoPlan
        PROVE  LET k == full.plan.host IN
               /\ k \in full.todo
               /\ k \notin raced' => /\ full.plan.mac = nic'[k] /\ full.plan.loaders = loaders'[k]
                                     /\ full.plan.content.host = k /\ full.plan.content.options.own = kopts'[k]
               /\ \A j \in hosts' \ {k} : nic'[j] = full.plan.mac /\ nic'[j] # NoFile => j \in raced'
    <3> DEFINE k == full.plan.host
    <3>1. /\ k \in full.todo
          /\ k \notin raced => /\ full.plan.mac = nic[k] /\ full.plan.loaders = loaders[k]
                               /\ full.plan.content.host = k /\ full.plan.content.options.own = kopts[k]
          /\ \A j \in hosts \ {k} : nic[j] = full.plan.mac /\ nic[j] # NoFile => j \in raced
      BY <2>2 DEF TftpInv, FullKept
    <3>2. k \in Hosts /\ Syncing
      BY <3>1 DEF TftpInv, TftpTyped, Syncs, FullKept, Syncing
    <3> HIDE DEF k
    <3>3. h \in raced'
      BY <1>1, <3>2
    <3>4. k \notin raced' => /\ full.plan.mac = nic'[k] /\ full.plan.loaders = loaders'[k]
                             /\ full.plan.content.host = k /\ full.plan.content.options.own = kopts'[k]
      BY <1>1, <3>1, <3>2, <3>3 DEF SameHost
    <3>5. ASSUME NEW j \in hosts' \ {k}, nic'[j] = full.plan.mac, nic'[j] # NoFile PROVE j \in raced'
      <4>1. CASE j = h
        BY <3>3, <4>1
      <4>2. CASE j # h
        <5>1. j \in hosts /\ j \in Hosts
          BY <4>2 DEF TftpInv, TftpTyped, HostsTyped
        <5> QED
          BY <1>1, <3>1, <3>5, <4>2, <5>1 DEF SameHost
      <4> QED
        BY <4>1, <4>2
    <3> QED
      BY <3>1, <3>4, <3>5 DEF k
  <2> QED
    BY <2>1, <2>2 DEF FullKept
<1>3. OwnKept'
  <2> SUFFICES ASSUME NEW k \in hosts', k \notin edited', k \notin raced'
               PROVE  (Own(k) \/ k \in lite.todo \/ full.at = "images" \/ k \in full.todo)'
    BY DEF OwnKept
  <2>1. CASE k = h
    BY <2>1
  <2>2. CASE k # h
    <3>1. k \in hosts \ (edited \cup raced) /\ k \in Hosts /\ k \notin lite.todo
      BY <1>1, <2>2 DEF TftpInv, TftpTyped, HostsTyped, LiteKept
    <3>2. Own(k) \/ full.at = "images" \/ k \in full.todo
      BY <3>1 DEF TftpInv, OwnKept
    <3>3. Own(k) => Own(k)'
      BY <2>2, <3>1, OwnStays DEF TftpInv, TftpTyped, SameFiles
    <3> QED
      BY <3>2, <3>3
  <2> QED
    BY <2>1, <2>2
<1> QED
  BY <1>2, <1>3

\* A request goes on, and touches no system.
LEMMA NoneTouched ==
    ASSUME TftpInv, TftpTyped', UNCHANGED <<hosts, nic, loaders, full>>, SameFiles,
           \A h \in Hosts : SameHost(h), raced \subseteq raced', edited \subseteq edited',
           lite.todo \subseteq lite'.todo
    PROVE  FullKept' /\ OwnKept'
<1>1. FullKept'
  <2>1. full.plan # NoPlan => full.plan.host \in Hosts
    BY IsPlan DEF TftpInv, TftpTyped, Syncs
  <2> QED
    BY <2>1 DEF TftpInv, FullKept, SameHost
<1>2. OwnKept'
  <2> SUFFICES ASSUME NEW k \in hosts', k \notin edited', k \notin raced'
               PROVE  (Own(k) \/ k \in lite.todo \/ full.at = "images" \/ k \in full.todo)'
    BY DEF OwnKept
  <2>1. k \in hosts \ (edited \cup raced) /\ k \in Hosts
    BY DEF TftpInv, TftpTyped, HostsTyped
  <2>2. Own(k) \/ k \in lite.todo \/ full.at = "images" \/ k \in full.todo
    BY <2>1 DEF TftpInv, OwnKept
  <2>3. Own(k) => Own(k)'
    BY <2>1, OwnStays DEF TftpInv, TftpTyped
  <2> QED
    BY <2>2, <2>3
<1> QED
  BY <1>1, <1>2

\* A request that is at rest has rendered nothing.
LEMMA LiteAtRest ==
    ASSUME TftpInv, lite.at # "systems"
    PROVE  lite.plan = NoPlan /\ lite.todo = {}
BY DEF TftpInv, LiteKept

LEMMA FullAtRest ==
    ASSUME TftpInv, full.at # "systems"
    PROVE  full.plan = NoPlan /\ full.todo = {}
BY DEF TftpInv, FullKept

LEMMA LiteFrame ==
    ASSUME TftpInv, UNCHANGED lite, lite.at # "systems"
    PROVE  LiteKept'
BY LiteAtRest DEF TftpInv, LiteKept

-----------------------------------------------------------------------------
(* The requests.                                                            *)

LEMMA EditKept ==
    ASSUME TftpInv, NEW h \in Hosts, EditHost(h)
    PROVE  TftpInv'
<1>1. /\ UNCHANGED <<hosts, tree, full, lite>> /\ Touch(h) /\ lite.at = "idle"
      /\ edited' = edited \cup {h} /\ fresh' = "no" /\ h \in hosts
  BY DEF EditHost
<1>2. /\ nic' \in [Hosts -> Macs \cup {NoFile}] /\ loaders' \in [Hosts -> SUBSET Formats]
      /\ kopts' \in [Hosts \cup Profs -> BOOLEAN]
      /\ \A k \in Hosts \ {h} : SameHost(k)
      /\ nic'[h] = nic[h] \/ \A k \in hosts : nic'[h] # nic[k]
  <2>1. /\ nic \in [Hosts -> Macs \cup {NoFile}] /\ loaders \in [Hosts -> SUBSET Formats]
        /\ kopts \in [Hosts \cup Profs -> BOOLEAN]
    BY DEF TftpInv, TftpTyped, HostsTyped
  <2>2. CASE kopts' = [kopts EXCEPT ![h] = ~@] /\ UNCHANGED <<nic, loaders>>
    <3>1. kopts' = [kopts EXCEPT ![h] = ~kopts[h]] /\ (~kopts[h]) \in BOOLEAN
      BY <2>1, <2>2
    <3> QED
      BY <2>1, <2>2, <3>1 DEF SameHost
  <2>3. ASSUME NEW f \in Formats, UNCHANGED <<nic, kopts>>,
               loaders' = [loaders EXCEPT ![h] = IF f \in @ THEN @ \ {f} ELSE @ \cup {f}]
        PROVE  /\ loaders' \in [Hosts -> SUBSET Formats]
               /\ \A k \in Hosts \ {h} : SameHost(k)
    BY <2>1, <2>3 DEF SameHost
  <2>4. ASSUME NEW m \in Macs \ {nic[k] : k \in hosts}, UNCHANGED <<loaders, kopts>>,
               nic' = [nic EXCEPT ![h] = m]
        PROVE  /\ nic' \in [Hosts -> Macs \cup {NoFile}]
               /\ \A k \in Hosts \ {h} : SameHost(k)
               /\ \A k \in hosts : nic'[h] # nic[k]
    BY <2>1, <2>4 DEF SameHost
  <2> QED
    BY <2>1, <2>2, <2>3, <2>4 DEF EditHost
<1>3. TftpTyped'
  BY <1>1, <1>2 DEF TftpInv, TftpTyped, HostsTyped, Touch
<1>4. NicsDistinct'
  <2>1. \A k \in Hosts \ hosts : nic'[k] = NoFile
    BY <1>1, <1>2 DEF TftpInv, NicsDistinct, SameHost
  <2>2. ASSUME NEW k \in Hosts \ {h}, nic'[h] = nic'[k] PROVE nic'[h] = NoFile
    <3>1. nic'[k] = nic[k]
      BY <1>2 DEF SameHost
    <3>2. CASE nic'[h] = nic[h]
      BY <2>2, <3>1, <3>2 DEF TftpInv, NicsDistinct
    <3>3. CASE \A j \in hosts : nic'[h] # nic[j]
      BY <2>1, <2>2, <3>1, <3>3
    <3> QED
      BY <1>2, <3>2, <3>3
  <2>3. ASSUME NEW k \in Hosts \ {h}, NEW j \in Hosts \ {h}, k # j, nic'[k] = nic'[j]
        PROVE  nic'[k] = NoFile
    BY <1>2, <2>3 DEF TftpInv, NicsDistinct, SameHost
  <2> QED
    BY <1>1, <2>1, <2>2, <2>3 DEF NicsDistinct
<1>5. LiteKept'
  BY <1>1, LiteFrame
<1>6. FullKept' /\ OwnKept'
  BY <1>1, <1>2, <1>3, HostTouched
<1> QED
  BY <1>1, <1>3, <1>4, <1>5, <1>6 DEF TftpInv, SyncKept

LEMMA SaveKept ==
    ASSUME TftpInv, NEW h \in Hosts, SaveHost(h)
    PROVE  TftpInv'
<1>1. /\ UNCHANGED <<nic, loaders, kopts, tree, full>> /\ Touch(h) /\ lite.at = "idle"
      /\ edited' = edited \ {h} /\ fresh' = "no" /\ hosts' = hosts \cup {h}
      /\ lite' = [Still EXCEPT !.at = "systems", !.todo = {h}]
  BY DEF SaveHost
<1>2. lite' \in Syncs /\ lite'.at = "systems" /\ lite'.todo = {h} /\ lite'.plan = NoPlan
  BY <1>1 DEF Still, Syncs
<1>3. TftpTyped'
  BY <1>1, <1>2 DEF TftpInv, TftpTyped, HostsTyped, Touch
<1>4. NicsDistinct'
  BY <1>1 DEF TftpInv, NicsDistinct
<1>5. LiteKept'
  BY <1>1, <1>2 DEF LiteKept, Touch, Syncing
<1>6. FullKept' /\ OwnKept'
  BY <1>1, <1>2, <1>3, HostTouched DEF SameHost
<1> QED
  BY <1>1, <1>3, <1>4, <1>5, <1>6 DEF TftpInv, SyncKept

LEMMA RemoveKept ==
    ASSUME TftpInv, NEW h \in Hosts, RemoveHost(h)
    PROVE  TftpInv'
<1>1. /\ UNCHANGED <<full, lite>> /\ Touch(h) /\ lite.at = "idle" /\ hosts' = hosts \ {h}
      /\ nic' = [nic EXCEPT ![h] = NoFile] /\ loaders' = [loaders EXCEPT ![h] = Formats]
      /\ kopts' = [kopts EXCEPT ![h] = FALSE]
      /\ edited' = edited \ {h} /\ fresh' = "no"
  BY DEF RemoveHost
<1>2. /\ nic' \in [Hosts -> Macs \cup {NoFile}] /\ loaders' \in [Hosts -> SUBSET Formats]
      /\ kopts' \in [Hosts \cup Profs -> BOOLEAN]
      /\ \A k \in Hosts \ {h} : SameHost(k)
      /\ nic'[h] = NoFile
  BY <1>1 DEF TftpInv, TftpTyped, HostsTyped, SameHost
<1>3. UNCHANGED tree
  BY <1>2 DEF RemoveHost, RemoveSystemFiles
<1>4. TftpTyped'
  BY <1>1, <1>2, <1>3 DEF TftpInv, TftpTyped, HostsTyped, Touch
<1>5. NicsDistinct'
  BY <1>1, <1>2 DEF TftpInv, NicsDistinct, SameHost
<1>6. LiteKept'
  BY <1>1, LiteFrame
<1>7. FullKept' /\ OwnKept'
  BY <1>1, <1>2, <1>3, <1>4, HostTouched
<1> QED
  BY <1>1, <1>4, <1>5, <1>6, <1>7 DEF TftpInv, SyncKept

LEMMA ProfileKept ==
    ASSUME TftpInv, NEW p \in Profs, SaveProfile(p)
    PROVE  TftpInv'
<1>1. /\ UNCHANGED <<hosts, nic, loaders, tree, full, edited>> /\ lite.at = "idle" /\ fresh' = "no"
      /\ kopts' = [kopts EXCEPT ![p] = ~@] /\ lite'.at = "systems"
      /\ raced' = IF Syncing THEN raced \cup {h \in hosts : ProfOf[h] = p} ELSE raced
  BY DEF SaveProfile, Still
<1>2. KidsOf(p) = {}
  BY DEF KidsOf, Uid, NameOf
<1>3. lite' \in Syncs /\ lite'.todo = {} /\ lite'.plan = NoPlan
  BY <1>2, StillTyped DEF SaveProfile, Still, Syncs
<1>4. kopts' \in [Hosts \cup Profs -> BOOLEAN] /\ \A h \in Hosts : SameHost(h)
  <2>1. kopts \in [Hosts \cup Profs -> BOOLEAN] /\ \A h \in Hosts : h # p
    BY TftpAssumption DEF TftpInv, TftpTyped, HostsTyped
  <2>2. kopts' = [kopts EXCEPT ![p] = ~kopts[p]] /\ (~kopts[p]) \in BOOLEAN
    BY <1>1, <2>1
  <2> QED
    BY <1>1, <2>1, <2>2 DEF SameHost
<1>5. TftpTyped'
  BY <1>1, <1>3, <1>4 DEF TftpInv, TftpTyped, HostsTyped
<1>6. NicsDistinct'
  BY <1>1, NicsFrame DEF TftpInv
<1>7. LiteKept'
  BY <1>1, <1>3 DEF LiteKept
<1>8. lite.todo = {}
  BY <1>1, LiteAtRest
<1>9. FullKept' /\ OwnKept'
  BY <1>1, <1>4, <1>5, <1>8, NoneTouched DEF SameFiles
<1> QED
  BY <1>1, <1>5, <1>6, <1>7, <1>9 DEF TftpInv, SyncKept

LEMMA DistroKept ==
    ASSUME TftpInv, SaveDistro
    PROVE  TftpInv'
<1>1. /\ UNCHANGED <<fitems, full, edited, raced>> /\ lite.at = "idle" /\ fresh' = "no"
      /\ tree' = [tree EXCEPT !.images = TRUE] /\ lite'.at = "systems"
  BY DEF SaveDistro, Still
<1>2. UNION {KidsOf(p) : p \in {q \in Profs : Uid(Distro) = NameOf(Distro)}} = {}
  BY DEF Uid, NameOf
<1>3. lite' \in Syncs /\ lite'.todo = {} /\ lite'.plan = NoPlan
  BY <1>2, StillTyped DEF SaveDistro, Still, Syncs
<1>4. tree' \in BootTrees /\ SameFiles
  BY <1>1 DEF TftpInv, TftpTyped, BootTrees, SameFiles
<1>5. TftpTyped'
  BY <1>1, <1>3, <1>4 DEF TftpInv, TftpTyped, HostsTyped, fitems
<1>6. NicsDistinct'
  BY <1>1, NicsFrame DEF TftpInv, fitems
<1>7. LiteKept'
  BY <1>1, <1>3 DEF LiteKept
<1>8. lite.todo = {}
  BY <1>1, LiteAtRest
<1>9. FullKept' /\ OwnKept'
  BY <1>1, <1>4, <1>5, <1>8, NoneTouched DEF SameHost, fitems
<1> QED
  BY <1>1, <1>5, <1>6, <1>7, <1>9 DEF TftpInv, SyncKept

\* Nothing that the invariant speaks of changes.
LEMMA TftpFrame ==
    ASSUME TftpInv, UNCHANGED <<hosts, nic, loaders, kopts, tree, full, lite, fresh, edited, raced>>
    PROVE  TftpInv'
<1>1. TftpTyped' /\ NicsDistinct' /\ FullKept'
  BY DEF TftpInv, TftpTyped, HostsTyped, NicsDistinct, FullKept
<1>2. LiteKept'
  BY DEF TftpInv, LiteKept, Syncing, Plan, Content, KernelOptions
<1>3. OwnKept'
  BY DEF TftpInv, OwnKept, Own
<1>4. SyncKept'
  <2>1. UNCHANGED MenuTree
    BY DEF MenuTree, MenuLevel
  <2>2. \A h, f : UNCHANGED Boot(h, f)
    BY DEF Boot, Content, KernelOptions
  <2>3. \A h : UNCHANGED Plan(h)
    BY DEF Plan, Content, KernelOptions
  <2>4. UNCHANGED Behind
    BY DEF Behind
  <2> QED
    BY <2>1, <2>2, <2>3, <2>4 DEF TftpInv, SyncKept, FilesOf
<1> QED
  BY <1>1, <1>2, <1>3, <1>4 DEF TftpInv

LEMMA LiteRendersKept ==
    ASSUME TftpInv, LiteRenders
    PROVE  TftpInv'
<1>1. /\ UNCHANGED <<hosts, nic, loaders, kopts, tree, full, fresh, edited, raced>>
      /\ lite.at = "systems"
  BY DEF LiteRenders, fitems
<1>2. PICK h \in lite.todo : lite' = [lite EXCEPT !.plan = Plan(h)]
  BY DEF LiteRenders
<1>3. h \in Hosts /\ lite \in Syncs
  BY DEF TftpInv, TftpTyped, Syncs
<1>4. Plan(h) \in Plans /\ Plan(h).host = h
  BY <1>3, PlanTyped DEF TftpInv, TftpTyped
<1>5. lite' \in Syncs /\ lite'.plan = Plan(h) /\ lite'.at = "systems" /\ lite'.todo = lite.todo
  <2> DEFINE p == Plan(h)
  <2>1. lite' = [lite EXCEPT !.plan = p] /\ p \in Plans
    BY <1>2, <1>4
  <2> HIDE DEF p
  <2>2. lite' \in Syncs /\ lite'.plan = p /\ lite'.at = "systems" /\ lite'.todo = lite.todo
    BY <1>1, <1>3, <2>1 DEF Syncs
  <2> QED
    BY <2>2 DEF p
<1>6. TftpTyped'
  BY <1>1, <1>5 DEF TftpInv, TftpTyped, HostsTyped
<1>7. NicsDistinct'
  BY <1>1, NicsFrame DEF TftpInv
<1>8. \A k : Plan(k)' = Plan(k)
  BY <1>1 DEF Plan, Content, KernelOptions
<1>9. LiteKept'
  <2>1. lite'.plan.host = h
    BY <1>4, <1>5
  <2>2. Syncing' => lite'.todo \subseteq raced'
    BY <1>1, <1>5 DEF TftpInv, LiteKept, Syncing
  <2> QED
    BY <1>5, <1>8, <2>1, <2>2 DEF LiteKept
<1>10. FullKept' /\ OwnKept'
  BY <1>1, <1>5, <1>6, NoneTouched DEF SameHost, SameFiles
<1>11. SyncKept'
  BY <1>1 DEF TftpInv, SyncKept
<1> QED
  BY <1>6, <1>7, <1>9, <1>10, <1>11 DEF TftpInv

\* A system whose plan is written has its own files, and another one keeps them.
LEMMA WrittenOwn ==
    ASSUME TftpTyped, NEW p \in Plans, tree' = WriteSystemFiles(tree, p),
           UNCHANGED <<hosts, nic, loaders, kopts>>
    PROVE  /\ p.mac = nic[p.host] /\ p.loaders = loaders[p.host]
              /\ p.content.host = p.host /\ p.content.options.own = kopts[p.host] => Own(p.host)'
           /\ \A k \in Hosts \ {p.host} : (nic[k] = p.mac => nic[k] = NoFile) /\ Own(k) => Own(k)'
<1> DEFINE h == p.host
<1>1. /\ \A f \in Formats, m \in Macs :
            tree'[f][m] = IF m # p.mac THEN tree[f][m]
                          ELSE IF f \in p.loaders THEN p.content ELSE NoFile
      /\ \A k \in Hosts :
            tree'.link[k] = IF k # p.host THEN tree.link[k]
                            ELSE IF "grub" \in p.loaders THEN p.mac ELSE NoFile
  BY WriteIs DEF TftpTyped
<1>2. /\ h \in Hosts /\ p.content \in BootContents /\ p.content # NoFile
      /\ \A k \in Hosts : nic[k] # NoFile => nic[k] \in Macs
  BY IsPlan, IsContent DEF Plans, TftpTyped, HostsTyped
<1>3. ASSUME p.mac = nic[h], p.loaders = loaders[h],
             p.content.host = h, p.content.options.own = kopts[h]
      PROVE  Own(h)'
  <2> HIDE DEF h
  <2>1. tree'.link[h] = IF "grub" \in loaders'[h] THEN nic'[h] ELSE NoFile
    BY <1>1, <1>2, <1>3 DEF h
  <2>2. ASSUME nic'[h] # NoFile, NEW f \in Formats
        PROVE  tree'[f][nic'[h]] = IF f \in loaders'[h] THEN p.content ELSE NoFile
    BY <1>1, <1>2, <1>3, <2>2
  <2> QED
    BY <1>2, <1>3, <2>1, <2>2 DEF Own
<1>4. ASSUME NEW k \in Hosts \ {h}, nic[k] = p.mac => nic[k] = NoFile, Own(k) PROVE Own(k)'
  <2> HIDE DEF h
  <2>1. tree'.link[k] = tree.link[k]
    BY <1>1 DEF h
  <2>2. ASSUME nic[k] # NoFile, NEW f \in Formats PROVE tree'[f][nic[k]] = tree[f][nic[k]]
    BY <1>1, <1>2, <1>4, <2>2
  <2> QED
    BY <1>4, <2>1, <2>2 DEF Own
<1> QED
  BY <1>3, <1>4

LEMMA LiteWritesKept ==
    ASSUME TftpInv, LiteWrites
    PROVE  TftpInv'
<1>0. PICK p \in Plans, h \in Hosts : p = lite.plan /\ h = p.host
  BY IsPlan DEF LiteWrites, TftpInv, TftpTyped, Syncs
<1>1. /\ UNCHANGED <<hosts, nic, loaders, kopts, full, fresh, edited>>
      /\ lite.at = "systems" /\ p # NoPlan /\ tree' = WriteSystemFiles(tree, p)
      /\ lite' = [lite EXCEPT !.plan = NoPlan, !.todo = lite.todo \ {h}]
      /\ raced' = IF Syncing THEN raced \cup {h} ELSE raced \ {h}
  BY <1>0 DEF LiteWrites, fitems
<1>2. h \in lite.todo /\ p = Plan(h) /\ lite \in Syncs
  BY <1>0, <1>1 DEF TftpInv, LiteKept, TftpTyped, Syncs
<1>3. p.mac = nic[h] /\ p.loaders = loaders[h] /\ p.content.host = h /\ p.content.options.own = kopts[h]
  BY <1>2, PlanTyped DEF TftpInv, TftpTyped
<1>4. tree' \in BootTrees
  BY <1>1, <1>2, WriteIs DEF TftpInv, TftpTyped
<1>5. Own(h)' /\ \A k \in Hosts \ {h} : Own(k) => Own(k)'
  <2>1. \A k \in Hosts \ {h} : nic[k] = p.mac => nic[k] = NoFile
    BY <1>2, <1>3 DEF TftpInv, NicsDistinct
  <2> QED
    BY <1>0, <1>1, <1>2, <1>3, <2>1, WrittenOwn DEF TftpInv
<1>6. lite' \in Syncs /\ lite'.plan = NoPlan /\ lite'.todo = lite.todo \ {h} /\ lite'.at = "systems"
  BY <1>1, <1>2 DEF Syncs
<1>7. TftpTyped'
  BY <1>1, <1>2, <1>4, <1>6 DEF TftpInv, TftpTyped, HostsTyped
<1>8. NicsDistinct'
  BY <1>1, NicsFrame DEF TftpInv
<1>9. LiteKept'
  BY <1>1, <1>6 DEF TftpInv, LiteKept, Syncing
<1>10. FullKept'
  <2>1. CASE Syncing
    <3>1. raced \subseteq raced'
      BY <1>1, <2>1
    <3> QED
      BY <1>1, <3>1 DEF TftpInv, FullKept
  <2>2. CASE ~Syncing
    <3>1. full.plan = NoPlan /\ full.todo = {}
      BY <2>2, FullAtRest DEF Syncing
    <3> QED
      BY <1>1, <3>1 DEF FullKept
  <2> QED
    BY <2>1, <2>2
<1>11. OwnKept'
  <2> SUFFICES ASSUME NEW k \in hosts', k \notin edited', k \notin raced'
               PROVE  (Own(k) \/ k \in lite.todo \/ full.at = "images" \/ k \in full.todo)'
    BY DEF OwnKept
  <2>1. CASE k = h
    BY <1>5, <2>1
  <2>2. CASE k # h
    <3>1. k \in hosts \ (edited \cup raced) /\ k \in Hosts \ {h}
      BY <1>1, <2>2 DEF TftpInv, TftpTyped, HostsTyped
    <3>2. Own(k) \/ k \in lite.todo \/ full.at = "images" \/ k \in full.todo
      BY <3>1 DEF TftpInv, OwnKept
    <3> QED
      BY <1>1, <1>5, <1>6, <2>2, <3>1, <3>2
  <2> QED
    BY <2>1, <2>2
<1>12. SyncKept'
  BY <1>1 DEF TftpInv, SyncKept
<1> QED
  BY <1>7, <1>8, <1>9, <1>10, <1>11, <1>12 DEF TftpInv

LEMMA LiteMenuKept ==
    ASSUME TftpInv, LiteMenu
    PROVE  TftpInv'
<1>1. /\ UNCHANGED <<hosts, nic, loaders, kopts, full, fresh, edited, raced>>
      /\ lite.at = "systems" /\ lite.todo = {}
      /\ tree' = (IF "menu" \in lite.then THEN [tree EXCEPT !.menu = MenuTree] ELSE tree)
      /\ lite' = IF "lock" \in lite.then THEN [lite EXCEPT !.at = "lock"] ELSE Still
  BY DEF LiteMenu, fitems
<1>2. tree' \in BootTrees /\ SameFiles
  <2> DEFINE menu == MenuTree
  <2>1. menu \in SUBSET ((Menus \cup {NoFile}) \X Profs \X BOOLEAN)
    BY MenuTyped DEF TftpInv, TftpTyped
  <2>2. tree' = (IF "menu" \in lite.then THEN [tree EXCEPT !.menu = menu] ELSE tree) /\ tree \in BootTrees
    BY <1>1 DEF TftpInv, TftpTyped
  <2> HIDE DEF menu
  <2> QED
    BY <2>1, <2>2 DEF BootTrees, SameFiles
<1>3. lite.plan = NoPlan
  BY <1>1 DEF TftpInv, LiteKept
<1>4. lite' \in Syncs /\ lite'.plan = NoPlan /\ lite'.todo = {}
  BY <1>1, <1>3, StillTyped DEF TftpInv, TftpTyped, Syncs
<1>5. TftpTyped'
  BY <1>1, <1>2, <1>4 DEF TftpInv, TftpTyped, HostsTyped
<1>6. NicsDistinct'
  BY <1>1, NicsFrame DEF TftpInv
<1>7. LiteKept'
  BY <1>4 DEF LiteKept
<1>8. FullKept' /\ OwnKept'
  BY <1>1, <1>2, <1>5, NoneTouched DEF SameHost
<1>9. SyncKept'
  BY <1>1 DEF TftpInv, SyncKept
<1> QED
  BY <1>5, <1>6, <1>7, <1>8, <1>9 DEF TftpInv

LEMMA LiteLockedKept ==
    ASSUME TftpInv, LiteLocked
    PROVE  TftpInv'
<1>1. /\ UNCHANGED <<hosts, nic, loaders, kopts, tree, full, fresh, edited, raced>>
      /\ lite.at = "lock" /\ ~Syncing /\ lite'.at = "systems"
  BY DEF LiteLocked, fitems, Still
<1>2. lite' \in Syncs /\ lite'.plan = NoPlan
  <2> DEFINE due == UNION {SyncedByName(p) : p \in Profs}
  <2>1. due \in SUBSET Hosts
    BY DEF SyncedByName, TftpInv, TftpTyped, HostsTyped
  <2>2. lite' = [Still EXCEPT !.at = "systems", !.then = {"menu"}, !.todo = due]
    BY DEF LiteLocked
  <2> HIDE DEF due
  <2> QED
    BY <2>1, <2>2, StillTyped DEF Syncs
<1>3. lite.todo = {}
  BY <1>1, LiteAtRest
<1>4. TftpTyped'
  BY <1>1, <1>2 DEF TftpInv, TftpTyped, HostsTyped
<1>5. NicsDistinct'
  BY <1>1, NicsFrame DEF TftpInv
<1>6. LiteKept'
  BY <1>1, <1>2 DEF LiteKept, Syncing
<1>7. FullKept' /\ OwnKept'
  BY <1>1, <1>3, <1>4, NoneTouched DEF SameHost, SameFiles
<1>8. SyncKept'
  BY <1>1 DEF TftpInv, SyncKept
<1> QED
  BY <1>4, <1>5, <1>6, <1>7, <1>8 DEF TftpInv

-----------------------------------------------------------------------------
(* The full sync.                                                           *)

\* The items stay, and what is rendered from them.
LEMMA SameItems ==
    ASSUME UNCHANGED <<hosts, nic, loaders, kopts>>
    PROVE  /\ \A h, f : Boot(h, f)' = Boot(h, f)
           /\ \A h : Plan(h)' = Plan(h)
           /\ MenuTree' = MenuTree
BY DEF Boot, Plan, Content, KernelOptions, MenuTree, MenuLevel

LEMMA SyncBeginsKept ==
    ASSUME TftpInv, SyncBegins
    PROVE  TftpInv'
<1>1. /\ UNCHANGED <<hosts, nic, loaders, kopts, lite, edited>> /\ tree' = EmptyTree
      /\ fresh' = (IF lite.at = "idle" THEN "done" ELSE "no") /\ raced' = lite.todo
  BY DEF SyncBegins, fitems
<1>2. full' \in Syncs /\ full'.at = "images" /\ full'.todo = {} /\ full'.plan = NoPlan
  BY DEF SyncBegins, Still, Syncs
<1>3. TftpTyped'
  BY <1>1, <1>2, EmptyIs DEF TftpInv, TftpTyped, HostsTyped, Syncs
<1>4. NicsDistinct'
  BY <1>1, NicsFrame DEF TftpInv
<1>5. LiteKept'
  BY <1>1, SameItems DEF TftpInv, LiteKept
<1>6. FullKept' /\ OwnKept'
  BY <1>2 DEF FullKept, OwnKept
<1>7. SyncKept'
  <2>1. Behind' = {}
    BY <1>2 DEF Behind
  <2>2. FilesOf({})'
    BY <1>1, EmptyIs DEF FilesOf
  <2> QED
    BY <1>1, <1>2, <2>1, <2>2 DEF SyncKept
<1> QED
  BY <1>3, <1>4, <1>5, <1>6, <1>7 DEF TftpInv

\* The set of systems whose files are there does not change with the rest.
LEMMA FilesOfStay ==
    ASSUME TftpTyped, tree' \in BootTrees, SameFiles, UNCHANGED <<hosts, nic, loaders, kopts>>,
           NEW done, FilesOf(done)
    PROVE  FilesOf(done)'
<1>1. \A f \in Formats : tree'[f] = tree[f]
  BY SameFile
<1> QED
  BY <1>1, SameItems DEF FilesOf, SameFiles

LEMMA SyncCopiesKept ==
    ASSUME TftpInv, SyncCopies
    PROVE  TftpInv'
<1>1. /\ UNCHANGED <<hosts, nic, loaders, kopts, lite, fresh, edited, raced>>
      /\ tree' = [tree EXCEPT !.images = TRUE] /\ full.at = "images"
  BY DEF SyncCopies, fitems
<1>2. full.plan = NoPlan
  BY <1>1, FullAtRest
<1>3. full' \in Syncs /\ full'.at = "systems" /\ full'.todo = hosts /\ full'.plan = NoPlan
  BY <1>2 DEF SyncCopies, TftpInv, TftpTyped, HostsTyped, Syncs
<1>4. tree' \in BootTrees /\ SameFiles
  BY <1>1 DEF TftpInv, TftpTyped, BootTrees, SameFiles
<1>5. TftpTyped'
  BY <1>1, <1>3, <1>4 DEF TftpInv, TftpTyped, HostsTyped
<1>6. NicsDistinct'
  BY <1>1, NicsFrame DEF TftpInv
<1>7. LiteKept'
  BY <1>1, SameItems DEF TftpInv, LiteKept, Syncing
<1>8. FullKept' /\ OwnKept'
  BY <1>1, <1>3 DEF FullKept, OwnKept
<1>9. SyncKept'
  <2>1. Behind = {} /\ Behind' = {}
    BY <1>1, <1>3 DEF Behind
  <2>2. FilesOf({}) => FilesOf({})'
    BY <1>1, <1>4, FilesOfStay DEF TftpInv
  <2> QED
    BY <1>1, <1>3, <2>1, <2>2 DEF TftpInv, SyncKept
<1> QED
  BY <1>5, <1>6, <1>7, <1>8, <1>9 DEF TftpInv

LEMMA SyncAbortsKept ==
    ASSUME TftpInv, SyncAborts
    PROVE  TftpInv'
<1>1. /\ UNCHANGED <<hosts, nic, loaders, kopts, tree, lite, edited>> /\ raced' = Hosts
      /\ full' = Still /\ fresh' # "done"
  BY DEF SyncAborts, fitems
<1>2. TftpTyped'
  BY <1>1, StillTyped DEF TftpInv, TftpTyped, HostsTyped
<1>3. NicsDistinct'
  BY <1>1, NicsFrame DEF TftpInv
<1>4. LiteKept'
  BY <1>1, SameItems, StillTyped DEF TftpInv, LiteKept, Syncing
<1>5. FullKept'
  BY <1>1, StillTyped DEF FullKept
<1>6. OwnKept'
  BY <1>1 DEF OwnKept, TftpInv, TftpTyped, HostsTyped
<1> QED
  BY <1>1, <1>2, <1>3, <1>4, <1>5, <1>6 DEF TftpInv, SyncKept

LEMMA SyncRendersKept ==
    ASSUME TftpInv, SyncRenders
    PROVE  TftpInv'
<1>1. /\ UNCHANGED <<hosts, nic, loaders, kopts, tree, lite, fresh, edited, raced>>
      /\ full.at = "systems"
  BY DEF SyncRenders, fitems
<1>2. PICK h \in full.todo : full' = [full EXCEPT !.plan = Plan(h)]
  BY DEF SyncRenders
<1>3. h \in Hosts /\ full \in Syncs
  BY DEF TftpInv, TftpTyped, Syncs
<1>4. /\ Plan(h) \in Plans /\ Plan(h).host = h /\ Plan(h).mac = nic[h] /\ Plan(h).loaders = loaders[h]
      /\ Plan(h).content.host = h /\ Plan(h).content.options.own = kopts[h]
  BY <1>3, PlanTyped DEF TftpInv, TftpTyped
<1>5. PICK p \in Plans : p = Plan(h)
  BY <1>4
<1>6. full' \in Syncs /\ full'.plan = p /\ full'.at = "systems" /\ full'.todo = full.todo
  BY <1>1, <1>2, <1>3, <1>5 DEF Syncs
<1>7. TftpTyped'
  BY <1>1, <1>6 DEF TftpInv, TftpTyped, HostsTyped
<1>8. NicsDistinct'
  BY <1>1, NicsFrame DEF TftpInv
<1>9. LiteKept'
  BY <1>1, <1>6, SameItems DEF TftpInv, LiteKept, Syncing
<1>10. FullKept'
  <2>1. \A k \in hosts \ {h} : nic[k] = p.mac => nic[k] = NoFile
    BY <1>3, <1>4, <1>5 DEF TftpInv, NicsDistinct, TftpTyped, HostsTyped
  <2>2. p.host = h
    BY <1>4, <1>5
  <2> QED
    BY <1>1, <1>4, <1>5, <1>6, <2>1, <2>2 DEF FullKept
<1>11. OwnKept'
  BY <1>1, <1>6 DEF TftpInv, OwnKept, Own
<1>12. SyncKept'
  <2>1. UNCHANGED Behind
    BY <1>1, <1>6 DEF Behind
  <2>2. ASSUME FilesOf(Behind) PROVE FilesOf(Behind)'
    <3>1. PICK done : done = Behind
      OBVIOUS
    <3>2. FilesOf(done)'
      BY <1>1, <2>2, <3>1, FilesOfStay DEF TftpInv, TftpTyped, SameFiles
    <3> QED
      BY <2>1, <3>1, <3>2
  <2>3. full'.plan.host = h /\ Plan(h)' = p
    BY <1>1, <1>3, <1>4, <1>5, <1>6, SameItems
  <2>4. full'.plan = Plan(full.plan.host)'
    <3>1. ASSUME NEW k, k = h PROVE Plan(k)' = p
      BY <2>3, <3>1
    <3> QED
      BY <1>6, <2>3 DEF Plan, Content, KernelOptions
  <2>5. SUFFICES ASSUME fresh' = "done"
        PROVE  /\ lite'.at = "idle" /\ full'.todo \subseteq hosts'
               /\ full'.plan # NoPlan => full'.plan = Plan(full.plan.host)'
               /\ FilesOf(Behind)'
               /\ full'.at = "idle" => tree'.menu = MenuTree'
    BY <2>5 DEF SyncKept
  <2>6. lite.at = "idle" /\ full.todo \subseteq hosts /\ FilesOf(Behind)
    BY <1>1, <2>5 DEF TftpInv, SyncKept
  <2>7. lite'.at = "idle" /\ full'.todo \subseteq hosts' /\ full'.at # "idle"
    BY <1>1, <1>6, <2>6
  <2>8. FilesOf(Behind)'
    BY <2>2, <2>6
  <2> QED
    BY <2>4, <2>7, <2>8
<1> QED
  BY <1>7, <1>8, <1>9, <1>10, <1>11, <1>12 DEF TftpInv

LEMMA SyncWritesKept ==
    ASSUME TftpInv, SyncWrites
    PROVE  TftpInv'
<1>0. PICK p \in Plans, h \in Hosts : p = full.plan /\ h = p.host
  BY IsPlan DEF SyncWrites, TftpInv, TftpTyped, Syncs
<1>1. /\ UNCHANGED <<hosts, nic, loaders, kopts, lite, fresh, edited, raced>>
      /\ full.at = "systems" /\ p # NoPlan /\ tree' = WriteSystemFiles(tree, p)
      /\ full' = [full EXCEPT !.plan = NoPlan, !.todo = full.todo \ {h}]
  BY <1>0 DEF SyncWrites, fitems
<1>2. /\ h \in full.todo
      /\ h \notin raced => /\ p.mac = nic[h] /\ p.loaders = loaders[h]
                           /\ p.content.host = h /\ p.content.options.own = kopts[h]
      /\ \A k \in hosts \ {h} : nic[k] = p.mac /\ nic[k] # NoFile => k \in raced
  BY <1>0, <1>1 DEF TftpInv, FullKept
<1>3. /\ tree' \in BootTrees /\ tree'.menu = tree.menu
      /\ \A f \in Formats, m \in Macs :
            tree'[f][m] = IF m # p.mac THEN tree[f][m]
                          ELSE IF f \in p.loaders THEN p.content ELSE NoFile
      /\ \A k \in Hosts :
            tree'.link[k] = IF k # h THEN tree.link[k]
                            ELSE IF "grub" \in p.loaders THEN p.mac ELSE NoFile
  BY <1>0, <1>1, WriteIs DEF TftpInv, TftpTyped
<1>4. full' \in Syncs /\ full'.plan = NoPlan /\ full'.todo = full.todo \ {h} /\ full'.at = "systems"
  BY <1>1 DEF TftpInv, TftpTyped, Syncs
<1>5. TftpTyped'
  BY <1>1, <1>3, <1>4 DEF TftpInv, TftpTyped, HostsTyped
<1>6. NicsDistinct'
  BY <1>1, NicsFrame DEF TftpInv
<1>7. LiteKept'
  BY <1>1, <1>4, SameItems DEF TftpInv, LiteKept, Syncing
<1>8. FullKept'
  BY <1>4 DEF FullKept
<1>9. OwnKept'
  <2> SUFFICES ASSUME NEW k \in hosts', k \notin edited', k \notin raced'
               PROVE  (Own(k) \/ k \in lite.todo \/ full.at = "images" \/ k \in full.todo)'
    BY DEF OwnKept
  <2>1. k \in hosts \ (edited \cup raced) /\ k \in Hosts
    BY <1>1 DEF TftpInv, TftpTyped, HostsTyped
  <2>2. CASE k = h
    <3>1. Own(h)'
      BY <1>0, <1>1, <1>2, <2>1, <2>2, WrittenOwn DEF TftpInv
    <3> QED
      BY <2>2, <3>1
  <2>3. CASE k # h
    <3>1. Own(k) => Own(k)'
      BY <1>0, <1>1, <1>2, <2>1, <2>3, WrittenOwn DEF TftpInv
    <3>2. Own(k) \/ k \in lite.todo \/ k \in full.todo
      BY <1>1, <2>1 DEF TftpInv, OwnKept
    <3> QED
      BY <1>1, <1>4, <2>3, <3>1, <3>2
  <2> QED
    BY <2>2, <2>3
<1>10. SyncKept'
  <2> SUFFICES ASSUME fresh = "done" PROVE FilesOf(Behind)' /\ full'.todo \subseteq hosts
    BY <1>1, <1>4 DEF TftpInv, SyncKept
  <2>1. p = Plan(h) /\ full.todo \subseteq hosts /\ FilesOf(hosts \ full.todo)
    BY <1>0, <1>1 DEF TftpInv, SyncKept, Behind
  <2>2. p.mac = nic[h] /\ p.loaders = loaders[h] /\ p.content = Content(h)
    BY <2>1, PlanTyped DEF TftpInv, TftpTyped
  <2>3. PICK done : done = hosts \ full.todo
    OBVIOUS
  <2>4. Behind' = done \cup {h}
    BY <1>1, <1>2, <1>4, <2>1, <2>3 DEF Behind
  <2>5. FilesOf(done) /\ done \subseteq Hosts /\ h \notin done
    BY <1>2, <2>1, <2>3 DEF TftpInv, TftpTyped, HostsTyped
  <2>6. ASSUME NEW f \in Formats, NEW m \in Macs
        PROVE  /\ \A k \in done \cup {h} : nic[k] = m => tree'[f][m] = Boot(k, f)
               /\ (\A k \in done \cup {h} : nic[k] # m) => tree'[f][m] = NoFile
    <3>1. CASE m = nic[h]
      <4>1. tree'[f][m] = Boot(h, f)
        BY <1>3, <2>2, <3>1 DEF Boot
      <4>2. \A k \in done : nic[k] # m
        BY <2>5, <3>1, TftpAssumption DEF TftpInv, NicsDistinct
      <4> QED
        BY <3>1, <4>1, <4>2
    <3>2. CASE m # nic[h]
      <4>1. tree'[f][m] = tree[f][m]
        BY <1>3, <2>2, <3>2
      <4> QED
        BY <2>5, <3>2, <4>1 DEF FilesOf
    <3> QED
      BY <3>1, <3>2
  <2>7. \A k \in Hosts : tree'.link[k] = IF k \in done \cup {h} /\ "grub" \in loaders[k]
                                         THEN nic[k] ELSE NoFile
    BY <1>3, <2>2, <2>5 DEF FilesOf
  <2>8. FilesOf(done \cup {h})'
    BY <1>1, <2>6, <2>7, SameItems DEF FilesOf
  <2> QED
    BY <1>4, <2>1, <2>4, <2>8
<1> QED
  BY <1>5, <1>6, <1>7, <1>8, <1>9, <1>10 DEF TftpInv

LEMMA SyncEndsKept ==
    ASSUME TftpInv, SyncEnds
    PROVE  TftpInv'
<1>1. /\ UNCHANGED <<hosts, nic, loaders, kopts, lite, fresh, edited, raced>>
      /\ tree' = [tree EXCEPT !.menu = MenuTree] /\ full' = Still
      /\ full.at = "systems" /\ full.todo = {}
  BY DEF SyncEnds, fitems
<1>2. tree' \in BootTrees /\ SameFiles /\ tree'.menu = MenuTree
  <2>1. PICK menu \in SUBSET ((Menus \cup {NoFile}) \X Profs \X BOOLEAN) : menu = MenuTree
    BY MenuTyped DEF TftpInv, TftpTyped
  <2>2. tree' = [tree EXCEPT !.menu = menu] /\ tree \in BootTrees
    BY <1>1, <2>1 DEF TftpInv, TftpTyped
  <2>3. tree' \in BootTrees /\ SameFiles /\ tree'.menu = menu
    BY <2>2 DEF BootTrees, SameFiles
  <2> QED
    BY <2>1, <2>3
<1>3. TftpTyped'
  BY <1>1, <1>2, StillTyped DEF TftpInv, TftpTyped, HostsTyped
<1>4. NicsDistinct'
  BY <1>1, NicsFrame DEF TftpInv
<1>5. LiteKept'
  BY <1>1, SameItems, StillTyped DEF TftpInv, LiteKept, Syncing
<1>6. FullKept'
  BY <1>1, StillTyped DEF FullKept
<1>7. OwnKept'
  <2> SUFFICES ASSUME NEW k \in hosts', k \notin edited', k \notin raced'
               PROVE  (Own(k) \/ k \in lite.todo)'
    BY DEF OwnKept
  <2>1. k \in hosts \ (edited \cup raced) /\ k \in Hosts
    BY <1>1 DEF TftpInv, TftpTyped, HostsTyped
  <2>2. Own(k) \/ k \in lite.todo
    BY <1>1, <2>1 DEF TftpInv, OwnKept
  <2>3. Own(k) => Own(k)'
    BY <1>1, <1>2, <2>1, OwnStays DEF TftpInv, SameHost
  <2> QED
    BY <1>1, <2>2, <2>3
<1>8. SyncKept'
  <2>1. PICK done : done = Behind
    OBVIOUS
  <2>2. Behind' = done
    BY <1>1, <2>1, StillTyped DEF Behind
  <2>3. FilesOf(done) => FilesOf(done)'
    BY <1>1, <1>2, FilesOfStay DEF TftpInv
  <2> QED
    BY <1>1, <1>2, <2>1, <2>2, <2>3, SameItems, StillTyped DEF TftpInv, SyncKept
<1> QED
  BY <1>3, <1>4, <1>5, <1>6, <1>7, <1>8 DEF TftpInv

-----------------------------------------------------------------------------

LEMMA InitTftp == FInit => TftpInv
<1> SUFFICES ASSUME FInit PROVE TftpInv
  OBVIOUS
<1>1. TftpTyped
  BY EmptyIs, StillTyped, TftpAssumption DEF FInit, TftpTyped, HostsTyped
<1>2. NicsDistinct
  BY TftpAssumption DEF FInit, NicsDistinct
<1>3. LiteKept /\ FullKept /\ OwnKept /\ SyncKept
  BY StillTyped DEF FInit, LiteKept, FullKept, OwnKept, SyncKept
<1> QED
  BY <1>1, <1>2, <1>3 DEF TftpInv

LEMMA NextTftp ==
    ASSUME TftpInv, [FNext]_fvars
    PROVE  TftpInv'
<1>1. CASE \E h \in Hosts : EditHost(h) \/ SaveHost(h) \/ RemoveHost(h)
  BY <1>1, EditKept, SaveKept, RemoveKept
<1>2. CASE \E p \in Profs : SaveProfile(p)
  BY <1>2, ProfileKept
<1>3. CASE SaveDistro \/ LiteRenders \/ LiteWrites \/ LiteMenu \/ LiteLocked
  BY <1>3, DistroKept, LiteRendersKept, LiteWritesKept, LiteMenuKept, LiteLockedKept
<1>4. CASE SyncBegins \/ SyncCopies \/ SyncAborts \/ SyncRenders \/ SyncWrites \/ SyncEnds
  BY <1>4, SyncBeginsKept, SyncCopiesKept, SyncAbortsKept, SyncRendersKept, SyncWritesKept, SyncEndsKept
<1>5. CASE KernelMoves
  BY <1>5, TftpFrame DEF KernelMoves
<1>6. CASE UNCHANGED fvars
  BY <1>6, TftpFrame DEF fvars, fitems
<1> QED
  BY <1>1, <1>2, <1>3, <1>4, <1>5, <1>6 DEF FNext

LEMMA TftpInvariant == FSpec => []TftpInv
<1>1. TftpInv /\ [FNext]_fvars => TftpInv'
  BY NextTftp
<1> QED
  BY <1>1, InitTftp, PTL DEF FSpec

\* A full sync that nothing overlaps leaves what the generator would serve, and no more.
THEOREM FullSyncIsExact == FSpec => []SyncExact
<1>1. TftpInv => SyncExact
  <2> SUFFICES ASSUME TftpInv, fresh = "done", full.at = "idle"
               PROVE  /\ \A q \in Paths : File(q) = Serve(q)
                      /\ \A h \in Hosts : tree.link[h] =
                            IF h \in hosts /\ "grub" \in loaders[h] THEN nic[h] ELSE NoFile
    BY DEF SyncExact, Syncing
  <2>1. FilesOf(hosts) /\ tree.menu = MenuTree
    <3>1. Behind = hosts
      BY DEF Behind, TftpInv, FullKept
    <3> QED
      BY <3>1 DEF TftpInv, SyncKept
  <2>2. ASSUME NEW f \in Formats, NEW m \in Macs PROVE tree[f][m] = GenerateSystemFile(f, m)
    <3> DEFINE knows == {h \in hosts : nic[h] = m}
    <3>1. CASE knows = {}
      BY <2>1, <3>1 DEF FilesOf, GenerateSystemFile
    <3>2. CASE knows # {}
      <4>1. PICK h \in knows : h = CHOOSE k \in knows : TRUE
        BY <3>2
      <4>2. tree[f][m] = Boot(h, f)
        BY <2>1 DEF FilesOf
      <4> QED
        BY <3>2, <4>1, <4>2 DEF GenerateSystemFile, Boot
    <3> QED
      BY <3>1, <3>2
  <2>3. ASSUME NEW q \in Paths PROVE File(q) = Serve(q)
    <3>1. CASE q = "menu"
      BY <2>1, <3>1 DEF File, Serve
    <3>2. CASE q # "menu"
      <4>1. q[1] \in Formats /\ q[2] \in Macs
        BY <3>2 DEF Paths
      <4> QED
        BY <2>2, <3>2, <4>1 DEF File, Serve
    <3> QED
      BY <3>1, <3>2
  <2> QED
    BY <2>1, <2>3 DEF FilesOf
<1> QED
  BY <1>1, TftpInvariant, PTL

\* A system that was saved after its last edit has its own files, unless a full sync
\* crossed its save.
THEOREM SavedFilesAreOwn == FSpec => []OwnFilesExact
<1>1. TftpInv => OwnFilesExact
  <2> SUFFICES ASSUME TftpInv, full.at = "idle", lite.at = "idle",
                      NEW h \in hosts \ (edited \cup raced)
               PROVE  Own(h)
    BY DEF OwnFilesExact, Syncing, Own
  <2>1. full.todo = {} /\ lite.todo = {}
    BY LiteAtRest, FullAtRest
  <2> QED
    BY <2>1 DEF TftpInv, OwnKept
<1> QED
  BY <1>1, TftpInvariant, PTL

=============================================================================
