CONSTANTS
    h1 = h1
    p1 = p1
    m1 = m1
    mn = mn
    na = na
    nb = nb
    s1 = s1
    Hosts = {h1, h2}
    Profs = {p1, p2}
    Menus = {mn}
    Macs = {m1, m2}
    NoFile = NoFile
    ProfOf <- MCProfOf
    MenuOf <- MCMenuOf
    FirstNic <- MCFirstNic
    Distro = d1
    MaxWork = 3
    Machines = {s1, s2}
    Ifaces = {na, nb, nc}
    MachineOf <- MCMachineOf
    Addrs = {m1, m2}
    Ips = {x1}
    NoIp = NoIp
    Tags = {t1}
    Default = Default
    Absent = Absent
    MaxPerDay = 2
    MaxDays = 2
    MaxChanges = 4
    Nodes = {s1, s2}
    Nics = {na, nb, nc}
    NodeOf <- MCNodeOf
    MaxStarts = 2
    da = da
    ta = ta
    ar = ar
    Importers = {i1, i2}
    Mirrors = {ta, tb}
    NoMirror = NoMirror
    Dirs = {da, db}
    Archs = {ar, aw}
    MirrorOf <- MCMirrorOf
    ArchsIn <- MCArchsIn
    Breed <- MCBreed
    MaxImports = 3
    od = od
    op = op
    oq = oq
    os = os
    Objects = {od, op, oq, os}
    KindOf <- MCKindOf
    Refers <- MCRefers
    Spare = Spare
    Nothing = Nothing
    MaxMoves = 3
    ra = ra
    va = va
    Tasks = {i1, i2}
    Repos = {ra, rb}
    Kinds <- MCKinds
    Variable <- MCVariable
    Unset = Unset
    Empty = Empty
    System = System
    MaxTries = 2
    MaxTasks = 2
    pa = pa
    pb = pb
    sa = sa
    dx = dx
    dy = dy
    vmlinuz = vmlinuz
    Builders = {i1, i2}
    IsoProfiles = {pa, pb}
    IsoSystems = {sa}
    IsoDistros = {dx, dy}
    IsoDistroOf <- MCIsoDistroOf
    IsoProfileOf <- MCIsoProfileOf
    IsoArch <- MCIsoArch
    KernelFile <- MCKernelFile
    IsoRepos <- MCIsoRepos
    Orders <- MCOrders
    AnyDistro = AnyDistro
    Torn = Torn
    MaxBuilds = 2
    ba = ba
    Boxes = {ba}
    AddressOf <- MCAddressOf
    Servers = {i1, i2}
    NoBox = NoBox
    MaxSeconds = 2
    MaxBoots = 2
    MaxEvents = 2
    MaxChunks = 1
SYMMETRY AnyThread
SPECIFICATION WSpec
INVARIANTS
    SyncExact
    OwnFilesExact
    
    SerialIdentifies
    InterfaceKept
    ImportExact
    ReplicaSound
    
    
    
    LogsExact
PROPERTIES
    DiscoveryConfluent
    
CHECK_DEADLOCK FALSE
