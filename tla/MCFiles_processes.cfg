CONSTANTS
    a = a  b = b  c = c  p = p  q = q  i1 = i1  i2 = i2
    h1 = h1  h2 = h2  h3 = h3  h4 = h4
    NoHandle = NoHandle  NoItem = NoItem
    Procs = {p, q}
    Threads = {a, c}
    ProcOf <- OneEach
    Items = {i1}
    Handles = {h1, h2, h3}
    ad = ad
    ap = ap
    aq = aq
    ai = ai
    as = as
    grub = grub
    pxe = pxe
    arm = arm
    Bootables = {ad, ap, aq, ai, as}
    SortOf <- MCSortOf
    FirstAbove <- MCFirstAbove
    Places <- MCPlaces
    NoBootable = NoBootable
    Texts = {v1}
    Vals = {v1, v2}
    Inherit = Inherit
    Blanked = Blanked
    NoKey = NoKey
    Off = Off
    BuiltIn = BuiltIn
    Custom = Custom
    FromSettings = FromSettings
    Cannot = Cannot
    Platforms = {x86, arm}
    LoadersFor <- MCLoadersFor
    Unasked = Unasked
    MaxEdits = 2
    MaxReloads = 1
SPECIFICATION CSpec
INVARIANTS ProcessesExclusive ReadersSeeWholeFiles
PROPERTIES LockGranted StartupLosesOnly StartupKeepsValues
