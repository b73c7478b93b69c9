CONSTANTS
    d1 = d1  d2 = d2  i1 = i1  p1 = p1  p2 = p2  s1 = s1  na = na  nb = nb
    Nil = Nil  NoName = NoName
    Distros = {d1}
    Images = {}
    Profiles = {p1, p2}
    Systems = {}
    Names = {na, nb}
    NameChoices <- OwnName
    MaxDepth = 2
    RecursionLimit = 4
SPECIFICATION Spec
PROPERTIES StartupRestoresAll
