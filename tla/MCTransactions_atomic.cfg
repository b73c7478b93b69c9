CONSTANTS
    d1 = d1  p1 = p1  p2 = p2  na = na  nb = nb
    c1 = c1
    Nil = Nil  NoName = NoName  NoToken = NoToken
    Distros = {d1}
    Images = {}
    Profiles = {p1, p2}
    Systems = {}
    Names = {na, nb}
    Tokens = {c1}
    NameChoices <- NamesGiven
    RefChoices <- RefsGiven
    InitialItems <- StartItems
    InitialObj <- StartObj
    MaxDepth = 2
    RecursionLimit = 4
    MaxTime = 1
    MaxLog = 1
SPECIFICATION TSpec
PROPERTIES CommitAtomic
