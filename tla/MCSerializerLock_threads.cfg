CONSTANTS
    a = a  b = b  c = c  p = p  q = q  i1 = i1  i2 = i2
    h1 = h1  h2 = h2  h3 = h3  h4 = h4
    NoHandle = NoHandle  NoItem = NoItem
    Procs = {p, q}
    Threads = {a, b, c}
    ProcOf <- TwoInP
    Items = {i1}
    Handles = {h1, h2, h3, h4}
SPECIFICATION Spec
INVARIANTS ProcessesExclusive
