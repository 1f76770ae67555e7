SPECIFICATION FairSpec
CONSTANTS
    h1 = h1  h2 = h2  h3 = h3
    c1 = c1  c2 = c2  c3 = c3
    t1 = t1  t2 = t2
    u1 = u1  u2 = u2
    Handlers = {h1, h2}
    Calls = {c1}
    Tokens = {t1}
    Users = {u1}
    Events = {"sweep", "crash"}
    NoOne = NoOne
PROPERTIES HandlersReturn RowReclaimed
CHECK_DEADLOCK FALSE
