SPECIFICATION Spec
CONSTANTS
    r1 = r1
    r2 = r2
    a1 = a1
    a2 = a2
    x1 = x1
    NoRelay = NoRelay
    NoAnn = NoAnn
    Relays = {r1, r2}
    Anns = {a1, a2}
    Namespaces <- LiveAndCamera
    Homes <- HomesOfTwo
    Kinds = {"file"}
    Subs = {}
    RequestOf <- NothingRequested
    EntryOf <- NothingRequested
INVARIANTS
    RegisteredWhileHeld
CHECK_DEADLOCK FALSE
