SPECIFICATION TagsSpec
CONSTANTS
    u1 = u1
    u2 = u2
    u3 = u3
    p1 = p1
    p2 = p2
    p3 = p3
    fA = fA
    fB = fB
    NoFile = NoFile
    NoUid = NoUid
    Uids = {u1, u2, u3}
    Ptrs = {p1, p2, p3}
    Systems = {fA, fB}
    Xs <- MCXs
    Ys <- MCYs
    Word = 65536
SYMMETRY Symmetry
INVARIANTS
    TagsTypeOK
    OneOwner
    StacksExact
    LastAskIsServed
PROPERTIES
    DrawsTheBoard
