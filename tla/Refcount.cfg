SPECIFICATION FairCountSpec
CONSTANTS
    Users = {p1, p2, p3}
    Uses = {u1, u2, u3, u4}
    Nobody = Nobody
    Dead = Dead
INVARIANTS
    Exclusion
    RefcountInv
PROPERTY
    WritingEnds
