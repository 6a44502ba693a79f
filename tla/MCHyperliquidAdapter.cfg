CONSTANTS
    Cid = {c1, c2}
    Rid = {r1}
    Clock = {1, 2}
    MaxOid = 3
    MaxNonce = 4
    MaxPosts = 3
    MaxLives = 2
    None = None
SPECIFICATION Spec
SYMMETRY Symmetric
CHECK_DEADLOCK FALSE
INVARIANTS
    Attributable
    
    PostsAreFresh
    StopIsTight
