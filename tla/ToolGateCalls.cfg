SPECIFICATION Spec
CONSTANTS
    Slots = {c1, c2}
    Servers = {s1, s2}
    Cases = {"D7", "D8"}
    Plans = {p, q}
    MaxAsked = 4
    MaxCalls = 1
    MaxLost = 1
SYMMETRY Interchangeable
CHECK_DEADLOCK FALSE
INVARIANT LostServerStaysDark
INVARIANT AlternativeCreateIsConfirmed
INVARIANT PolicyFollowsState
