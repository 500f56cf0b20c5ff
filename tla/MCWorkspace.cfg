SPECIFICATION Spec
CHECK_DEADLOCK FALSE
CONSTANTS
    Conns = {c1, c2}
    Roots = {r1, r2}
    Paths = {p1, p2}
    Contents = {e0, v1}
    EmptyText = e0
    Tickets = {t1}
    MaxTickets = 1
    MaxGen = 3
    MaxRequests = 3
    Absent = Absent
    Folder = Folder
    Partial = Partial
    None = None
SYMMETRY MCSymmetry
INVARIANTS WorkspaceConsistent ToldIsResolvable
PROPERTIES PinnedStaysPinned ImplementsSharedStore
