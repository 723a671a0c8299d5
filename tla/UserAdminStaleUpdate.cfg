SPECIFICATION UsersSpec
CONSTANTS
    Users = {u1, u2}
    Handlers = {p1, p2}
    NoHandler = NoHandler
    NoUser = NoUser
    Requests <- AllRequests
SYMMETRY Symmetry
INVARIANT
    LastAdmin
