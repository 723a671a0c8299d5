SPECIFICATION UsersSpec
CONSTANTS
    Users = {u1, u2, u3}
    Handlers = {p1, p2}
    NoHandler = NoHandler
    NoUser = NoUser
    Requests <- NoGrants
SYMMETRY Symmetry
INVARIANT
    LastAdmin
