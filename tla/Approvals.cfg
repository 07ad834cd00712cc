SPECIFICATION Spec
CONSTANTS
    Requests = {r1, r2}
    Makers = {u1}
    Checkers = {u1, u2}
    Accounts = {a1, a2}
    Workers = {w1, w2}
    NONE = NONE
    Submitted = {"create_borrower", "update_borrower", "create_account", "update_account"}
    Posted = {"create_borrower", "update_borrower", "create_account", "update_account", "update_batch", "erase"}
    Statuses = {"current"}
SYMMETRY Symmetry
INVARIANTS
    TypeOK
    ErasureIsComplete
    ReviewedOnce
CHECK_DEADLOCK FALSE
