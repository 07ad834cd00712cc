SPECIFICATION Spec
CONSTANTS
    Requests = {r1}
    Makers = {u1}
    Checkers = {u1, u2}
    Accounts = {a1, a2}
    Workers = {w1}
    NONE = NONE
    Submitted = {"create_borrower", "create_account", "update_account"}
    Posted = {}
    Statuses = {"current", "closed"}
PROPERTIES
    LiveAccountsAreNotErased
CHECK_DEADLOCK FALSE
