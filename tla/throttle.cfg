SPECIFICATION Spec
CONSTANTS
    Clients = {c1, c2}
    LOGIN_MAX_FAILED_ATTEMPTS = 2
    LOGIN_FAILURE_WINDOW_SECONDS = 2
    LOGIN_LOCKOUT_BASE_SECONDS = 2
    LOGIN_LOCKOUT_MAX_SECONDS = 3
    LOGIN_IP_LIMIT = 1
    LOGIN_IP_WINDOW_SECONDS = 2
INVARIANTS GuessBound CountersExpire
PROPERTIES LockEnds AddressReleased
