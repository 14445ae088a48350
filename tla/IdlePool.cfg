CONSTANTS
    None = None
    Transfers = {t1, t2}
    Kinds = {"pinned", "plain"}
    max_idle_per_host = 1
    pool_idle_timeout = 2
    DRIVER_WAIT_SLICE = 1
    DRIVER_IDLE_WAIT = 2
    MaxTime = 3
    MaxConns = 3
SPECIFICATION Spec
SYMMETRY Symmetry
INVARIANT
  IdleIsBounded
CHECK_DEADLOCK FALSE
