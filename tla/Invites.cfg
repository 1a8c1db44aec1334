\* One invite of one role: no call fails, a cancel meets the join.
SPECIFICATION InvitesSpec
CONSTANTS
    Roles = {"reader"}
    MaxCommands = 3
    MaxFaults = 0
INVARIANT CancelConverges
CHECK_DEADLOCK FALSE
