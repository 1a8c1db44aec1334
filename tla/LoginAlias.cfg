\* One login, one failed call.
SPECIFICATION LoginAliasSpec
CONSTANTS
    Identifiers = {"jsmith", "j.smith"}
    NoIdentifier = ""
    MaxLogins = 1
    MaxChanges = 3
    MaxAliasFaults = 1
INVARIANT SettledAliasIsActive
CHECK_DEADLOCK FALSE
