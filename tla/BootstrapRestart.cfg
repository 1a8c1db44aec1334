\* One application of two workspaces in one partition, one stop.
SPECIFICATION BootstrapSpec
CONSTANTS
    NumPartitions = {1}
    NumAppWorkspaces = {2}
    NoLayout = NoLayout
    MaxStops = 1
INVARIANT RestartSucceeds
CHECK_DEADLOCK FALSE
